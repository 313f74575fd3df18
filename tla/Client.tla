-------------------------------- MODULE Client --------------------------------
(* control_client.rs: the renderer-neutral state of a control connection that *)
(* survives reconnects: negotiated version and limits, the cursor in the      *)
(* runner's revisions and the ledger of requests in flight.  The runner keeps *)
(* a window of its latest revisions and may be replaced by another instance.  *)
EXTENDS Naturals, FiniteSets

CONSTANTS
    CliNone,       \* Option::None
    CliIds,        \* request identifiers
    CliOffers,     \* the sets of minors a peer may offer
    CliInFlight,   \* the local limit max_in_flight
    CliRevisionMax \* bound: revisions of a runner

VARIABLES
    cli,        \* ConnectionState and RequestLedger
    cliRunner,  \* the runner: its instance and the window of its revisions
    cliDone     \* for every identifier, how often it was sent and as what

cliVars == <<cli, cliRunner, cliDone>>

CliSupported == {0, 2, 3, 4, 5}
CliInstances == {"first", "second"}
CliClass == {"ReadOnly", "Mutation"}

(* Negotiated *)
CliSessions ==
    [version : CliSupported, inFlight : Nat, runner : CliInstances, oldest : Nat, latest : Nat]

ASSUME CliAssumption ==
    /\ CliInFlight \in Nat /\ CliRevisionMax \in Nat
    /\ CliNone \notin Nat \cup CliClass \cup CliSessions

(* The newest version both sides offer; an unknown one spoils an offer. *)
select_version(offered, peer) ==
    IF offered = {} \/ peer = {} \/ ~(offered \cup peer \subseteq CliSupported) THEN {}
    ELSE {v \in offered \cap peer : \A u \in offered \cap peer : u <= v}

limits_validate(l) == l > 0

(* Negotiated::validate *)
NegotiatedValid(n, offered) ==
    /\ n.version \in CliSupported \cap offered
    /\ n.oldest <= n.latest
    /\ limits_validate(n.inFlight) /\ n.inFlight <= CliInFlight

(* AdoptedChannel::authenticate: the credentials of the descriptor are those *)
(* of the runner that was negotiated with.                                   *)
authenticate(channel, n) == channel = n.runner

(* A cursor may lag behind the window by the revision before it. *)
resume_after(cursor, n) ==
    cursor # CliNone => cursor + 1 >= n.oldest /\ cursor <= n.latest

(* A careless variant: only the window is looked at. *)
cursor_jump(cursor, next, n) == IF next \in n.oldest..n.latest THEN {next} ELSE {}

(* The new cursor, or {} for an error. *)
cursor_advance(cursor, next, n) ==
    IF next \in n.oldest..n.latest /\ (cursor # CliNone => next > cursor) THEN {next} ELSE {}

-----------------------------------------------------------------------------
Disconnect(c) == [c EXCEPT !.session = CliNone]

(* adopt, negotiate and establish.  The peer's answer reports the window and *)
(* its own choice of version and limit.                                      *)
CliEstablish ==
    /\ cli.session = CliNone
    /\ \E offer \in CliOffers, limit \in 0..(CliInFlight + 1), channel \in CliInstances :
          \E v \in select_version(CliSupported, offer) :
             LET n == [version |-> v, inFlight |-> limit, runner |-> cliRunner.instance,
                       oldest |-> cliRunner.oldest, latest |-> cliRunner.latest]
             IN  /\ authenticate(channel, n) /\ NegotiatedValid(n, CliSupported)
                 /\ resume_after(cli.cursor, n)
                 /\ cli' = [cli EXCEPT !.session = n]
    /\ UNCHANGED <<cliRunner, cliDone>>

(* Two careless variants: mutations are planned again as well; what was in   *)
(* flight stays counted.                                                     *)
ReconnectPlanAll ==
    /\ cli.session # CliNone
    /\ cli' = [Disconnect(cli) EXCEPT !.pending = [i \in {} |-> "ReadOnly"],
                                       !.plan = DOMAIN cli.pending]
    /\ UNCHANGED <<cliRunner, cliDone>>

ReconnectPlanKeeping ==
    /\ cli.session # CliNone
    /\ cli' = [Disconnect(cli) EXCEPT
                  !.plan = {i \in DOMAIN cli.pending : cli.pending[i] = "ReadOnly"}]
    /\ UNCHANGED <<cliRunner, cliDone>>

(* The connection is lost: what was in flight is planned, reads to be asked  *)
(* again and mutations given up (reconnect_plan).                            *)
CliReconnectPlan ==
    /\ cli.session # CliNone
    /\ cli' = [Disconnect(cli) EXCEPT
                  !.pending = [i \in {} |-> "ReadOnly"],
                  !.plan = {i \in DOMAIN cli.pending : cli.pending[i] = "ReadOnly"}]
    /\ UNCHANGED <<cliRunner, cliDone>>

Pending(i, class) == [j \in DOMAIN cli.pending \cup {i} |-> IF j = i THEN class ELSE cli.pending[j]]

(* RequestLedger::begin, for a new request or, once more, one of the plan. *)
CliBegin ==
    /\ cli.session # CliNone
    /\ \E i \in CliIds, class \in CliClass :
          /\ cliDone[i].sent = 0 \/ (i \in cli.plan /\ class = cliDone[i].class)
          /\ Cardinality(DOMAIN cli.pending) < cli.session.inFlight /\ i \notin DOMAIN cli.pending
          /\ cli' = [cli EXCEPT !.pending = Pending(i, class), !.plan = @ \ {i}]
          /\ cliDone' = [cliDone EXCEPT ![i] = [sent |-> IF @.sent < 2 THEN @.sent + 1 ELSE 2, class |-> class]]
    /\ UNCHANGED cliRunner

CliComplete ==
    /\ cli.session # CliNone
    /\ \E i \in DOMAIN cli.pending :
          cli' = [cli EXCEPT !.pending = [j \in DOMAIN @ \ {i} |-> @[j]]]
    /\ UNCHANGED <<cliRunner, cliDone>>

(* A careless variant: the cursor is put past what was read. *)
AdvancePast ==
    /\ cli.session # CliNone
    /\ \E next \in 1..CliRevisionMax :
          \E c \in cursor_advance(cli.cursor, next, cli.session) : cli' = [cli EXCEPT !.cursor = c + 1]
    /\ UNCHANGED <<cliRunner, cliDone>>

(* The window is that of the negotiation: what the runner appends later can  *)
(* only be reached by a new one.                                             *)
CliAdvance ==
    /\ cli.session # CliNone
    /\ \E next \in 1..CliRevisionMax :
          \E c \in cursor_advance(cli.cursor, next, cli.session) : cli' = [cli EXCEPT !.cursor = c]
    /\ UNCHANGED <<cliRunner, cliDone>>

RunnerAppends ==
    /\ cliRunner.latest < CliRevisionMax
    /\ \E drop \in 0..1 :
          /\ cliRunner.oldest + drop <= cliRunner.latest + 1
          /\ cliRunner' = [cliRunner EXCEPT !.latest = @ + 1, !.oldest = @ + drop]
    /\ UNCHANGED <<cli, cliDone>>

RunnerReplaced ==
    /\ cliRunner.instance = "first"
    /\ cliRunner' = [instance |-> "second", oldest |-> 1, latest |-> 1]
    /\ UNCHANGED <<cli, cliDone>>

-----------------------------------------------------------------------------
CliInit ==
    /\ cli = [session |-> CliNone, cursor |-> CliNone, pending |-> [i \in {} |-> "ReadOnly"],
              plan |-> {}]
    /\ cliRunner = [instance |-> "first", oldest |-> 1, latest |-> 1]
    /\ cliDone = [i \in CliIds |-> [sent |-> 0, class |-> CliNone]]

CliNext ==
    \/ CliEstablish \/ CliReconnectPlan \/ CliBegin \/ CliComplete \/ CliAdvance
    \/ RunnerAppends \/ RunnerReplaced

CliSpec == CliInit /\ [][CliNext]_cliVars

(* Types of the connection, the ledger and the runner. *)
CliTypeOK ==
    /\ cli.session = CliNone \/ (cli.session.version \in CliSupported /\ cli.session.inFlight \in Nat)
    /\ cli.cursor \in 1..CliRevisionMax \cup {CliNone}
    /\ cli.plan \subseteq CliIds /\ DOMAIN cli.pending \subseteq CliIds
    /\ \A i \in DOMAIN cli.pending : cli.pending[i] \in CliClass
    /\ cliRunner.oldest \in 1..(cliRunner.latest + 1)

(* However often the connection is lost and its reads are asked again, a     *)
(* mutation is sent at most once ("prevents accidental replay of             *)
(* run/plan/cancel operations", control_client.rs, RequestLedger).           *)
CliMutationOnce == \A i \in CliIds : cliDone[i].class = "Mutation" => cliDone[i].sent = 1

(* The requests in flight stay within the limit of the session they belong   *)
(* to, also after a reconnect to a peer that allows fewer.                   *)
CliWithinLimit ==
    cli.session # CliNone => Cardinality(DOMAIN cli.pending) <= cli.session.inFlight

(* Reconnecting neither repeats a mutation nor exceeds what the new peer     *)
(* allows (control_client.rs, RequestLedger).                                *)
CliLedgerSafe == CliMutationOnce /\ CliWithinLimit
=============================================================================
