--------------------------- MODULE Frontend_proofs ---------------------------
(***************************************************************************)
(* Proofs about the parts of the frontend that keep state over a loss: the *)
(* launch (LaunchMachine), over lost and repeated events; the ledger of    *)
(* requests (Client), over lost connections; and the files of the          *)
(* configuration (Config), over kills and power losses.                    *)
(***************************************************************************)
EXTENDS LaunchMachine, Client, Config, FiniteSetTheorems, NaturalsInduction, WellFoundedInduction, TLAPS

-----------------------------------------------------------------------------
(* The ledger, for any identifiers, offers, limits and revisions.  What is   *)
(* in flight was sent with the class it is pending with, only reads are      *)
(* planned, and without a session nothing is in flight.                      *)

CliStates ==
    [session : CliSessions \cup {CliNone}, cursor : 1..CliRevisionMax \cup {CliNone},
     pending : UNION {[s -> CliClass] : s \in SUBSET CliIds}, plan : SUBSET CliIds]

CliRunners == [instance : CliInstances, oldest : Nat, latest : Nat]

CliHistory == [CliIds -> [sent : 0..2, class : CliClass \cup {CliNone}]]

CliLedgerInv ==
    /\ \A i \in DOMAIN cli.pending : cliDone[i].sent # 0 /\ cliDone[i].class = cli.pending[i]
    /\ \A i \in cli.plan : cliDone[i].class = "ReadOnly"
    /\ cli.session = CliNone => DOMAIN cli.pending = {}
    /\ IsFiniteSet(DOMAIN cli.pending)

CliInv ==
    /\ cli \in CliStates /\ cliRunner \in CliRunners /\ cliDone \in CliHistory
    /\ cliRunner.oldest \in 1..(cliRunner.latest + 1)
    /\ CliLedgerInv
    /\ CliMutationOnce /\ CliWithinLimit

(* The domain of what is in flight, and its classes. *)
LEMMA PendingType ==
    ASSUME NEW p \in UNION {[s -> CliClass] : s \in SUBSET CliIds}
    PROVE  /\ DOMAIN p \subseteq CliIds
           /\ p \in [DOMAIN p -> CliClass]
           /\ \A i \in DOMAIN p : p[i] \in CliClass
<1>1. PICK s \in SUBSET CliIds : p \in [s -> CliClass]
  OBVIOUS
<1> QED BY <1>1

(* Nothing in flight is within any limit. *)
LEMMA NothingPending ==
    LET none == [i \in {} |-> "ReadOnly"]
    IN  /\ none \in UNION {[s -> CliClass] : s \in SUBSET CliIds}
        /\ DOMAIN none = {} /\ IsFiniteSet(DOMAIN none) /\ Cardinality(DOMAIN none) = 0
<1> DEFINE none == [i \in {} |-> "ReadOnly"]
<1>1. none \in [{} -> CliClass] /\ DOMAIN none = {}
  OBVIOUS
<1>2. IsFiniteSet(DOMAIN none) /\ Cardinality(DOMAIN none) = 0
  BY <1>1, FS_EmptySet
<1> HIDE DEF none
<1>3. none \in UNION {[s -> CliClass] : s \in SUBSET CliIds}
  BY <1>1
<1> QED BY <1>1, <1>2, <1>3 DEF none

LEMMA CliInitInv == CliInit => CliInv
<1> SUFFICES ASSUME CliInit PROVE CliInv
  OBVIOUS
<1> DEFINE none == [i \in {} |-> "ReadOnly"]
<1>1. /\ none \in UNION {[s -> CliClass] : s \in SUBSET CliIds}
      /\ DOMAIN none = {} /\ IsFiniteSet(DOMAIN none)
  BY NothingPending
<1>2. cli = [session |-> CliNone, cursor |-> CliNone, pending |-> none, plan |-> {}]
  BY DEF CliInit
<1> HIDE DEF none
<1>3. cli \in CliStates /\ cliRunner \in CliRunners /\ cliDone \in CliHistory
  BY <1>1, <1>2 DEF CliInit, CliStates, CliRunners, CliHistory, CliInstances
<1>4. CliLedgerInv /\ CliWithinLimit
  BY <1>1, <1>2 DEF CliLedgerInv, CliWithinLimit
<1>5. CliMutationOnce /\ cliRunner.oldest \in 1..(cliRunner.latest + 1)
  BY CliAssumption DEF CliInit, CliMutationOnce, CliClass
<1> QED BY <1>3, <1>4, <1>5 DEF CliInv

LEMMA EstablishKeeps == CliInv /\ CliEstablish => CliInv'
<1> SUFFICES ASSUME CliInv, CliEstablish PROVE CliInv'
  OBVIOUS
<1>1. /\ cli \in CliStates /\ cliRunner \in CliRunners /\ cli.session = CliNone
      /\ UNCHANGED <<cliRunner, cliDone>>
  BY DEF CliInv, CliEstablish
<1>2. PICK n \in CliSessions : n.inFlight > 0 /\ cli' = [cli EXCEPT !.session = n]
  <2>1. PICK limit \in 0..(CliInFlight + 1), v \in CliSupported :
           LET n == [version |-> v, inFlight |-> limit, runner |-> cliRunner.instance,
                     oldest |-> cliRunner.oldest, latest |-> cliRunner.latest]
           IN  NegotiatedValid(n, CliSupported) /\ cli' = [cli EXCEPT !.session = n]
    BY DEF CliEstablish, NegotiatedValid
  <2> DEFINE n == [version |-> v, inFlight |-> limit, runner |-> cliRunner.instance,
                   oldest |-> cliRunner.oldest, latest |-> cliRunner.latest]
  <2>2. NegotiatedValid(n, CliSupported) /\ cli' = [cli EXCEPT !.session = n]
    BY <2>1
  <2>3. limit \in Nat
    BY CliAssumption
  <2>4. n \in CliSessions
    BY <1>1, <2>3 DEF CliSessions, CliRunners
  <2>5. n.inFlight > 0
    BY <2>2 DEF NegotiatedValid, limits_validate
  <2> HIDE DEF n
  <2> QED BY <2>2, <2>4, <2>5
<1>3. /\ cli' \in CliStates /\ cli'.pending = cli.pending /\ cli'.plan = cli.plan
      /\ cli'.session = n
  BY <1>1, <1>2 DEF CliStates
<1>4. DOMAIN cli.pending = {} /\ Cardinality(DOMAIN cli.pending) = 0
  BY <1>1, FS_EmptySet DEF CliInv, CliLedgerInv
<1>5. CliLedgerInv'
  BY <1>1, <1>3, <1>4, FS_EmptySet, CliAssumption DEF CliInv, CliLedgerInv
<1>6. CliWithinLimit'
  BY <1>2, <1>3, <1>4 DEF CliWithinLimit, CliSessions
<1> QED BY <1>1, <1>3, <1>5, <1>6 DEF CliInv, CliMutationOnce

LEMMA ReconnectKeeps == CliInv /\ CliReconnectPlan => CliInv'
<1> SUFFICES ASSUME CliInv, CliReconnectPlan PROVE CliInv'
  OBVIOUS
<1> DEFINE none == [i \in {} |-> "ReadOnly"]
           reads == {i \in DOMAIN cli.pending : cli.pending[i] = "ReadOnly"}
<1>1. /\ none \in UNION {[s -> CliClass] : s \in SUBSET CliIds}
      /\ DOMAIN none = {} /\ IsFiniteSet(DOMAIN none)
  BY NothingPending
<1>2. /\ cli' = [cli EXCEPT !.session = CliNone, !.pending = none, !.plan = reads]
      /\ UNCHANGED <<cliRunner, cliDone>>
  BY DEF CliReconnectPlan, Disconnect, CliInv, CliStates
<1>3. cli \in CliStates /\ DOMAIN cli.pending \subseteq CliIds
  BY PendingType DEF CliInv, CliStates
<1> HIDE DEF none
<1>4. /\ cli' \in CliStates /\ cli'.pending = none /\ cli'.plan = reads /\ cli'.session = CliNone
  BY <1>1, <1>2, <1>3 DEF CliStates
<1>5. CliLedgerInv' /\ CliWithinLimit'
  BY <1>1, <1>2, <1>4 DEF CliInv, CliLedgerInv, CliWithinLimit
<1> QED BY <1>2, <1>4, <1>5 DEF CliInv, CliMutationOnce

LEMMA BeginKeeps == CliInv /\ CliBegin => CliInv'
<1> SUFFICES ASSUME CliInv, CliBegin PROVE CliInv'
  OBVIOUS
<1>1. PICK i \in CliIds, class \in CliClass :
        /\ cliDone[i].sent = 0 \/ (i \in cli.plan /\ class = cliDone[i].class)
        /\ Cardinality(DOMAIN cli.pending) < cli.session.inFlight /\ i \notin DOMAIN cli.pending
        /\ cli' = [cli EXCEPT !.pending = Pending(i, class), !.plan = @ \ {i}]
        /\ cliDone' = [cliDone EXCEPT ![i] = [sent |-> IF @.sent < 2 THEN @.sent + 1 ELSE 2, class |-> class]]
  BY DEF CliBegin
<1>2. cli.session # CliNone /\ cliRunner' = cliRunner
  BY DEF CliBegin
<1>3. /\ cli \in CliStates /\ cliDone \in CliHistory
      /\ cli.pending \in [DOMAIN cli.pending -> CliClass] /\ DOMAIN cli.pending \subseteq CliIds
  BY PendingType DEF CliInv, CliStates
<1> DEFINE s == DOMAIN cli.pending \cup {i}
           p == Pending(i, class)
<1>4. p \in [s -> CliClass] /\ s \subseteq CliIds /\ DOMAIN p = s
  BY <1>1, <1>3 DEF Pending
<1>5. p[i] = class /\ \A j \in DOMAIN cli.pending : p[j] = cli.pending[j]
  BY <1>1 DEF Pending
<1>6. IsFiniteSet(s) /\ Cardinality(s) = Cardinality(DOMAIN cli.pending) + 1
  BY <1>1, FS_AddElement DEF CliInv, CliLedgerInv
<1>7. Cardinality(DOMAIN cli.pending) \in Nat
  BY FS_CardinalityType DEF CliInv, CliLedgerInv
<1> HIDE DEF p, s
<1>8. p \in UNION {[t -> CliClass] : t \in SUBSET CliIds}
  BY <1>4
<1>9. /\ cli' \in CliStates /\ cli'.pending = p /\ cli'.plan = cli.plan \ {i}
      /\ cli'.session = cli.session
  BY <1>1, <1>3, <1>8 DEF CliStates, p
<1>10. /\ cliDone' \in CliHistory
       /\ cliDone'[i] = [sent |-> IF cliDone[i].sent < 2 THEN cliDone[i].sent + 1 ELSE 2, class |-> class]
       /\ \A j \in CliIds \ {i} : cliDone'[j] = cliDone[j]
  <2> DEFINE d == [sent |-> IF cliDone[i].sent < 2 THEN cliDone[i].sent + 1 ELSE 2, class |-> class]
  <2>1. cliDone[i] \in [sent : 0..2, class : CliClass \cup {CliNone}]
    BY <1>3 DEF CliHistory
  <2>3. d \in [sent : 0..2, class : CliClass \cup {CliNone}]
    <3>1. (IF cliDone[i].sent < 2 THEN cliDone[i].sent + 1 ELSE 2) \in 0..2
      BY <2>1
    <3> QED BY <3>1
  <2>4. cliDone' = [cliDone EXCEPT ![i] = d]
    BY <1>1
  <2>5. cliDone'[i] = d /\ \A j \in CliIds \ {i} : cliDone'[j] = cliDone[j]
    BY <1>3, <2>4 DEF CliHistory
  <2>6. cliDone' \in CliHistory
    <3> HIDE DEF d
    <3> QED BY <1>3, <2>3, <2>4 DEF CliHistory
  <2> QED BY <2>5, <2>6
<1>11. CliLedgerInv'
  <2>1. \A j \in DOMAIN cli'.pending : cliDone'[j].sent # 0 /\ cliDone'[j].class = cli'.pending[j]
    BY <1>3, <1>4, <1>5, <1>9, <1>10 DEF CliInv, CliLedgerInv, CliHistory, s
  <2>2. \A j \in cli'.plan : cliDone'[j].class = "ReadOnly"
    BY <1>3, <1>9, <1>10 DEF CliInv, CliLedgerInv, CliStates
  <2> QED BY <1>2, <1>4, <1>6, <1>9, <2>1, <2>2 DEF CliLedgerInv
<1>12. CliWithinLimit'
  BY <1>1, <1>2, <1>3, <1>4, <1>6, <1>7, <1>9 DEF CliWithinLimit, CliStates, CliSessions
<1>13. CliMutationOnce'
  <2>1. class = "Mutation" => cliDone[i].sent = 0
    BY <1>1 DEF CliInv, CliLedgerInv
  <2>2. class = "Mutation" => cliDone'[i].sent = 1
    BY <1>10, <2>1
  <2> QED BY <1>10, <2>2 DEF CliInv, CliMutationOnce
<1> QED BY <1>2, <1>9, <1>10, <1>11, <1>12, <1>13 DEF CliInv

LEMMA CompleteKeeps == CliInv /\ CliComplete => CliInv'
<1> SUFFICES ASSUME CliInv, CliComplete PROVE CliInv'
  OBVIOUS
<1>1. PICK i \in DOMAIN cli.pending :
        cli' = [cli EXCEPT !.pending = [j \in DOMAIN @ \ {i} |-> @[j]]]
  BY DEF CliComplete
<1>2. cli.session # CliNone /\ UNCHANGED <<cliRunner, cliDone>>
  BY DEF CliComplete
<1>3. /\ cli \in CliStates
      /\ cli.pending \in [DOMAIN cli.pending -> CliClass] /\ DOMAIN cli.pending \subseteq CliIds
  BY PendingType DEF CliInv, CliStates
<1> DEFINE s == DOMAIN cli.pending \ {i}
           p == [j \in s |-> cli.pending[j]]
<1>4. p \in [s -> CliClass] /\ s \subseteq CliIds /\ DOMAIN p = s
  BY <1>3
<1>5. IsFiniteSet(s) /\ Cardinality(s) <= Cardinality(DOMAIN cli.pending)
  BY FS_Subset DEF CliInv, CliLedgerInv
<1>6. Cardinality(s) \in Nat /\ Cardinality(DOMAIN cli.pending) \in Nat
  BY <1>5, FS_CardinalityType DEF CliInv, CliLedgerInv
<1>7. \A j \in s : p[j] = cli.pending[j]
  OBVIOUS
<1>8. cli' = [cli EXCEPT !.pending = p]
  BY <1>1
<1>9. s \subseteq DOMAIN cli.pending
  OBVIOUS
<1> HIDE DEF p, s
<1>10. p \in UNION {[t -> CliClass] : t \in SUBSET CliIds}
  BY <1>4
<1>11. cli' \in CliStates /\ cli'.pending = p /\ cli'.plan = cli.plan /\ cli'.session = cli.session
  BY <1>3, <1>8, <1>10 DEF CliStates
<1>12. CliLedgerInv'
  BY <1>2, <1>4, <1>5, <1>7, <1>9, <1>11 DEF CliInv, CliLedgerInv
<1>13. CliWithinLimit'
  BY <1>2, <1>3, <1>4, <1>5, <1>6, <1>11 DEF CliInv, CliWithinLimit, CliStates, CliSessions
<1> QED BY <1>2, <1>11, <1>12, <1>13 DEF CliInv, CliMutationOnce

LEMMA AdvanceKeeps == CliInv /\ CliAdvance => CliInv'
<1> SUFFICES ASSUME CliInv, CliAdvance PROVE CliInv'
  OBVIOUS
<1>1. PICK c \in 1..CliRevisionMax : cli' = [cli EXCEPT !.cursor = c]
  BY DEF CliAdvance, cursor_advance
<1>2. UNCHANGED <<cliRunner, cliDone>> /\ cli \in CliStates
  BY DEF CliAdvance, CliInv
<1>3. /\ cli' \in CliStates /\ cli'.pending = cli.pending /\ cli'.plan = cli.plan
      /\ cli'.session = cli.session
  BY <1>1, <1>2 DEF CliStates
<1> QED BY <1>2, <1>3 DEF CliInv, CliLedgerInv, CliWithinLimit, CliMutationOnce

LEMMA RunnerKeeps == CliInv /\ (RunnerAppends \/ RunnerReplaced) => CliInv'
<1> SUFFICES ASSUME CliInv, RunnerAppends \/ RunnerReplaced PROVE CliInv'
  OBVIOUS
<1>1. UNCHANGED <<cli, cliDone>>
  BY DEF RunnerAppends, RunnerReplaced
<1>2. cliRunner' \in CliRunners /\ cliRunner'.oldest \in 1..(cliRunner'.latest + 1)
  <2>1. CASE RunnerAppends
    <3>1. PICK drop \in 0..1 :
             /\ cliRunner.oldest + drop <= cliRunner.latest + 1
             /\ cliRunner' = [cliRunner EXCEPT !.latest = @ + 1, !.oldest = @ + drop]
      BY <2>1 DEF RunnerAppends
    <3>2. cliRunner \in CliRunners /\ cliRunner.oldest >= 1
      BY DEF CliInv, CliRunners
    <3>3. /\ cliRunner'.latest = cliRunner.latest + 1 /\ cliRunner'.oldest = cliRunner.oldest + drop
          /\ cliRunner' \in CliRunners
      <4>1. cliRunner.latest + 1 \in Nat /\ cliRunner.oldest + drop \in Nat
        BY <3>2 DEF CliRunners
      <4>2. cliRunner' = [instance |-> cliRunner.instance, oldest |-> cliRunner.oldest + drop,
                          latest |-> cliRunner.latest + 1]
        BY <3>1, <3>2 DEF CliRunners
      <4> QED BY <3>2, <4>1, <4>2 DEF CliRunners
    <3> QED BY <3>1, <3>2, <3>3 DEF CliRunners
  <2>2. CASE RunnerReplaced
    BY <2>2 DEF RunnerReplaced, CliRunners, CliInstances
  <2> QED BY <2>1, <2>2
<1> QED BY <1>1, <1>2 DEF CliInv, CliLedgerInv, CliWithinLimit, CliMutationOnce

LEMMA CliNextInv == CliInv /\ [CliNext]_cliVars => CliInv'
<1> SUFFICES ASSUME CliInv, [CliNext]_cliVars PROVE CliInv'
  OBVIOUS
<1>1. CASE CliNext
  BY <1>1, EstablishKeeps, ReconnectKeeps, BeginKeeps, CompleteKeeps, AdvanceKeeps, RunnerKeeps
     DEF CliNext
<1>2. CASE UNCHANGED cliVars
  BY <1>2 DEF cliVars, CliInv, CliLedgerInv, CliWithinLimit, CliMutationOnce
<1> QED BY <1>1, <1>2

(* However often the connection is lost, every mutation is sent once and no  *)
(* more is in flight than the session of the moment allows                   *)
(* (control_client.rs, RequestLedger).                                       *)
THEOREM LedgerSafe == CliSpec => []CliLedgerSafe
<1>1. CliInv => CliLedgerSafe
  BY DEF CliInv, CliLedgerSafe
<1> QED BY <1>1, CliInitInv, CliNextInv, PTL DEF CliSpec

(* The connection, the ledger and the runner's window keep their types       *)
(* (control_client.rs, ConnectionState).                                     *)
THEOREM ClientTypes == CliSpec => []CliTypeOK
<1>1. CliInv => CliTypeOK
  BY PendingType DEF CliInv, CliTypeOK, CliStates, CliSessions
<1> QED BY <1>1, CliInitInv, CliNextInv, PTL DEF CliSpec

-----------------------------------------------------------------------------
(* The configuration and the bundle, for any bounds, bundles and faults.     *)
(* Each step of a write knows what the steps before it left in the stage, so *)
(* what is renamed over a file is whole and flushed; a configuration is      *)
(* under no name otherwise.                                                  *)

CfgValues == CfgMin..CfgMax \cup CfgBundles \cup {CfgTorn}
CfgWritten == [v : CfgValues, flushed : BOOLEAN]
CfgAnyFile == CfgWritten \cup {CfgNone}
CfgStoreTypes == [target : CfgAnyFile, durable : CfgAnyFile, stage : CfgAnyFile]

(* The workspace; its text is whatever it is. *)
CfgWorkspaceType(w) ==
    w \in [alive : BOOLEAN, path : BOOLEAN,
           draft : [original : CfgMin..CfgMax, current : CfgMin..CfgMax],
           editing : BOOLEAN, focused : BOOLEAN, text : {w.text}, error : BOOLEAN,
           save : {"Clean", "Dirty", "Saved", "Failed", "Unavailable", "Invalid"},
           preflight : CfgValues \cup {CfgNone},
           at : {"ui", "open", "write", "sync", "rename", "settle"},
           store : CfgStores, content : CfgValues \cup {CfgNone}]

CfgTypes ==
    /\ CfgWorkspaceType(cfg)
    /\ cfgDisk \in [CfgStores -> CfgStoreTypes]
    /\ cfgTold \in [CfgStores -> CfgValues \cup {CfgNone}]
    /\ cfgFaults \in Nat

(* A configuration under its name is one a start accepts. *)
CfgWhole(f) == f = CfgNone \/ (f.v \in CfgMin..CfgMax /\ f.flushed)

(* What a write of the content c has done to its store before its next call. *)
CfgProgress(at, c, d) ==
    /\ at = "write" => d.stage = CfgFile(CfgTorn, FALSE)
    /\ at = "sync" => d.stage = CfgFile(c, FALSE)
    /\ at = "rename" => d.stage = CfgFile(c, TRUE)
    /\ at = "settle" => d.target = CfgFile(c, TRUE)

CfgWriting ==
    cfg.at # "ui" =>
        /\ cfg.alive /\ cfg.content # CfgNone /\ cfgTold[cfg.store] = CfgNone
        /\ cfg.store = "config" => cfg.content = cfg.draft.current
        /\ cfg.store = "bundle" /\ cfg.at = "open" => ~NeedsRecovery(cfgDisk["bundle"])
        /\ CfgProgress(cfg.at, cfg.content, cfgDisk[cfg.store])

CfgClean ==
    (cfg.alive /\ (cfg.at = "ui" \/ cfg.store = "bundle") /\ cfg.save \in {"Clean", "Saved"}) =>
        cfg.draft.current = load_or_default(cfgDisk)

CfgInv ==
    /\ CfgTypes
    /\ CfgWhole(cfgDisk["config"].target) /\ CfgWhole(cfgDisk["config"].durable)
    /\ CfgWriting
    /\ CfgClean
    /\ CfgReportedSurvives

(* A keystroke keeps the draft within its bounds, and no change of it counts *)
(* as saved.                                                                 *)
Edited(w, a) ==
    /\ CfgWorkspaceType(a)
    /\ a.alive = w.alive /\ a.path = w.path /\ a.at = w.at /\ a.store = w.store /\ a.content = w.content
    /\ a.save \in {"Clean", "Saved"} => a.save = w.save /\ a.draft = w.draft

LEMMA SetValue ==
    ASSUME NEW draft \in [original : CfgMin..CfgMax, current : CfgMin..CfgMax], NEW text,
           NEW d \in cfg_set_value(draft, text)
    PROVE  d \in [original : CfgMin..CfgMax, current : CfgMin..CfgMax]
<1>1. PICK n : cfg_validate(n) /\ d = [draft EXCEPT !.current = n]
  BY DEF cfg_set_value
<1> QED BY <1>1 DEF cfg_validate

LEMMA ApplyEdits ==
    ASSUME NEW w, CfgWorkspaceType(w)
    PROVE  Edited(w, apply_configuration_edit_buffer(w))
<1> DEFINE a == apply_configuration_edit_buffer(w)
<1>1. CASE ~w.focused
  BY <1>1 DEF apply_configuration_edit_buffer, Edited
<1>2. CASE w.focused /\ cfg_set_value(w.draft, w.text) = {}
  <2>1. a = [w EXCEPT !.error = TRUE, !.save = "Invalid"]
    BY <1>2 DEF apply_configuration_edit_buffer
  <2> HIDE DEF a
  <2>2. Edited(w, a)
    BY <2>1 DEF CfgWorkspaceType, Edited
  <2> QED BY <2>2 DEF a
<1>3. CASE w.focused /\ cfg_set_value(w.draft, w.text) # {}
  <2> DEFINE d == CHOOSE e \in cfg_set_value(w.draft, w.text) : TRUE
             s == IF w.path THEN "Dirty" ELSE "Unavailable"
  <2>1. d \in cfg_set_value(w.draft, w.text)
    BY <1>3
  <2>2. w.draft \in [original : CfgMin..CfgMax, current : CfgMin..CfgMax]
    BY DEF CfgWorkspaceType
  <2>3. a = [w EXCEPT !.draft = d, !.error = FALSE, !.save = s]
    BY <1>3 DEF apply_configuration_edit_buffer
  <2>4. s \in {"Dirty", "Unavailable"}
    OBVIOUS
  <2> HIDE DEF a, d, s
  <2>5. d \in [original : CfgMin..CfgMax, current : CfgMin..CfgMax]
    BY <2>1, <2>2, SetValue
  <2>6. Edited(w, a)
    BY <2>3, <2>4, <2>5 DEF CfgWorkspaceType, Edited
  <2> QED BY <2>6 DEF a
<1> QED BY <1>1, <1>2, <1>3

LEMMA CommitEdits ==
    ASSUME NEW w, CfgWorkspaceType(w)
    PROVE  Edited(w, commit_configuration_edit(w))
<1> DEFINE a == apply_configuration_edit_buffer(w)
           b == commit_configuration_edit(w)
<1>1. Edited(w, a)
  BY ApplyEdits
<1>2. b = a \/ b = [a EXCEPT !.editing = FALSE, !.focused = FALSE, !.text = <<>>]
  BY DEF commit_configuration_edit
<1> HIDE DEF a, b
<1>3. b = a => Edited(w, b)
  BY <1>1
<1>4. b = [a EXCEPT !.editing = FALSE, !.focused = FALSE, !.text = <<>>] => Edited(w, b)
  BY <1>1 DEF Edited, CfgWorkspaceType
<1>5. Edited(w, b)
  BY <1>2, <1>3, <1>4
<1> QED BY <1>5 DEF b

(* What the next start loads of the configuration depends on its file alone. *)
LEMMA LoadOf ==
    ASSUME NEW d, NEW e, d["config"].target = e["config"].target
    PROVE  load_or_default(d) = load_or_default(e)
BY DEF load_or_default, LoadsConfig, Content

(* Nothing but the workspace changes, which stays at rest. *)
LEMMA RestKeeps ==
    ASSUME CfgInv, CfgUi, Edited(cfg, cfg'), UNCHANGED <<cfgDisk, cfgTold>>, cfgFaults' \in Nat
    PROVE  CfgInv'
<1>1. cfg'.at = "ui" /\ cfg.at = "ui" /\ cfg.alive
  BY DEF CfgUi, Edited
<1>2. CfgTypes'
  BY DEF CfgInv, CfgTypes, Edited
<1>3. CfgClean'
  BY <1>1, LoadOf DEF CfgInv, CfgClean, Edited
<1>4. CfgWriting'
  BY <1>1 DEF CfgWriting
<1> QED BY <1>2, <1>3, <1>4 DEF CfgInv, CfgReportedSurvives

LEMMA KeysKeep ==
    CfgInv /\ (CfgKeyEdit \/ CfgKeyChar \/ CfgKeyBackspace \/ CfgKeyEnter \/ CfgKeyEsc \/ CfgPrepare)
      => CfgInv'
<1> SUFFICES ASSUME CfgInv, CfgKeyEdit \/ CfgKeyChar \/ CfgKeyBackspace \/ CfgKeyEnter \/ CfgKeyEsc \/ CfgPrepare
             PROVE  CfgInv'
  OBVIOUS
<1>1. CfgUi /\ UNCHANGED <<cfgDisk, cfgTold, cfgFaults>>
  BY DEF CfgKeyEdit, CfgKeyChar, CfgKeyBackspace, CfgKeyEnter, CfgKeyEsc, CfgPrepare
<1>2. CfgWorkspaceType(cfg) /\ cfgFaults \in Nat
  BY DEF CfgInv, CfgTypes
<1>3. Edited(cfg, cfg')
  <2>1. ASSUME NEW t, NEW w, w = [cfg EXCEPT !.text = t]
        PROVE  CfgWorkspaceType(w) /\ (Edited(w, cfg') => Edited(cfg, cfg'))
    BY <1>2, <2>1 DEF CfgWorkspaceType, Edited
  <2>2. CASE CfgKeyEdit
    BY <1>2, <2>2 DEF CfgKeyEdit, CfgWorkspaceType, Edited
  <2>3. CASE CfgKeyChar
    <3>1. PICK c \in 0..2 : cfg' = apply_configuration_edit_buffer([cfg EXCEPT !.text = Append(cfg.text, c)])
      BY <2>3 DEF CfgKeyChar
    <3> QED BY <2>1, <3>1, ApplyEdits
  <2>4. CASE CfgKeyBackspace
    <3> DEFINE t == IF cfg.text = <<>> THEN cfg.text ELSE SubSeq(cfg.text, 1, Len(cfg.text) - 1)
    <3>1. cfg' = apply_configuration_edit_buffer([cfg EXCEPT !.text = t])
      BY <2>4 DEF CfgKeyBackspace
    <3> HIDE DEF t
    <3> QED BY <2>1, <3>1, ApplyEdits
  <2>5. CASE CfgKeyEnter
    BY <1>2, <2>5, CommitEdits DEF CfgKeyEnter
  <2>6. CASE CfgKeyEsc
    BY <1>2, <2>6 DEF CfgKeyEsc, CfgWorkspaceType, Edited
  <2>7. CASE CfgPrepare
    <3>1. PICK b \in CfgBundles : cfg' = [cfg EXCEPT !.preflight = b]
      BY <2>7 DEF CfgPrepare
    <3>2. b \in CfgValues
      BY DEF CfgValues
    <3> QED BY <1>2, <3>1, <3>2 DEF CfgWorkspaceType, Edited
  <2> QED BY <2>2, <2>3, <2>4, <2>5, <2>6, <2>7
<1> QED BY <1>1, <1>2, <1>3, RestKeeps

(* A write begins. *)
LEMMA CallKeeps ==
    ASSUME CfgInv, CfgUi, NEW w, Edited(cfg, w), NEW s \in CfgStores, NEW c \in CfgValues,
           NEW disk \in [CfgStores -> CfgStoreTypes], CfgCall(w, s, c, disk),
           c # CfgNone, cfgFaults' \in Nat,
           s = "config" => c = w.draft.current /\ disk = cfgDisk,
           s = "bundle" => /\ disk["config"] = cfgDisk["config"]
                           /\ ~NeedsRecovery(disk["bundle"])
    PROVE  CfgInv'
<1>1. /\ cfg' = [w EXCEPT !.at = "open", !.store = s, !.content = c]
      /\ cfgTold' = [cfgTold EXCEPT ![s] = CfgNone] /\ cfgDisk' = disk
  BY DEF CfgCall
<1>2. CfgWorkspaceType(w) /\ w.alive /\ cfg.alive /\ cfg.at = "ui"
  BY DEF Edited, CfgUi
<1>3. /\ CfgWorkspaceType(cfg') /\ cfg'.alive /\ cfg'.at = "open" /\ cfg'.store = s /\ cfg'.content = c
      /\ cfg'.draft = w.draft /\ cfg'.save = w.save
  BY <1>1, <1>2 DEF CfgWorkspaceType
<1>4. cfgTold' \in [CfgStores -> CfgValues \cup {CfgNone}] /\ cfgTold'[s] = CfgNone
  BY <1>1 DEF CfgInv, CfgTypes
<1>5. CfgTypes'
  BY <1>1, <1>3, <1>4 DEF CfgTypes
<1>6. disk["config"] = cfgDisk["config"]
  BY DEF CfgStores
<1>7. CfgWriting'
  BY <1>1, <1>3, <1>4 DEF CfgWriting, CfgProgress
<1>8. CfgClean'
  BY <1>1, <1>2, <1>3, <1>6, LoadOf DEF CfgClean, CfgInv, Edited
<1>9. CfgReportedSurvives'
  <2> SUFFICES ASSUME NEW t \in CfgStores, cfgTold'[t] # CfgNone
               PROVE  /\ disk[t].target = CfgFile(cfgTold'[t], TRUE)
                      /\ disk[t].durable = CfgFile(cfgTold'[t], TRUE)
    BY <1>1 DEF CfgReportedSurvives
  <2>1. t # s /\ cfgTold'[t] = cfgTold[t]
    BY <1>1, <1>4 DEF CfgInv, CfgTypes
  <2>2. disk[t] = cfgDisk[t]
    BY <1>6, <2>1 DEF CfgStores
  <2> QED BY <2>1, <2>2 DEF CfgInv, CfgReportedSurvives
<1> QED BY <1>1, <1>5, <1>6, <1>7, <1>8, <1>9 DEF CfgInv

LEMMA SaveKeeps == CfgInv /\ CfgSave => CfgInv'
<1> SUFFICES ASSUME CfgInv, CfgSave PROVE CfgInv'
  OBVIOUS
<1> DEFINE w == IF cfg.editing THEN commit_configuration_edit(cfg) ELSE cfg
<1>1. /\ CfgUi /\ cfgFaults' = cfgFaults
      /\ IF w.editing \/ ~w.path
         THEN /\ cfg' = IF w.editing THEN w ELSE [w EXCEPT !.save = "Unavailable"]
              /\ UNCHANGED <<cfgDisk, cfgTold>>
         ELSE CfgCall(w, "config", w.draft.current, cfgDisk)
  BY DEF CfgSave
<1>2. /\ CfgWorkspaceType(cfg) /\ cfgFaults \in Nat /\ cfgDisk \in [CfgStores -> CfgStoreTypes]
  BY DEF CfgInv, CfgTypes
<1>3. Edited(cfg, w)
  <2>1. Edited(cfg, cfg)
    BY <1>2 DEF Edited
  <2> QED BY <1>2, <2>1, CommitEdits
<1> HIDE DEF w
<1>4. CASE w.editing \/ ~w.path
  <2>1. Edited(cfg, [w EXCEPT !.save = "Unavailable"])
    BY <1>3 DEF Edited, CfgWorkspaceType
  <2>2. Edited(cfg, cfg') /\ UNCHANGED <<cfgDisk, cfgTold>>
    BY <1>1, <1>3, <1>4, <2>1
  <2> QED BY <1>1, <1>2, <2>2, RestKeeps
<1>5. CASE ~(w.editing \/ ~w.path)
  <2>1. CfgCall(w, "config", w.draft.current, cfgDisk)
    BY <1>1, <1>5
  <2>2. w.draft.current \in CfgMin..CfgMax
    BY <1>3 DEF Edited, CfgWorkspaceType
  <2>3. w.draft.current \in CfgValues /\ w.draft.current # CfgNone /\ "config" \in CfgStores
    BY <2>2, CfgAssumption DEF CfgValues, CfgStores
  <2> QED BY <1>1, <1>2, <1>3, <2>1, <2>3, CallKeeps
<1> QED BY <1>4, <1>5

(* The stage becomes the file; no write of the bundle was reported then. *)
LEMMA RecoveredStore ==
    ASSUME NEW d \in CfgStoreTypes, NeedsRecovery(d), NEW settled \in BOOLEAN
    PROVE  /\ Recovered(d, settled) \in CfgStoreTypes
           /\ ~NeedsRecovery(Recovered(d, settled))
           /\ Loads(Recovered(d, settled)) = Loads(d)
BY DEF NeedsRecovery, Recovered, CfgStoreTypes, Loads, Content

LEMMA ApplyKeeps == CfgInv /\ CfgApply => CfgInv'
<1> SUFFICES ASSUME CfgInv, CfgApply PROVE CfgInv'
  OBVIOUS
<1>1. /\ CfgWorkspaceType(cfg) /\ cfgFaults \in Nat /\ cfgDisk \in [CfgStores -> CfgStoreTypes]
      /\ {"config", "bundle"} \subseteq CfgStores
  BY DEF CfgInv, CfgTypes, CfgStores
<1>2. Edited(cfg, cfg)
  BY <1>1 DEF Edited
<1>3. CfgUi /\ cfg.preflight \in CfgValues /\ cfg.preflight # CfgNone
  BY <1>1 DEF CfgApply, CfgWorkspaceType
<1>4. CASE ~NeedsRecovery(cfgDisk["bundle"])
  <2>1. CfgCall(cfg, "bundle", cfg.preflight, cfgDisk) /\ cfgFaults' = cfgFaults
    BY <1>4 DEF CfgApply
  <2> QED BY <1>1, <1>2, <1>3, <1>4, <2>1, CallKeeps
<1>5. CASE NeedsRecovery(cfgDisk["bundle"])
  <2> DEFINE done == [cfgDisk EXCEPT !["bundle"] = Recovered(@, TRUE)]
             torn == [cfgDisk EXCEPT !["bundle"] = Recovered(@, FALSE)]
  <2>1. \/ CfgCall(cfg, "bundle", cfg.preflight, done) /\ cfgFaults' = cfgFaults
        \/ CfgFault /\ cfgDisk' = torn /\ UNCHANGED <<cfg, cfgTold>>
    BY <1>5 DEF CfgApply
  <2>2. /\ done \in [CfgStores -> CfgStoreTypes] /\ done["config"] = cfgDisk["config"]
        /\ ~NeedsRecovery(done["bundle"])
        /\ torn \in [CfgStores -> CfgStoreTypes] /\ torn["config"] = cfgDisk["config"]
    BY <1>1, <1>5, RecoveredStore
  <2> HIDE DEF done, torn
  <2>3. CASE CfgCall(cfg, "bundle", cfg.preflight, done) /\ cfgFaults' = cfgFaults
    BY <1>1, <1>2, <1>3, <2>2, <2>3, CallKeeps
  <2>4. CASE CfgFault /\ cfgDisk' = torn /\ UNCHANGED <<cfg, cfgTold>>
    <3>1. cfgFaults' \in Nat /\ cfg' = cfg /\ cfgTold' = cfgTold /\ cfgDisk' = torn /\ cfg.at = "ui"
      BY <1>1, <1>3, <2>4 DEF CfgFault, CfgUi
    <3>2. cfgTold["bundle"] = CfgNone
      <4>1. cfgDisk["bundle"].target = CfgNone
        BY <1>5 DEF NeedsRecovery
      <4>2. CfgFile(cfgTold["bundle"], TRUE) \in CfgWritten \/ cfgTold["bundle"] = CfgNone
        BY <1>1 DEF CfgInv, CfgTypes, CfgFile, CfgWritten
      <4> QED BY <1>1, <4>1, <4>2, CfgAssumption DEF CfgInv, CfgReportedSurvives, CfgWritten, CfgValues
    <3>3. CfgReportedSurvives'
      BY <1>1, <2>2, <3>1, <3>2 DEF CfgInv, CfgReportedSurvives, CfgStores
    <3>4. CfgClean'
      BY <2>2, <3>1, LoadOf DEF CfgInv, CfgClean
    <3>5. CfgTypes' /\ CfgWriting'
      BY <2>2, <3>1 DEF CfgInv, CfgTypes, CfgWriting
    <3> QED BY <2>2, <3>1, <3>3, <3>4, <3>5 DEF CfgInv
  <2> QED BY <2>1, <2>3, <2>4
<1> QED BY <1>4, <1>5

(* A step of a write: the store is d afterwards. *)
LEMMA StepKeeps ==
    ASSUME CfgInv, NEW at \in {"open", "write", "sync", "rename"},
           NEW next \in {"write", "sync", "rename", "settle"},
           NEW d \in CfgStoreTypes, CfgStep(at, next, d),
           CfgProgress(next, cfg.content, d),
           cfg.store = "config" => CfgWhole(d.target) /\ CfgWhole(d.durable)
    PROVE  CfgInv'
<1>1. /\ cfg.alive /\ cfg.at = at /\ cfg' = [cfg EXCEPT !.at = next]
      /\ cfgDisk' = [cfgDisk EXCEPT ![cfg.store] = d] /\ UNCHANGED <<cfgTold, cfgFaults>>
  BY DEF CfgStep
<1>2. /\ CfgWorkspaceType(cfg) /\ cfgDisk \in [CfgStores -> CfgStoreTypes] /\ cfg.store \in CfgStores
  BY DEF CfgInv, CfgTypes, CfgWorkspaceType
<1>3. /\ CfgWorkspaceType(cfg') /\ cfg'.alive = cfg.alive /\ cfg'.at = next /\ cfg'.store = cfg.store
      /\ cfg'.content = cfg.content /\ cfg'.draft = cfg.draft /\ cfg'.save = cfg.save
  BY <1>1, <1>2 DEF CfgWorkspaceType
<1>4. /\ cfgDisk' \in [CfgStores -> CfgStoreTypes] /\ cfgDisk'[cfg.store] = d
      /\ \A s \in CfgStores \ {cfg.store} : cfgDisk'[s] = cfgDisk[s]
  BY <1>1, <1>2
<1>5. CfgTypes'
  BY <1>1, <1>3, <1>4 DEF CfgInv, CfgTypes
<1>6. CfgWriting'
  BY <1>1, <1>3, <1>4 DEF CfgInv, CfgWriting
<1>7. cfg.store = "bundle" => cfgDisk'["config"] = cfgDisk["config"]
  BY <1>4 DEF CfgStores
<1>8. CfgClean'
  BY <1>1, <1>3, <1>7, LoadOf DEF CfgInv, CfgClean
<1>9. CfgReportedSurvives'
  BY <1>1, <1>4 DEF CfgInv, CfgWriting, CfgReportedSurvives
<1>10. CfgWhole(cfgDisk'["config"].target) /\ CfgWhole(cfgDisk'["config"].durable)
  BY <1>2, <1>4, <1>7 DEF CfgInv, CfgStores
<1> QED BY <1>5, <1>6, <1>8, <1>9, <1>10 DEF CfgInv

LEMMA WritingKeeps == CfgInv /\ (CfgOpen \/ CfgWrite \/ CfgSync \/ CfgRename) => CfgInv'
<1> SUFFICES ASSUME CfgInv, CfgOpen \/ CfgWrite \/ CfgSync \/ CfgRename PROVE CfgInv'
  OBVIOUS
<1> DEFINE d == cfgDisk[cfg.store]
<1>1. cfg.at # "ui"
  BY DEF CfgOpen, CfgWrite, CfgSync, CfgRename, CfgStep
<1>2. d \in CfgStoreTypes /\ cfg.content \in CfgValues /\ cfg.content # CfgNone
  BY <1>1 DEF CfgInv, CfgTypes, CfgWorkspaceType, CfgWriting
<1>3. cfg.store = "config" =>
         CfgWhole(d.target) /\ CfgWhole(d.durable) /\ cfg.content \in CfgMin..CfgMax
  BY <1>1 DEF CfgInv, CfgTypes, CfgWorkspaceType, CfgWriting
<1>4. CfgProgress(cfg.at, cfg.content, d)
  BY <1>1 DEF CfgInv, CfgWriting
<1>5. /\ CfgFile(CfgTorn, FALSE) \in CfgWritten
      /\ CfgFile(cfg.content, FALSE) \in CfgWritten /\ CfgFile(cfg.content, TRUE) \in CfgWritten
  BY <1>2 DEF CfgWritten, CfgFile, CfgValues
<1> HIDE DEF d
<1>6. CASE CfgOpen
  <2> DEFINE e == [d EXCEPT !.stage = CfgFile(CfgTorn, FALSE)]
  <2>1. CfgStep("open", "write", e)
    BY <1>6 DEF CfgOpen, d
  <2>2. /\ e \in CfgStoreTypes /\ e.target = d.target /\ e.durable = d.durable
        /\ CfgProgress("write", cfg.content, e)
    BY <1>2, <1>5 DEF CfgStoreTypes, CfgAnyFile, CfgProgress
  <2> HIDE DEF e
  <2> QED BY <1>3, <2>1, <2>2, StepKeeps
<1>7. CASE CfgWrite
  <2> DEFINE e == [d EXCEPT !.stage = CfgFile(cfg.content, FALSE)]
  <2>1. CfgStep("write", "sync", e)
    BY <1>7 DEF CfgWrite, d
  <2>2. /\ e \in CfgStoreTypes /\ e.target = d.target /\ e.durable = d.durable
        /\ CfgProgress("sync", cfg.content, e)
    BY <1>2, <1>5 DEF CfgStoreTypes, CfgAnyFile, CfgProgress
  <2> HIDE DEF e
  <2> QED BY <1>3, <2>1, <2>2, StepKeeps
<1>8. CASE CfgSync
  <2> DEFINE e == [d EXCEPT !.stage = CfgFile(@.v, TRUE)]
  <2>1. CfgStep("sync", "rename", e) /\ cfg.at = "sync"
    BY <1>8 DEF CfgSync, CfgStep, d
  <2>2. d.stage = CfgFile(cfg.content, FALSE)
    BY <1>4, <2>1 DEF CfgProgress
  <2>3. e = [d EXCEPT !.stage = CfgFile(cfg.content, TRUE)]
    BY <2>2 DEF CfgFile
  <2>4. /\ e \in CfgStoreTypes /\ e.target = d.target /\ e.durable = d.durable
        /\ CfgProgress("rename", cfg.content, e)
    BY <1>2, <1>5, <2>3 DEF CfgStoreTypes, CfgAnyFile, CfgProgress
  <2> HIDE DEF e
  <2> QED BY <1>3, <2>1, <2>4, StepKeeps
<1>9. CASE CfgRename
  <2> DEFINE e == [d EXCEPT !.target = d.stage, !.stage = CfgNone]
  <2>1. CfgStep("rename", "settle", e) /\ cfg.at = "rename"
    BY <1>9 DEF CfgRename, CfgStep, d
  <2>2. d.stage = CfgFile(cfg.content, TRUE)
    BY <1>4, <2>1 DEF CfgProgress
  <2>3. /\ e \in CfgStoreTypes /\ e.target = CfgFile(cfg.content, TRUE) /\ e.durable = d.durable
        /\ CfgProgress("settle", cfg.content, e)
    BY <1>2, <1>5, <2>2 DEF CfgStoreTypes, CfgAnyFile, CfgProgress
  <2>4. cfg.content \in CfgMin..CfgMax => CfgWhole(e.target)
    BY <2>3 DEF CfgWhole, CfgFile
  <2> HIDE DEF e
  <2> QED BY <1>3, <2>1, <2>3, <2>4, StepKeeps
<1> QED BY <1>6, <1>7, <1>8, <1>9

LEMMA SettleKeeps == CfgInv /\ CfgSettle => CfgInv'
<1> SUFFICES ASSUME CfgInv, CfgSettle PROVE CfgInv'
  OBVIOUS
<1> DEFINE s == cfg.store
           c == cfg.content
           d == [cfgDisk[s] EXCEPT !.durable = cfgDisk[s].target]
           save == IF s = "config" THEN "Saved" ELSE cfg.save
           original == IF s = "config" THEN cfg.draft.current ELSE cfg.draft.original
<1>1. /\ cfg.alive /\ cfg.at = "settle" /\ cfgFaults' = cfgFaults
      /\ cfgTold' = [cfgTold EXCEPT ![s] = c]
  BY DEF CfgSettle
<1>2. /\ CfgWorkspaceType(cfg) /\ cfgDisk \in [CfgStores -> CfgStoreTypes] /\ s \in CfgStores
      /\ cfgTold \in [CfgStores -> CfgValues \cup {CfgNone}] /\ cfgFaults \in Nat
      /\ c \in CfgValues \cup {CfgNone}
  BY DEF CfgInv, CfgTypes, CfgWorkspaceType
<1>3. /\ c # CfgNone /\ (s = "config" => c = cfg.draft.current)
      /\ cfgDisk[s].target = CfgFile(c, TRUE)
  BY <1>1 DEF CfgInv, CfgWriting, CfgProgress
<1>4. cfgDisk' = [cfgDisk EXCEPT ![s] = d]
  <2>1. cfgDisk' = [cfgDisk EXCEPT ![s].durable = cfgDisk[s].target]
    BY DEF CfgSettle
  <2> QED BY <1>2, <2>1
<1>5. /\ CfgWorkspaceType(cfg') /\ cfg'.at = "ui" /\ cfg'.save = save
      /\ cfg'.draft.current = cfg.draft.current
  <2> DEFINE r == [cfg.draft EXCEPT !.original = original]
  <2>1. cfg' = [cfg EXCEPT !.at = "ui", !.store = "config", !.content = CfgNone, !.save = save, !.draft = r]
    <3>1. /\ cfg' = [Returned(cfg) EXCEPT !.save = IF s = "config" THEN "Saved" ELSE @,
                        !.draft.original = IF s = "config" THEN cfg.draft.current ELSE @]
      BY DEF CfgSettle
    <3>2. /\ Returned(cfg).draft = cfg.draft /\ Returned(cfg).save = cfg.save
      BY <1>2 DEF Returned, CfgWorkspaceType
    <3> QED BY <1>2, <3>1, <3>2 DEF Returned
  <2>2. cfg.draft \in [original : CfgMin..CfgMax, current : CfgMin..CfgMax]
    BY <1>2 DEF CfgWorkspaceType
  <2>3. original \in CfgMin..CfgMax
    BY <2>2
  <2>4. r \in [original : CfgMin..CfgMax, current : CfgMin..CfgMax] /\ r.current = cfg.draft.current
    <3> HIDE DEF original
    <3> QED BY <2>2, <2>3
  <2>5. save \in {"Clean", "Dirty", "Saved", "Failed", "Unavailable", "Invalid"}
    BY <1>2 DEF CfgWorkspaceType
  <2> HIDE DEF r, save, original
  <2> QED BY <1>2, <2>1, <2>4, <2>5 DEF CfgWorkspaceType, CfgStores
<1>6. /\ d \in CfgStoreTypes /\ d.target = CfgFile(c, TRUE) /\ d.durable = CfgFile(c, TRUE)
  BY <1>2, <1>3 DEF CfgStoreTypes
<1> HIDE DEF d
<1>7. /\ cfgDisk' \in [CfgStores -> CfgStoreTypes] /\ cfgDisk'[s] = d
      /\ \A t \in CfgStores \ {s} : cfgDisk'[t] = cfgDisk[t]
  BY <1>2, <1>4, <1>6
<1>8. CfgTypes'
  <2>1. cfgTold' \in [CfgStores -> CfgValues \cup {CfgNone}]
    BY <1>1, <1>2
  <2> QED BY <1>1, <1>2, <1>5, <1>7, <2>1 DEF CfgTypes
<1>9. CfgReportedSurvives'
  <2>1. cfgTold'[s] = c /\ \A t \in CfgStores \ {s} : cfgTold'[t] = cfgTold[t]
    BY <1>1, <1>2
  <2> QED BY <1>6, <1>7, <2>1 DEF CfgInv, CfgReportedSurvives
<1>10. CfgWhole(cfgDisk'["config"].target) /\ CfgWhole(cfgDisk'["config"].durable)
  <2>1. CASE s = "config"
    <3>1. CfgFile(c, TRUE).v \in CfgMin..CfgMax /\ CfgFile(c, TRUE).flushed
      BY <1>2, <1>3, <2>1 DEF CfgFile, CfgWorkspaceType
    <3> QED BY <1>6, <1>7, <2>1, <3>1 DEF CfgWhole
  <2>2. CASE s = "bundle"
    BY <1>7, <2>2 DEF CfgInv, CfgStores
  <2> QED BY <1>2, <2>1, <2>2 DEF CfgStores
<1>11. CfgClean'
  <2>1. CASE s = "config"
    <3>1. LoadsConfig(cfgDisk') = c
      <4>1. CfgFile(c, TRUE) # CfgNone
        <5>1. CfgFile(c, TRUE) \in [v : CfgMin..CfgMax \cup CfgBundles \cup {CfgTorn}, flushed : BOOLEAN]
          BY <1>2, <1>3 DEF CfgFile, CfgValues
        <5> QED BY <5>1, CfgAssumption
      <4>2. cfgDisk'["config"].target = CfgFile(c, TRUE)
        BY <1>6, <1>7, <2>1
      <4> QED BY <4>1, <4>2 DEF LoadsConfig, Content, CfgFile
    <3>2. load_or_default(cfgDisk') = c
      BY <1>3, <3>1 DEF load_or_default
    <3> QED BY <1>3, <1>5, <2>1, <3>2 DEF CfgClean
  <2>2. CASE s = "bundle"
    <3>1. cfgDisk'["config"] = cfgDisk["config"]
      BY <1>7, <2>2 DEF CfgStores
    <3>2. load_or_default(cfgDisk') = load_or_default(cfgDisk)
      BY <3>1, LoadOf
    <3> QED BY <1>1, <1>5, <2>2, <3>2 DEF CfgInv, CfgClean
  <2> QED BY <1>2, <2>1, <2>2 DEF CfgStores
<1>12. CfgWriting'
  BY <1>5 DEF CfgWriting
<1> QED BY <1>8, <1>9, <1>10, <1>11, <1>12 DEF CfgInv

(* Only the stage of the configuration is given up; what is under the names  *)
(* and was reported stays.                                                   *)
LEMMA ForgetKeeps ==
    ASSUME CfgInv, cfgDisk' = Forget(cfgDisk)
    PROVE  /\ cfgDisk' \in [CfgStores -> CfgStoreTypes]
           /\ cfgDisk'["bundle"] = cfgDisk["bundle"]
           /\ \A s \in CfgStores : /\ cfgDisk'[s].target = cfgDisk[s].target
                                   /\ cfgDisk'[s].durable = cfgDisk[s].durable
<1>1. cfgDisk \in [CfgStores -> CfgStoreTypes] /\ CfgStores = {"config", "bundle"}
  BY DEF CfgInv, CfgTypes, CfgStores
<1> DEFINE d == [cfgDisk["config"] EXCEPT !.stage = CfgNone]
<1>2. cfgDisk' = [cfgDisk EXCEPT !["config"] = d]
  BY <1>1 DEF Forget
<1>3. /\ d \in CfgStoreTypes /\ d.target = cfgDisk["config"].target
      /\ d.durable = cfgDisk["config"].durable
  BY <1>1 DEF CfgStoreTypes, CfgAnyFile
<1> HIDE DEF d
<1> QED BY <1>1, <1>2, <1>3

LEMMA CallFailsKeeps == CfgInv /\ CfgCallFails => CfgInv'
<1> SUFFICES ASSUME CfgInv, CfgCallFails PROVE CfgInv'
  OBVIOUS
<1> DEFINE save == IF cfg.store = "config" THEN "Failed" ELSE cfg.save
<1>1. /\ cfg.alive /\ cfg.at # "ui" /\ cfgFaults' \in Nat /\ cfgTold' = cfgTold
      /\ cfgDisk' = Forget(cfgDisk) /\ CfgWorkspaceType(cfg)
  BY DEF CfgCallFails, CfgFault, CfgInv, CfgTypes, Forget
<1>2. /\ cfgDisk' \in [CfgStores -> CfgStoreTypes]
      /\ \A s \in CfgStores : /\ cfgDisk'[s].target = cfgDisk[s].target
                              /\ cfgDisk'[s].durable = cfgDisk[s].durable
  BY <1>1, ForgetKeeps
<1>3. /\ CfgWorkspaceType(cfg') /\ cfg'.at = "ui" /\ cfg'.save = save /\ cfg'.draft = cfg.draft
  <2>1. cfg' = [cfg EXCEPT !.at = "ui", !.store = "config", !.content = CfgNone, !.save = save]
    <3>1. cfg' = [Returned(cfg) EXCEPT !.save = IF cfg.store = "config" THEN "Failed" ELSE @]
      BY DEF CfgCallFails
    <3>2. Returned(cfg).save = cfg.save
      BY <1>1 DEF Returned, CfgWorkspaceType
    <3> QED BY <1>1, <3>1, <3>2 DEF Returned
  <2>2. save \in {"Clean", "Dirty", "Saved", "Failed", "Unavailable", "Invalid"}
    BY <1>1 DEF CfgWorkspaceType
  <2> HIDE DEF save
  <2> QED BY <1>1, <2>1, <2>2 DEF CfgWorkspaceType, CfgStores
<1>4. CfgTypes' /\ CfgWriting'
  BY <1>1, <1>2, <1>3 DEF CfgInv, CfgTypes, CfgWriting
<1>5. CfgReportedSurvives'
  BY <1>1, <1>2 DEF CfgInv, CfgReportedSurvives
<1>6. cfgDisk'["config"].target = cfgDisk["config"].target /\ cfgDisk'["config"].durable = cfgDisk["config"].durable
  BY <1>2 DEF CfgStores
<1>7. CfgClean'
  <2>1. load_or_default(cfgDisk') = load_or_default(cfgDisk)
    BY <1>6, LoadOf
  <2>2. cfg.store \in {"config", "bundle"}
    BY <1>1 DEF CfgWorkspaceType, CfgStores
  <2> QED BY <1>1, <1>3, <2>1, <2>2 DEF CfgInv, CfgClean
<1> QED BY <1>4, <1>5, <1>6, <1>7 DEF CfgInv

LEMMA DeadType ==
    /\ CfgWorkspaceType(CfgDead) /\ ~CfgDead.alive /\ CfgDead.at = "ui"
    /\ CfgWorkspaceType(CfgWorkspace(CfgDefault, FALSE))
    /\ CfgWorkspace(CfgDefault, FALSE).save = "Unavailable" /\ CfgWorkspace(CfgDefault, FALSE).at = "ui"
BY CfgAssumption DEF CfgDead, CfgWorkspace, CfgWorkspaceType, NewDraft, CfgStores

LEMMA KillKeeps == CfgInv /\ CfgKill => CfgInv'
<1> SUFFICES ASSUME CfgInv, CfgKill PROVE CfgInv'
  OBVIOUS
<1>1. cfg' = CfgDead /\ cfgDisk' = Forget(cfgDisk) /\ cfgTold' = cfgTold /\ cfgFaults' \in Nat
  BY DEF CfgKill, CfgFault, CfgInv, CfgTypes
<1>2. /\ cfgDisk' \in [CfgStores -> CfgStoreTypes]
      /\ \A s \in CfgStores : /\ cfgDisk'[s].target = cfgDisk[s].target
                              /\ cfgDisk'[s].durable = cfgDisk[s].durable
  BY <1>1, ForgetKeeps
<1>3. CfgWorkspaceType(cfg') /\ ~cfg'.alive /\ cfg'.at = "ui"
  BY <1>1, DeadType
<1>4. CfgTypes' /\ CfgWriting' /\ CfgClean'
  BY <1>1, <1>2, <1>3 DEF CfgInv, CfgTypes, CfgWriting, CfgClean
<1>5. CfgReportedSurvives'
  BY <1>1, <1>2 DEF CfgInv, CfgReportedSurvives
<1>6. cfgDisk'["config"].target = cfgDisk["config"].target /\ cfgDisk'["config"].durable = cfgDisk["config"].durable
  BY <1>2 DEF CfgStores
<1> QED BY <1>4, <1>5, <1>6 DEF CfgInv

(* A file that is flushed survives a power loss as it is; any other one has  *)
(* a type still.                                                             *)
LEMMA SurvivorType ==
    ASSUME NEW f \in CfgAnyFile, NEW g \in Survivors(f)
    PROVE  /\ g \in CfgAnyFile
           /\ CfgWhole(f) => CfgWhole(g)
           /\ \A v : f = CfgFile(v, TRUE) => g = f
<1>1. CASE f = CfgNone
  <2>1. g = CfgNone
    BY <1>1 DEF Survivors
  <2> QED BY <1>1, <2>1 DEF CfgAnyFile, CfgWhole
<1>2. CASE f # CfgNone
  <2>1. f \in CfgWritten
    BY <1>2 DEF CfgAnyFile
  <2>2. PICK v \in {f.v, CfgTorn} : g = CfgFile(v, TRUE) /\ (f.flushed => v = f.v)
    BY <1>2 DEF Survivors
  <2>3. g \in CfgWritten
    BY <2>1, <2>2 DEF CfgWritten, CfgFile, CfgValues
  <2>4. CfgWhole(f) => CfgWhole(g)
    BY <1>2, <2>2 DEF CfgWhole, CfgFile
  <2>5. \A u : f = CfgFile(u, TRUE) => g = f
    BY <2>2 DEF CfgFile
  <2> QED BY <2>3, <2>4, <2>5 DEF CfgAnyFile
<1> QED BY <1>1, <1>2

LEMMA PowerLossKeeps == CfgInv /\ CfgPowerLoss => CfgInv'
<1> SUFFICES ASSUME CfgInv, CfgPowerLoss PROVE CfgInv'
  OBVIOUS
<1> DEFINE old(s) == Survivors(cfgDisk[s].target) \cup Survivors(cfgDisk[s].durable)
<1>1. cfg' = CfgDead /\ cfgTold' = cfgTold /\ cfgFaults' \in Nat
  BY DEF CfgPowerLoss, CfgFault, CfgInv, CfgTypes
<1>2. PICK c \in old("config"), b \in old("bundle"), s \in Survivors(cfgDisk["bundle"].stage) \cup {CfgNone} :
        cfgDisk' = [config |-> [target |-> c, durable |-> c, stage |-> CfgNone],
                    bundle |-> [target |-> b, durable |-> b, stage |-> s]]
  BY DEF CfgPowerLoss
<1>3. /\ cfgDisk \in [CfgStores -> CfgStoreTypes] /\ CfgStores = {"config", "bundle"}
      /\ \A t \in CfgStores : {cfgDisk[t].target, cfgDisk[t].durable, cfgDisk[t].stage} \subseteq CfgAnyFile
  BY DEF CfgInv, CfgTypes, CfgStores, CfgStoreTypes
<1>4. c \in CfgAnyFile /\ b \in CfgAnyFile /\ s \in CfgAnyFile
  BY <1>2, <1>3, SurvivorType DEF CfgAnyFile
<1>5. CfgWhole(c)
  BY <1>3, SurvivorType DEF CfgInv
<1>6. /\ cfgTold["config"] # CfgNone => c = CfgFile(cfgTold["config"], TRUE)
      /\ cfgTold["bundle"] # CfgNone => b = CfgFile(cfgTold["bundle"], TRUE)
  BY <1>3, SurvivorType DEF CfgInv, CfgReportedSurvives
<1> HIDE DEF old
<1>7. /\ cfgDisk' \in [CfgStores -> CfgStoreTypes]
      /\ cfgDisk'["config"].target = c /\ cfgDisk'["config"].durable = c
      /\ cfgDisk'["bundle"].target = b /\ cfgDisk'["bundle"].durable = b
  <2> DEFINE x == [target |-> c, durable |-> c, stage |-> CfgNone]
             y == [target |-> b, durable |-> b, stage |-> s]
  <2>1. x \in CfgStoreTypes /\ y \in CfgStoreTypes
    BY <1>4 DEF CfgStoreTypes, CfgAnyFile
  <2>2. x.target = c /\ x.durable = c /\ y.target = b /\ y.durable = b
    OBVIOUS
  <2>3. cfgDisk' = [config |-> x, bundle |-> y]
    BY <1>2
  <2> HIDE DEF x, y
  <2>4. cfgDisk'["config"] = x /\ cfgDisk'["bundle"] = y /\ cfgDisk' \in [CfgStores -> CfgStoreTypes]
    BY <1>3, <2>1, <2>3
  <2> QED BY <2>2, <2>4
<1>8. CfgReportedSurvives'
  BY <1>1, <1>3, <1>6, <1>7 DEF CfgReportedSurvives
<1>9. CfgWorkspaceType(cfg') /\ ~cfg'.alive /\ cfg'.at = "ui"
  BY <1>1, DeadType
<1>10. CfgTypes' /\ CfgWriting' /\ CfgClean'
  BY <1>1, <1>7, <1>9 DEF CfgInv, CfgTypes, CfgWriting, CfgClean
<1> QED BY <1>5, <1>7, <1>8, <1>10 DEF CfgInv

LEMMA StartKeeps == CfgInv /\ CfgStart => CfgInv'
<1> SUFFICES ASSUME CfgInv, CfgStart PROVE CfgInv'
  OBVIOUS
<1> DEFINE b == cfgDisk["bundle"]
           n == load_or_default(cfgDisk)
           restored == [CfgWorkspace(n, TRUE) EXCEPT !.preflight = Loads(b)]
           done == [cfgDisk EXCEPT !["bundle"] = Recovered(@, TRUE)]
           torn == [cfgDisk EXCEPT !["bundle"] = Recovered(@, FALSE)]
           fallback == CfgWorkspace(CfgDefault, FALSE)
<1>1. /\ cfgDisk \in [CfgStores -> CfgStoreTypes] /\ cfgFaults \in Nat
      /\ {"config", "bundle"} \subseteq CfgStores
      /\ cfgTold \in [CfgStores -> CfgValues \cup {CfgNone}]
  BY DEF CfgInv, CfgTypes, CfgStores
<1>2. cfgTold' = cfgTold
  BY DEF CfgStart
<1>3. /\ cfg' = fallback \/ (cfg' = restored /\ CfgTorn \notin {n, Loads(b)})
      /\ \/ cfgDisk' = cfgDisk
         \/ NeedsRecovery(b) /\ cfgDisk' \in {done, torn}
      /\ cfgFaults' = cfgFaults \/ CfgFault
  BY DEF CfgStart
<1>4. /\ done \in [CfgStores -> CfgStoreTypes] \/ ~NeedsRecovery(b)
      /\ torn \in [CfgStores -> CfgStoreTypes] \/ ~NeedsRecovery(b)
      /\ done["config"] = cfgDisk["config"] /\ torn["config"] = cfgDisk["config"]
  BY <1>1, RecoveredStore
<1> HIDE DEF done, torn
<1>5. /\ cfgDisk' \in [CfgStores -> CfgStoreTypes] /\ cfgDisk'["config"] = cfgDisk["config"]
      /\ cfgDisk'["bundle"] = b \/ NeedsRecovery(b)
  BY <1>1, <1>3, <1>4
<1>6. n \in CfgMin..CfgMax
  BY CfgAssumption DEF CfgInv, CfgWhole, load_or_default, LoadsConfig, Content
<1>7. Loads(b) \in CfgValues \cup {CfgNone}
  BY <1>1 DEF Loads, Content, CfgStoreTypes, CfgAnyFile, CfgWritten
<1> HIDE DEF n
<1>8. /\ CfgWorkspaceType(restored) /\ restored.at = "ui" /\ restored.draft.current = n
  BY <1>6, <1>7 DEF CfgWorkspaceType, CfgWorkspace, NewDraft, CfgStores
<1> HIDE DEF restored, fallback
<1>9. CfgWorkspaceType(cfg') /\ cfg'.at = "ui" /\ (cfg'.save \in {"Clean", "Saved"} => cfg'.draft.current = n)
  BY <1>3, <1>8, DeadType DEF fallback
<1>10. cfgFaults' \in Nat
  BY <1>1, <1>3 DEF CfgFault
<1>11. CfgTypes' /\ CfgWriting'
  BY <1>1, <1>2, <1>5, <1>9, <1>10 DEF CfgTypes, CfgWriting
<1>12. CfgClean'
  BY <1>5, <1>9, LoadOf DEF CfgClean, n
<1>13. NeedsRecovery(b) => cfgTold["bundle"] = CfgNone
  <2> SUFFICES ASSUME NeedsRecovery(b), cfgTold["bundle"] # CfgNone PROVE FALSE
    OBVIOUS
  <2>1. CfgFile(cfgTold["bundle"], TRUE) \in [v : CfgMin..CfgMax \cup CfgBundles \cup {CfgTorn}, flushed : BOOLEAN]
    BY <1>1 DEF CfgFile, CfgValues
  <2>2. b.target = CfgFile(cfgTold["bundle"], TRUE)
    BY <1>1 DEF CfgInv, CfgReportedSurvives
  <2> QED BY <2>1, <2>2, CfgAssumption DEF NeedsRecovery
<1>14. CfgReportedSurvives'
  BY <1>2, <1>5, <1>13 DEF CfgInv, CfgReportedSurvives, CfgStores
<1> QED BY <1>5, <1>11, <1>12, <1>14 DEF CfgInv

LEMMA CfgInitInv == CfgInit => CfgInv
<1> SUFFICES ASSUME CfgInit PROVE CfgInv
  OBVIOUS
<1>1. CfgWorkspaceType(cfg) /\ cfg.at = "ui" /\ cfg.draft.current = CfgDefault
  BY CfgAssumption DEF CfgInit, CfgWorkspace, CfgWorkspaceType, NewDraft, CfgStores
<1>2. CfgTypes
  BY <1>1 DEF CfgInit, CfgTypes, CfgEmptyStore, CfgStoreTypes, CfgAnyFile
<1>3. CfgClean
  BY <1>1 DEF CfgInit, CfgClean, load_or_default, LoadsConfig, Content, CfgEmptyStore, CfgStores
<1>4. CfgReportedSurvives /\ CfgWriting
  BY <1>1 DEF CfgInit, CfgReportedSurvives, CfgWriting
<1>5. cfgDisk["config"].target = CfgNone /\ cfgDisk["config"].durable = CfgNone
  BY DEF CfgInit, CfgEmptyStore, CfgStores
<1> QED BY <1>2, <1>3, <1>4, <1>5 DEF CfgInv, CfgWhole

LEMMA CfgNextInv == CfgInv /\ [CfgNext]_cfgVars => CfgInv'
<1> SUFFICES ASSUME CfgInv, [CfgNext]_cfgVars PROVE CfgInv'
  OBVIOUS
<1>1. CASE CfgNext
  BY <1>1, KeysKeep, SaveKeeps, ApplyKeeps, WritingKeeps, SettleKeeps, CallFailsKeeps, KillKeeps,
     PowerLossKeeps, StartKeeps DEF CfgNext
<1>2. CASE UNCHANGED cfgVars
  <2>1. cfg' = cfg /\ cfgDisk' = cfgDisk /\ cfgTold' = cfgTold /\ cfgFaults' = cfgFaults
    BY <1>2 DEF cfgVars
  <2> QED BY <2>1 DEF CfgInv, CfgTypes, CfgWriting, CfgClean, CfgReportedSurvives
<1> QED BY <1>1, <1>2

(* What was reported as saved or applied survives every later kill and power *)
(* loss, no configuration is ever torn under its name, and a draft that      *)
(* counts as clean is what the next start loads (configuration.rs, save;     *)
(* ui.rs, the save states).                                                  *)
THEOREM ConfigSafe == CfgSpec => []CfgSafe
<1>1. CfgInv => CfgSafe
  <2> SUFFICES ASSUME CfgInv PROVE CfgSafe
    OBVIOUS
  <2>1. CfgNeverTorn
    BY CfgAssumption DEF CfgInv, CfgWhole, CfgNeverTorn, LoadsConfig, Content
  <2>2. CfgCleanIsSaved
    BY DEF CfgInv, CfgClean, CfgCleanIsSaved
  <2> QED BY <2>1, <2>2 DEF CfgInv, CfgSafe, CfgCrashSafe
<1> QED BY <1>1, CfgInitInv, CfgNextInv, PTL DEF CfgSpec

(* The bundle the next start restores is only ever replaced by the bundle    *)
(* being applied, short of a power loss.                                     *)
LEMMA BundleStep ==
    ASSUME CfgInv, [CfgNext]_cfgVars, ~CfgPowerLoss, Loads(cfgDisk["bundle"]) \in CfgBundles
    PROVE  Loads(cfgDisk'["bundle"]) \in {Loads(cfgDisk["bundle"]), cfg.content}
<1> DEFINE b == cfgDisk["bundle"]
<1>1. /\ cfgDisk \in [CfgStores -> CfgStoreTypes] /\ CfgStores = {"config", "bundle"}
      /\ CfgWorkspaceType(cfg) /\ cfg.store \in {"config", "bundle"}
  BY DEF CfgInv, CfgTypes, CfgStores, CfgWorkspaceType
<1>2. CASE cfgDisk'["bundle"] = b
  BY <1>2
<1>3. CASE NeedsRecovery(b) /\ \E settled \in BOOLEAN : cfgDisk'["bundle"] = Recovered(b, settled)
  BY <1>1, <1>3, RecoveredStore
<1>4. ASSUME NEW at, NEW next, NEW d, CfgStep(at, next, d), cfg.store = "config"
      PROVE  cfgDisk'["bundle"] = b
  BY <1>1, <1>4 DEF CfgStep
<1>5. ASSUME NEW at, NEW next, NEW d, CfgStep(at, next, d), cfg.store = "bundle"
      PROVE  cfgDisk'["bundle"] = d /\ cfg.at = at
  BY <1>1, <1>5 DEF CfgStep
<1>6. CASE CfgOpen
  <2>1. CASE cfg.store = "config"
    BY <1>2, <1>4, <1>6, <2>1 DEF CfgOpen
  <2>2. CASE cfg.store = "bundle"
    <3>1. cfgDisk'["bundle"] = [b EXCEPT !.stage = CfgFile(CfgTorn, FALSE)] /\ cfg.at = "open"
      BY <1>5, <1>6, <2>2 DEF CfgOpen
    <3>2. b.target # CfgNone
      <4>1. ~NeedsRecovery(b)
        BY <2>2, <3>1 DEF CfgInv, CfgWriting
      <4>2. b.target = CfgNone => b.stage = CfgNone
        BY <4>1 DEF NeedsRecovery
      <4> QED BY <4>2, CfgAssumption DEF Loads, Content
    <3>3. cfgDisk'["bundle"].target = b.target
      BY <1>1, <3>1 DEF CfgStoreTypes
    <3> QED BY <3>2, <3>3 DEF Loads
  <2> QED BY <1>1, <2>1, <2>2
<1>7. CASE CfgWrite \/ CfgSync
  <2>1. CASE cfg.store = "config"
    BY <1>2, <1>4, <1>7, <2>1 DEF CfgWrite, CfgSync
  <2>2. CASE cfg.store = "bundle"
    <3>1. PICK flag \in BOOLEAN : cfgDisk'["bundle"] = [b EXCEPT !.stage = CfgFile(cfg.content, flag)]
      <4>1. CASE CfgWrite
        BY <1>5, <2>2, <4>1 DEF CfgWrite
      <4>2. CASE CfgSync
        <5>1. cfgDisk'["bundle"] = [b EXCEPT !.stage = CfgFile(b.stage.v, TRUE)] /\ cfg.at = "sync"
          BY <1>5, <2>2, <4>2 DEF CfgSync
        <5>2. b.stage = CfgFile(cfg.content, FALSE)
          BY <2>2, <5>1 DEF CfgInv, CfgWriting, CfgProgress
        <5>3. b.stage.v = cfg.content
          BY <5>2 DEF CfgFile
        <5> QED BY <5>1, <5>3
      <4> QED BY <1>7, <4>1, <4>2
    <3>2. cfgDisk'["bundle"].target = b.target /\ cfgDisk'["bundle"].stage = CfgFile(cfg.content, flag)
      BY <1>1, <3>1 DEF CfgStoreTypes
    <3>3. CASE b.target # CfgNone
      BY <3>2, <3>3 DEF Loads
    <3>4. CASE b.target = CfgNone
      <4>1. cfg.content \in CfgValues
        BY <1>1, <1>7 DEF CfgInv, CfgWriting, CfgWorkspaceType, CfgWrite, CfgSync, CfgStep
      <4>2. CfgFile(cfg.content, flag) \in [v : CfgMin..CfgMax \cup CfgBundles \cup {CfgTorn}, flushed : BOOLEAN]
        BY <4>1 DEF CfgFile, CfgValues
      <4>3. CfgFile(cfg.content, flag) # CfgNone
        BY <4>2, CfgAssumption
      <4> QED BY <3>2, <3>4, <4>3 DEF Loads, Content, CfgFile
    <3> QED BY <3>3, <3>4
  <2> QED BY <1>1, <2>1, <2>2
<1>8. CASE CfgRename
  <2>1. CASE cfg.store = "config"
    BY <1>2, <1>4, <1>8, <2>1 DEF CfgRename
  <2>2. CASE cfg.store = "bundle"
    <3>1. cfgDisk'["bundle"] = [b EXCEPT !.target = b.stage, !.stage = CfgNone] /\ cfg.at = "rename"
      BY <1>5, <1>8, <2>2 DEF CfgRename
    <3>2. b.stage = CfgFile(cfg.content, TRUE) /\ cfg.content \in CfgValues
      BY <1>1, <2>2, <3>1 DEF CfgInv, CfgWriting, CfgProgress, CfgWorkspaceType
    <3>3. cfgDisk'["bundle"].target = CfgFile(cfg.content, TRUE)
      BY <1>1, <3>1, <3>2 DEF CfgStoreTypes
    <3>4. CfgFile(cfg.content, TRUE) # CfgNone
      <4>1. CfgFile(cfg.content, TRUE) \in [v : CfgMin..CfgMax \cup CfgBundles \cup {CfgTorn}, flushed : BOOLEAN]
        BY <3>2 DEF CfgFile, CfgValues
      <4> QED BY <4>1, CfgAssumption
    <3> QED BY <3>3, <3>4 DEF Loads, Content, CfgFile
  <2> QED BY <1>1, <2>1, <2>2
<1>9. CASE CfgSettle
  <2>1. cfgDisk' = [cfgDisk EXCEPT ![cfg.store].durable = cfgDisk[cfg.store].target]
    BY <1>9 DEF CfgSettle
  <2>2. cfgDisk'["bundle"].target = b.target /\ cfgDisk'["bundle"].stage = b.stage
    BY <1>1, <2>1 DEF CfgStoreTypes
  <2> QED BY <2>2 DEF Loads
<1>10. CASE CfgCallFails \/ CfgKill
  <2>1. cfgDisk' = Forget(cfgDisk)
    BY <1>10 DEF CfgCallFails, CfgKill, Forget
  <2> QED BY <1>2, <2>1, ForgetKeeps
<1>11. CASE CfgApply \/ CfgStart
  <2>1. \/ cfgDisk' = cfgDisk
        \/ NeedsRecovery(b) /\ cfgDisk' \in {[cfgDisk EXCEPT !["bundle"] = Recovered(@, TRUE)],
                                            [cfgDisk EXCEPT !["bundle"] = Recovered(@, FALSE)]}
    BY <1>11 DEF CfgApply, CfgStart, CfgCall
  <2> QED BY <1>1, <1>2, <1>3, <2>1
<1>12. CASE CfgSave
  <2>1. cfgDisk' = cfgDisk
    BY <1>12 DEF CfgSave, CfgCall
  <2> QED BY <1>2, <2>1
<1>13. CASE \/ CfgKeyEdit \/ CfgKeyChar \/ CfgKeyBackspace \/ CfgKeyEnter \/ CfgKeyEsc \/ CfgPrepare
            \/ UNCHANGED cfgVars
  BY <1>2, <1>13 DEF CfgKeyEdit, CfgKeyChar, CfgKeyBackspace, CfgKeyEnter, CfgKeyEsc, CfgPrepare, cfgVars
<1> QED BY <1>6, <1>7, <1>8, <1>9, <1>10, <1>11, <1>12, <1>13 DEF CfgNext

(* Failures and kills never cost the bundle the next start restores          *)
(* (configuration_materialization.rs: "persistence failures do not replace   *)
(* the previously active bundle").                                           *)
THEOREM BundleKept == CfgSpec => CfgBundleKept
<1>1. CfgInv /\ [CfgNext]_cfgVars =>
         [(~CfgPowerLoss /\ Loads(cfgDisk["bundle"]) \in CfgBundles) =>
             Loads(cfgDisk'["bundle"]) \in {Loads(cfgDisk["bundle"]), cfg.content}]_cfgVars
  BY BundleStep
<1> QED BY <1>1, CfgInitInv, CfgNextInv, PTL DEF CfgSpec, CfgBundleKept

-----------------------------------------------------------------------------
(* The state of a launch, for any event stream.                              *)

(* Every accepted event is at or below the revision that is known. *)
KnownRevisions == \A e \in heard : launch.last # None /\ e.revision <= launch.last

Inv == TypeOK /\ ShownAsReported /\ OneRunShown /\ ProgressBounded /\ KnownRevisions

(* state_for_public maps every public state to a state of the screen that     *)
(* only an event can bring about.                                             *)
LEMMA PublicStates ==
    \A s \in PublicRunStates :
        state_for_public[s] \in {"Launching", "Running", "Completed", "Failed", "Cancelled", "Unavailable"}
BY DEF PublicRunStates, state_for_public

(* A summary of the projection becomes a well-formed event of the bound       *)
(* generation.                                                                *)
LEMMA SummaryIsEvent ==
    ASSUME NEW l \in LaunchStates, NEW e \in LiveRunEvent, NEW s, NEW n \in Nat,
           s = [revision |-> e.revision, run |-> e.run, attempt |-> e.attempt, state |-> e.state]
    PROVE  SummaryEvent(l, s, n) \in LiveRunEvent
BY DEF SummaryEvent, LiveRunEvent, LaunchStates, Provenances

(* What a step may never do, for one step. *)
Kept ==
    /\ is_terminal(launch) => launch'.state = launch.state
    /\ launch.last # None => launch'.last # None /\ launch'.last >= launch.last
    /\ launch.run # None => launch'.run = launch.run
    /\ launch.statistics # None => launch'.statistics # None

(* The requests of the operator and the runtime, which hear no event, keep    *)
(* the invariant and forget nothing.                                          *)
LEMMA RequestSteps ==
    ASSUME Inv, UNCHANGED heard,
           \/ BeginLaunch \/ RequestCancel \/ MarkFailed \/ ReconnectStarted \/ Disconnected
           \/ \E r \in Revision \cup {None} : ReconnectComplete(r)
    PROVE  Inv' /\ Kept
<1> USE LaunchStateAssumption, LaunchMachineAssumption, PublicStates
<1>1. CASE BeginLaunch
  BY <1>1 DEF Inv, BeginLaunch, begin_launch, CanBeginLaunch, Kept, TypeOK, LaunchStates,
     ShownAsReported, OneRunShown, ProgressBounded, KnownRevisions, is_terminal, Terminal,
     RunStates, LiveStatistics
<1>2. CASE RequestCancel
  BY <1>2 DEF Inv, RequestCancel, request_cancel, Kept, TypeOK, LaunchStates,
     ShownAsReported, OneRunShown, ProgressBounded, KnownRevisions, is_terminal, Terminal,
     RunStates, LiveStatistics
<1>3. CASE MarkFailed
  BY <1>3 DEF Inv, MarkFailed, mark_failed, Kept, TypeOK, LaunchStates,
     ShownAsReported, OneRunShown, ProgressBounded, KnownRevisions, is_terminal, Terminal,
     RunStates, LiveStatistics
<1>4. CASE ReconnectStarted
  BY <1>4 DEF Inv, ReconnectStarted, reconnect_started, Kept, TypeOK, LaunchStates,
     ShownAsReported, OneRunShown, ProgressBounded, KnownRevisions, is_terminal, Terminal
<1>5. CASE Disconnected
  BY <1>5 DEF Inv, Disconnected, disconnected, Kept, TypeOK, LaunchStates,
     ShownAsReported, OneRunShown, ProgressBounded, KnownRevisions, is_terminal, Terminal
<1>6. ASSUME NEW r \in Revision \cup {None}, ReconnectComplete(r)
      PROVE  Inv' /\ Kept
  <2>1. /\ launch' \in LaunchStates
        /\ launch'.state = launch.state /\ launch'.statistics = launch.statistics
        /\ launch'.run = launch.run /\ launch'.attempt = launch.attempt
        /\ launch.last # None => launch'.last # None /\ launch'.last >= launch.last
    <3> DEFINE latest == IF r # None /\ (launch.last = None \/ r > launch.last) THEN r ELSE launch.last
    <3>1. launch' = [launch EXCEPT !.connection = "Connected", !.last = latest]
      BY <1>6 DEF ReconnectComplete, reconnect_complete
    <3>2. launch.last \in Nat \cup {None} /\ r \in Nat \cup {None}
      BY DEF Inv, TypeOK, LaunchStates
    <3>3. latest \in Nat \cup {None} /\ (launch.last # None => latest # None /\ latest >= launch.last)
      BY <3>2
    <3> HIDE DEF latest
    <3> QED BY <3>1, <3>3 DEF Inv, TypeOK, LaunchStates
  <2>2. KnownRevisions'
    BY <2>1 DEF Inv, KnownRevisions, TypeOK, LaunchStates, LiveRunEvent
  <2> QED
    BY <2>1, <2>2 DEF Inv, Kept, TypeOK, ShownAsReported, OneRunShown, ProgressBounded,
       KnownRevisions, is_terminal
<1> QED BY <1>1, <1>2, <1>3, <1>4, <1>5, <1>6

(* An event keeps the invariant and makes nothing forgotten, whichever of its *)
(* checks it fails.                                                           *)
LEMMA EventStep ==
    ASSUME Inv, NEW e \in LiveRunEvent, ApplyEvent(e)
    PROVE  Inv' /\ Kept
<1> USE LaunchStateAssumption
<1>1. CASE Outdated(launch, e) \/ WrongRun(launch, e)
  <2>1. launch' = launch /\ heard' = heard
    BY <1>1 DEF ApplyEvent, apply_event, Accepts
  <2> QED BY <2>1 DEF Inv, Kept, TypeOK, LaunchStates, ShownAsReported, OneRunShown,
             ProgressBounded, KnownRevisions
<1>2. CASE ~Outdated(launch, e) /\ ~WrongRun(launch, e) /\ WrongAttempt(launch, e)
  <2>1. launch' = BindRun(launch, e) /\ heard' = heard
    BY <1>2 DEF ApplyEvent, apply_event, Accepts
  <2> QED BY <1>2, <2>1 DEF Inv, BindRun, WrongRun, Kept, TypeOK, LaunchStates, LiveRunEvent,
             LiveStatistics, ShownAsReported, OneRunShown, ProgressBounded, KnownRevisions, is_terminal
<1>3. CASE ~Outdated(launch, e) /\ ~WrongRun(launch, e) /\ ~WrongAttempt(launch, e) /\ ~Plausible(e)
  <2>1. launch' = BindAttempt(launch, e) /\ heard' = heard
    BY <1>3 DEF ApplyEvent, apply_event, Accepts
  <2>2. /\ launch' \in LaunchStates
        /\ launch'.state = launch.state /\ launch'.statistics = launch.statistics
        /\ launch'.last = launch.last
        /\ launch'.run = e.run /\ launch'.attempt = e.attempt
    BY <2>1 DEF Inv, BindAttempt, TypeOK, LaunchStates, LiveRunEvent
  <2>3. OneRunShown'
    BY <1>3, <2>1, <2>2 DEF Inv, OneRunShown, WrongRun, WrongAttempt, TypeOK, LaunchStates,
       LiveRunEvent, LiveStatistics
  <2>4. Kept
    BY <1>3, <2>2 DEF Inv, Kept, WrongRun, is_terminal, TypeOK, LaunchStates
  <2> QED
    BY <2>1, <2>2, <2>3, <2>4 DEF Inv, TypeOK, ShownAsReported, ProgressBounded, KnownRevisions
<1>4. CASE Accepts(launch, e)
  <2>1. /\ launch' = [BindAttempt(launch, e) EXCEPT !.last = e.revision,
                                                    !.state = state_for_public[e.state],
                                                    !.statistics = StatisticsOf(e)]
        /\ heard' = heard \cup {e}
    BY <1>4 DEF ApplyEvent, apply_event, Accepts
  <2>2. /\ launch'.run = e.run /\ launch'.attempt = e.attempt /\ launch'.last = e.revision
        /\ launch'.state = state_for_public[e.state] /\ launch'.statistics = StatisticsOf(e)
        /\ launch' \in LaunchStates
    BY <2>1, PublicStates DEF Inv, TypeOK, BindAttempt, LaunchStates, LiveRunEvent, StatisticsOf,
       LiveStatistics, RunStates
  <2>3. TypeOK' BY <2>1, <2>2 DEF Inv, TypeOK
  <2>4. ShownAsReported' BY <2>2 DEF ShownAsReported, StatisticsOf
  <2>5. OneRunShown'
    BY <1>4, <2>1, <2>2 DEF Inv, OneRunShown, StatisticsOf, Accepts, WrongRun, WrongAttempt,
       TypeOK, LiveRunEvent
  <2>6. ProgressBounded'
    BY <1>4, <2>2 DEF ProgressBounded, StatisticsOf, Accepts, Plausible
  <2>7. KnownRevisions'
    BY <1>4, <2>1, <2>2 DEF Inv, KnownRevisions, Accepts, Outdated, TypeOK, LaunchStates, LiveRunEvent
  <2>8. launch'.statistics # None
    BY <2>2 DEF StatisticsOf, LiveStatistics, LiveRunEvent
  <2>9. Kept
    BY <1>4, <2>2, <2>8 DEF Inv, Kept, Accepts, Outdated, WrongRun, is_terminal, TypeOK, LaunchStates,
       LiveRunEvent
  <2> QED BY <2>3, <2>4, <2>5, <2>6, <2>7, <2>9 DEF Inv
<1> QED BY <1>1, <1>2, <1>3, <1>4 DEF Accepts

(* Every step keeps the invariant and forgets nothing. *)
LEMMA NextStep ==
    ASSUME Inv, [Next]_vars
    PROVE  Inv' /\ (Kept \/ UNCHANGED vars)
<1>1. CASE UNCHANGED vars
  BY <1>1 DEF vars, Inv, TypeOK, ShownAsReported, OneRunShown, ProgressBounded, KnownRevisions
<1>2. ASSUME NEW e \in Event, ApplyEvent(e) PROVE Inv' /\ Kept
  BY <1>2, EventStep, LaunchMachineAssumption
<1>3. ASSUME NEW e \in Event, ObserveSummary(e, e.total) PROVE Inv' /\ Kept
  <2> DEFINE s == [revision |-> e.revision, run |-> e.run, attempt |-> e.attempt, state |-> e.state]
  <2>1. e \in LiveRunEvent /\ e.total \in Nat BY LaunchMachineAssumption DEF LiveRunEvent
  <2>2. SummaryEvent(launch, s, e.total) \in LiveRunEvent
    BY <2>1, SummaryIsEvent DEF Inv, TypeOK
  <2>3. ApplyEvent(SummaryEvent(launch, s, e.total)) BY <1>3 DEF ObserveSummary
  <2> QED BY <2>2, <2>3, EventStep
<1>4. CASE \/ BeginLaunch \/ RequestCancel \/ MarkFailed \/ ReconnectStarted \/ Disconnected
           \/ \E r \in Revision \cup {None} : ReconnectComplete(r)
  <2>1. UNCHANGED heard
    BY <1>4 DEF BeginLaunch, RequestCancel, MarkFailed, ReconnectStarted, Disconnected, ReconnectComplete
  <2> QED BY <1>4, <2>1, RequestSteps
<1> QED BY <1>1, <1>2, <1>3, <1>4 DEF Next

(* The invariant holds in every state. *)
LEMMA InvHolds == Spec => []Inv
<1>1. Init => Inv
  BY LaunchStateAssumption, LaunchMachineAssumption
     DEF Init, Inv, TypeOK, NewLaunch, LaunchStates, RunStates, ShownAsReported, OneRunShown,
         ProgressBounded, KnownRevisions
<1>2. Inv /\ [Next]_vars => Inv' BY NextStep
<1> QED BY <1>1, <1>2, PTL DEF Spec

(* LaunchState keeps its type under any stream of events. *)
THEOREM LaunchTypeCorrect == Spec => []TypeOK
<1>1. Inv => TypeOK BY DEF Inv
<1> QED BY <1>1, InvHolds, PTL

(* The screen shows what the runner last reported, and shows an ended run as  *)
(* it ended, for any stream of events and requests.                           *)
THEOREM LaunchShownAsReported == Spec => []ShownAsReported
<1>1. Inv => ShownAsReported BY DEF Inv
<1> QED BY <1>1, InvHolds, PTL

(* One launch shows one run. *)
THEOREM LaunchShowsOneRun == Spec => []OneRunShown
<1>1. Inv => OneRunShown BY DEF Inv
<1> QED BY <1>1, InvHolds, PTL

(* The progress shown is bounded by the number of measures. *)
THEOREM LaunchProgressBounded == Spec => []ProgressBounded
<1>1. Inv => ProgressBounded BY DEF Inv
<1> QED BY <1>1, InvHolds, PTL

(* No event is accepted twice. *)
THEOREM LaunchHearsOnce == Spec => []NoEventTwice
<1>1. Inv => NoEventTwice
  BY DEF Inv, NoEventTwice, KnownRevisions, Accepts, Outdated
<1> QED BY <1>1, InvHolds, PTL

(* A launch shows its own run as reported, for any stream of events. *)
THEOREM LaunchFollowsRunner == Spec => []LaunchAsReported
<1>1. ShownAsReported /\ OneRunShown /\ ProgressBounded /\ NoEventTwice => LaunchAsReported
  BY DEF LaunchAsReported
<1> QED BY <1>1, LaunchShownAsReported, LaunchShowsOneRun, LaunchProgressBounded, LaunchHearsOnce, PTL

(* No step forgets how a run ended, its revision, its identity or its          *)
(* statistics.                                                                *)
THEOREM LaunchForgetsNothing == Spec => NothingIsForgotten
<1>1. Inv /\ [Next]_vars =>
        [/\ is_terminal(launch) => launch'.state = launch.state
         /\ launch.last # None => launch'.last # None /\ launch'.last >= launch.last
         /\ launch.run # None => launch'.run = launch.run
         /\ launch.statistics # None => launch'.statistics # None]_vars
  BY NextStep DEF Kept
<1> QED BY <1>1, InvHolds, PTL DEF Spec, NothingIsForgotten

-----------------------------------------------------------------------------
(* The types of the editor.  The text of a number is a recursive function:   *)
(* that there is one that satisfies its equation, and that what it gives are *)
(* digits, are inductions, each by a least counterexample.                   *)

(* A set of numbers has a least one. *)
LEMMA LeastNat ==
    ASSUME NEW T \in SUBSET Nat, T # {} PROVE \E x \in T : \A y \in T : x <= y
<1> DEFINE R == OpToRel(<, Nat)
<1>1. IsWellFoundedOn(R, Nat)
  BY NatLessThanWellFounded
<1> HIDE DEF R
<1>2. PICK x \in T : \A y \in T : ~(<<y, x>> \in R)
  BY <1>1, WFMin
<1>3. \A y \in T : ~(y < x)
  BY <1>2 DEF R, OpToRel
<1> QED BY <1>3

LEMMA CfgHalf == ASSUME NEW n \in Nat PROVE n \div 2 \in Nat /\ n % 2 \in 0..1 /\ n \div 2 <= n /\ (n >= 2 => n \div 2 < n)
OBVIOUS

CfgDigits(g, i) == IF i < 2 THEN <<i>> ELSE Append(g[i \div 2], i % 2)
CfgTextUpTo(g, n) == DOMAIN g = 0..n /\ \A i \in 0..n : g[i] = CfgDigits(g, i)

LEMMA CfgTextsExist == \A n \in Nat : \E g : CfgTextUpTo(g, n)
<1> DEFINE Missing == {n \in Nat : \A g : ~CfgTextUpTo(g, n)}
<1> SUFFICES ASSUME Missing # {} PROVE FALSE
  OBVIOUS
<1>1. PICK n \in Missing : \A y \in Missing : n <= y
  BY LeastNat
<1>2. n # 0
  <2>1. CfgTextUpTo([i \in 0..0 |-> <<i>>], 0)
    BY DEF CfgTextUpTo, CfgDigits
  <2> QED BY <1>1, <2>1
<1>3. n \in Nat /\ n - 1 \in Nat /\ n - 1 \notin Missing
  <2>1. n \in Nat
    BY <1>1
  <2> HIDE DEF Missing
  <2> QED BY <1>1, <1>2, <2>1
<1>4. PICK g : CfgTextUpTo(g, n - 1)
  BY <1>3
<1> DEFINE h == [i \in 0..n |-> IF i = n THEN CfgDigits(g, n) ELSE g[i]]
<1>5. ASSUME NEW i \in 0..n PROVE h[i] = CfgDigits(h, i)
  <2>1. i \in Nat /\ i \div 2 \in Nat /\ (i >= 2 => i \div 2 < i)
    BY <1>3, CfgHalf
  <2>2. i >= 2 => h[i \div 2] = g[i \div 2]
    BY <1>3, <2>1
  <2>3. CfgDigits(h, i) = CfgDigits(g, i)
    BY <2>1, <2>2 DEF CfgDigits
  <2>4. CASE i = n
    BY <2>3, <2>4
  <2>5. CASE i # n
    <3>1. i \in 0..(n - 1)
      BY <1>3, <2>5
    <3> QED BY <1>4, <2>3, <2>5, <3>1 DEF CfgTextUpTo
  <2> QED BY <2>4, <2>5
<1>6. DOMAIN h = 0..n
  OBVIOUS
<1> HIDE DEF h
<1>7. CfgTextUpTo(h, n)
  BY <1>5, <1>6 DEF CfgTextUpTo
<1> QED BY <1>1, <1>7

LEMMA CfgTextsAgree ==
    ASSUME NEW n \in Nat, NEW m \in Nat, NEW g, NEW h, CfgTextUpTo(g, n), CfgTextUpTo(h, m),
           NEW i \in Nat, i <= n, i <= m
    PROVE  g[i] = h[i]
<1> DEFINE Apart == {j \in Nat : j <= n /\ j <= m /\ g[j] # h[j]}
<1> SUFFICES ASSUME Apart # {} PROVE FALSE
  OBVIOUS
<1>1. PICK j \in Apart : \A y \in Apart : j <= y
  BY LeastNat
<1>2. j \in Nat /\ j <= n /\ j <= m /\ g[j] # h[j]
  BY <1>1
<1>3. j \div 2 \in Nat /\ (j >= 2 => j \div 2 < j)
  BY <1>2, CfgHalf
<1>4. j >= 2 => g[j \div 2] = h[j \div 2]
  BY <1>1, <1>2, <1>3
<1>5. CfgDigits(g, j) = CfgDigits(h, j)
  BY <1>2, <1>4 DEF CfgDigits
<1>6. g[j] = CfgDigits(g, j) /\ h[j] = CfgDigits(h, j)
  BY <1>2 DEF CfgTextUpTo
<1> QED BY <1>2, <1>5, <1>6

LEMMA CfgTextEquation == \A n \in Nat : CfgText[n] = CfgDigits(CfgText, n)
<1> DEFINE at == [n \in Nat |-> CHOOSE g : CfgTextUpTo(g, n)]
           h == [n \in Nat |-> at[n][n]]
<1>1. \A n \in Nat : CfgTextUpTo(at[n], n)
  BY CfgTextsExist
<1> HIDE DEF at
<1>2. ASSUME NEW n \in Nat PROVE h[n] = CfgDigits(h, n)
  <2>1. n \div 2 \in Nat /\ n \div 2 <= n
    BY CfgHalf
  <2>2. at[n][n \div 2] = at[n \div 2][n \div 2]
    BY <1>1, <2>1, CfgTextsAgree
  <2>3. at[n][n] = CfgDigits(at[n], n)
    BY <1>1 DEF CfgTextUpTo
  <2>4. h[n] = at[n][n] /\ h[n \div 2] = at[n \div 2][n \div 2]
    BY <2>1
  <2> HIDE DEF h
  <2> QED BY <2>2, <2>3, <2>4 DEF CfgDigits
<1>3. h = [n \in Nat |-> IF n < 2 THEN <<n>> ELSE Append(h[n \div 2], n % 2)]
  <2>1. h = [n \in Nat |-> h[n]]
    OBVIOUS
  <2> HIDE DEF h
  <2> QED BY <1>2, <2>1 DEF CfgDigits
<1> HIDE DEF h
<1>4. CfgText = [n \in Nat |-> IF n < 2 THEN <<n>> ELSE Append(CfgText[n \div 2], n % 2)]
  BY <1>3, Zenon DEF CfgText
<1> HIDE DEF CfgText
<1> QED BY <1>4 DEF CfgDigits

LEMMA CfgTextType == \A n \in Nat : CfgText[n] \in Seq(0..1)
<1> HIDE DEF CfgText
<1> DEFINE Bad == {n \in Nat : CfgText[n] \notin Seq(0..1)}
<1> SUFFICES ASSUME Bad # {} PROVE FALSE
  OBVIOUS
<1>1. PICK n \in Bad : \A y \in Bad : n <= y
  BY LeastNat
<1>2. n \in Nat /\ CfgText[n] \notin Seq(0..1)
  BY <1>1
<1>5. CfgText[n] = CfgDigits(CfgText, n)
  BY <1>2, CfgTextEquation
<1>3. CASE n < 2
  <2>1. CfgText[n] = <<n>> /\ n \in 0..1
    BY <1>2, <1>3, <1>5 DEF CfgDigits
  <2> QED BY <1>2, <2>1
<1>4. CASE n >= 2
  <2>1. n \div 2 \in Nat /\ n \div 2 < n /\ n % 2 \in 0..1
    BY <1>2, <1>4, CfgHalf
  <2>2. CfgText[n \div 2] \in Seq(0..1)
    BY <1>1, <1>2, <2>1
  <2>3. CfgText[n] = Append(CfgText[n \div 2], n % 2)
    BY <1>2, <1>4, <1>5 DEF CfgDigits
  <2> QED BY <1>2, <2>1, <2>2, <2>3
<1> QED BY <1>2, <1>3, <1>4

(* Texts that fit; and a bundle that is durable is there. *)
CfgFits(t) == t \in Seq(0..2) /\ Len(t) <= CfgTextMax
CfgThere == cfgDisk["bundle"].durable # CfgNone => cfgDisk["bundle"].target # CfgNone

LEMMA CfgFirstText ==
    /\ CfgFits(<<>>)
    /\ \A n \in CfgMin..CfgMax : CfgFits(CfgText[n])
<1>1. \A t \in Seq(0..1) : t \in Seq(0..2)
  OBVIOUS
<1>2. CfgMin..CfgMax \subseteq Nat
  BY CfgAssumption
<1> QED BY <1>1, <1>2, CfgTextAssumption, CfgTextType DEF CfgFits

LEMMA CfgApplyText ==
    ASSUME NEW w, CfgWorkspaceType(w)
    PROVE  apply_configuration_edit_buffer(w).text = w.text
BY DEF apply_configuration_edit_buffer, CfgWorkspaceType

LEMMA CfgCommitText ==
    ASSUME NEW w, CfgWorkspaceType(w)
    PROVE  commit_configuration_edit(w).text \in {w.text, <<>>}
<1> DEFINE a == apply_configuration_edit_buffer(w)
           b == commit_configuration_edit(w)
<1>1. a.text = w.text /\ CfgWorkspaceType(a)
  BY CfgApplyText, ApplyEdits DEF Edited
<1>2. b = a \/ b = [a EXCEPT !.editing = FALSE, !.focused = FALSE, !.text = <<>>]
  BY DEF commit_configuration_edit
<1> HIDE DEF a, b
<1>3. b.text \in {w.text, <<>>}
  BY <1>1, <1>2 DEF CfgWorkspaceType
<1> QED BY <1>3 DEF b

LEMMA CfgTextStep == CfgInv /\ CfgFits(cfg.text) /\ [CfgNext]_cfgVars => CfgFits(cfg'.text)
<1> SUFFICES ASSUME CfgInv, CfgFits(cfg.text), [CfgNext]_cfgVars PROVE CfgFits(cfg'.text)
  OBVIOUS
<1>1. CfgWorkspaceType(cfg)
  BY DEF CfgInv, CfgTypes
<1>2. CASE cfg'.text \in {cfg.text, <<>>}
  BY <1>2, CfgFirstText
<1>3. CASE CfgKeyEdit
  <2>1. cfg'.text = CfgText[cfg.draft.current] /\ cfg.draft.current \in CfgMin..CfgMax
    BY <1>1, <1>3 DEF CfgKeyEdit, CfgWorkspaceType
  <2> QED BY <2>1, CfgFirstText
<1>4. ASSUME NEW t, cfg' = apply_configuration_edit_buffer([cfg EXCEPT !.text = t]) PROVE cfg'.text = t
  <2> DEFINE w == [cfg EXCEPT !.text = t]
  <2>1. CfgWorkspaceType(w) /\ w.text = t
    BY <1>1 DEF CfgWorkspaceType
  <2> HIDE DEF w
  <2>2. apply_configuration_edit_buffer(w).text = w.text
    BY <2>1, CfgApplyText
  <2> QED BY <1>4, <2>1, <2>2 DEF w
<1>5. CASE CfgKeyChar
  <2>1. PICK c \in 0..2 : cfg' = apply_configuration_edit_buffer([cfg EXCEPT !.text = Append(cfg.text, c)])
    BY <1>5 DEF CfgKeyChar
  <2>2. cfg'.text = Append(cfg.text, c) /\ Len(cfg.text) < CfgTextMax
    BY <1>4, <1>5, <2>1 DEF CfgKeyChar
  <2>3. ASSUME NEW t \in Seq(0..2), Len(t) < CfgTextMax PROVE CfgFits(Append(t, c))
    BY <2>3, CfgTextAssumption DEF CfgFits
  <2> QED BY <2>2, <2>3 DEF CfgFits
<1>6. CASE CfgKeyBackspace
  <2> DEFINE t == IF cfg.text = <<>> THEN cfg.text ELSE SubSeq(cfg.text, 1, Len(cfg.text) - 1)
  <2>1. cfg' = apply_configuration_edit_buffer([cfg EXCEPT !.text = t])
    BY <1>6 DEF CfgKeyBackspace
  <2>2. CfgFits(t)
    <3>1. ASSUME NEW u \in Seq(0..2), u # <<>>, Len(u) <= CfgTextMax PROVE CfgFits(SubSeq(u, 1, Len(u) - 1))
      BY <3>1, CfgTextAssumption DEF CfgFits
    <3> QED BY <3>1 DEF CfgFits
  <2> HIDE DEF t
  <2> QED BY <1>4, <2>1, <2>2
<1>7. CASE CfgKeyEnter
  BY <1>1, <1>2, <1>7, CfgCommitText DEF CfgKeyEnter
<1>8. CASE CfgKeyEsc
  BY <1>1, <1>2, <1>8 DEF CfgKeyEsc, CfgWorkspaceType
<1>9. CASE CfgPrepare
  <2>1. PICK b : cfg' = [cfg EXCEPT !.preflight = b]
    BY <1>9 DEF CfgPrepare
  <2> QED BY <1>1, <1>2, <2>1 DEF CfgWorkspaceType
<1>10. CASE CfgSave
  <2> DEFINE w == IF cfg.editing THEN commit_configuration_edit(cfg) ELSE cfg
  <2>1. CfgWorkspaceType(w) /\ w.text \in {cfg.text, <<>>}
    BY <1>1, CfgCommitText, CommitEdits DEF Edited
  <2>2. \/ cfg' = w \/ cfg' = [w EXCEPT !.save = "Unavailable"]
        \/ CfgCall(w, "config", w.draft.current, cfgDisk)
    BY <1>10 DEF CfgSave
  <2> HIDE DEF w
  <2>3. cfg'.text = w.text
    BY <2>1, <2>2 DEF CfgCall, CfgWorkspaceType
  <2> QED BY <1>2, <2>1, <2>3
<1>11. CASE CfgApply
  <2>1. cfg' = cfg \/ \E d : CfgCall(cfg, "bundle", cfg.preflight, d)
    BY <1>11 DEF CfgApply
  <2>2. cfg'.text = cfg.text
    BY <1>1, <2>1 DEF CfgCall, CfgWorkspaceType
  <2> QED BY <1>2, <2>2
<1>12. CASE CfgOpen \/ CfgWrite \/ CfgSync \/ CfgRename
  <2>1. PICK at : cfg' = [cfg EXCEPT !.at = at]
    BY <1>12 DEF CfgOpen, CfgWrite, CfgSync, CfgRename, CfgStep
  <2> QED BY <1>1, <1>2, <2>1 DEF CfgWorkspaceType
<1>13. CASE CfgSettle \/ CfgCallFails
  <2>1. cfg'.text = cfg.text
    BY <1>1, <1>13 DEF CfgSettle, CfgCallFails, Returned, CfgWorkspaceType
  <2> QED BY <1>2, <2>1
<1>14. CASE CfgKill \/ CfgPowerLoss
  BY <1>2, <1>14 DEF CfgKill, CfgPowerLoss, CfgDead, CfgWorkspace
<1>15. CASE CfgStart
  <2> DEFINE n == load_or_default(cfgDisk)
             b == Loads(cfgDisk["bundle"])
  <2>1. cfg' = CfgWorkspace(CfgDefault, FALSE) \/ cfg' = [CfgWorkspace(n, TRUE) EXCEPT !.preflight = b]
    BY <1>15 DEF CfgStart
  <2> HIDE DEF n, b
  <2>2. cfg'.text = <<>>
    BY <2>1 DEF CfgWorkspace
  <2> QED BY <1>2, <2>2
<1>16. CASE UNCHANGED cfgVars
  BY <1>2, <1>16 DEF cfgVars
<1> QED BY <1>3, <1>5, <1>6, <1>7, <1>8, <1>9, <1>10, <1>11, <1>12, <1>13, <1>14, <1>15, <1>16 DEF CfgNext

LEMMA CfgThereStep == CfgInv /\ CfgThere /\ [CfgNext]_cfgVars => CfgThere'
<1> SUFFICES ASSUME CfgInv, CfgThere, [CfgNext]_cfgVars PROVE CfgThere'
  OBVIOUS
<1> DEFINE b == cfgDisk["bundle"]
<1>1. /\ cfgDisk \in [CfgStores -> CfgStoreTypes] /\ CfgStores = {"config", "bundle"}
      /\ CfgWorkspaceType(cfg) /\ cfg.store \in {"config", "bundle"}
  BY DEF CfgInv, CfgTypes, CfgStores, CfgWorkspaceType
<1>2. CASE cfgDisk'["bundle"].target = b.target /\ cfgDisk'["bundle"].durable = b.durable
  BY <1>2 DEF CfgThere
<1>3. CASE cfgDisk'["bundle"].target # CfgNone
  BY <1>3 DEF CfgThere
<1>4. CASE NeedsRecovery(b) /\ \E settled \in BOOLEAN : cfgDisk'["bundle"] = Recovered(b, settled)
  <2>1. cfgDisk'["bundle"].target # CfgNone
    BY <1>4 DEF NeedsRecovery, Recovered
  <2> QED BY <1>3, <2>1
<1>5. CASE UNCHANGED cfgDisk
  BY <1>2, <1>5
<1>6. CASE CfgKeyEdit \/ CfgKeyChar \/ CfgKeyBackspace \/ CfgKeyEnter \/ CfgKeyEsc \/ CfgPrepare \/ CfgSave
  BY <1>5, <1>6 DEF CfgKeyEdit, CfgKeyChar, CfgKeyBackspace, CfgKeyEnter, CfgKeyEsc, CfgPrepare, CfgSave, CfgCall
<1>7. ASSUME NEW settled \in BOOLEAN, NeedsRecovery(b), cfgDisk' = [cfgDisk EXCEPT !["bundle"] = Recovered(@, settled)]
      PROVE  CfgThere'
  BY <1>1, <1>4, <1>7
<1>8. CASE CfgApply
  BY <1>5, <1>7, <1>8 DEF CfgApply, CfgCall
<1>9. CASE CfgStart
  BY <1>5, <1>7, <1>9 DEF CfgStart
<1>10. ASSUME NEW at, NEW next, NEW d, CfgStep(at, next, d)
       PROVE  IF cfg.store = "bundle" THEN cfgDisk'["bundle"] = d ELSE cfgDisk'["bundle"] = b
  BY <1>1, <1>10 DEF CfgStep
<1>11. CASE CfgOpen \/ CfgWrite \/ CfgSync
  <2>1. cfgDisk'["bundle"] = b \/ \E f : cfgDisk'["bundle"] = [b EXCEPT !.stage = f]
    <3>1. CASE cfg.store = "config"
      BY <1>10, <1>11, <3>1 DEF CfgOpen, CfgWrite, CfgSync
    <3>2. CASE cfg.store = "bundle"
      <4>1. \E f : CfgStep(cfg.at, cfg'.at, [b EXCEPT !.stage = f])
        <5>1. CASE CfgOpen
          BY <1>1, <3>2, <5>1 DEF CfgOpen, CfgStep, CfgWorkspaceType
        <5>2. CASE CfgWrite
          BY <1>1, <3>2, <5>2 DEF CfgWrite, CfgStep, CfgWorkspaceType
        <5>3. CASE CfgSync
          BY <1>1, <3>2, <5>3 DEF CfgSync, CfgStep, CfgWorkspaceType
        <5> QED BY <1>11, <5>1, <5>2, <5>3
      <4>2. PICK f : CfgStep(cfg.at, cfg'.at, [b EXCEPT !.stage = f])
        BY <4>1
      <4>3. cfgDisk'["bundle"] = [b EXCEPT !.stage = f]
        BY <1>1, <3>2, <4>2 DEF CfgStep
      <4> QED BY <4>3
    <3> QED BY <1>1, <3>1, <3>2
  <2>2. b \in CfgStoreTypes
    BY <1>1
  <2> HIDE DEF b
  <2>3. cfgDisk'["bundle"].target = b.target /\ cfgDisk'["bundle"].durable = b.durable
    BY <2>1, <2>2 DEF CfgStoreTypes
  <2> QED BY <1>2, <2>3 DEF b
<1>12. CASE CfgRename
  <2>1. CASE cfg.store = "config"
    BY <1>2, <1>10, <1>12, <2>1 DEF CfgRename
  <2>2. CASE cfg.store = "bundle"
    <3>1. cfgDisk'["bundle"] = [b EXCEPT !.target = b.stage, !.stage = CfgNone] /\ cfg.at = "rename"
      BY <1>10, <1>12, <2>2 DEF CfgRename, CfgStep
    <3>2. b.stage = CfgFile(cfg.content, TRUE)
      BY <2>2, <3>1 DEF CfgInv, CfgWriting, CfgProgress
    <3>3. cfg.content \in CfgValues
      BY <1>1, <3>1 DEF CfgInv, CfgWriting, CfgWorkspaceType
    <3>4. b.stage # CfgNone
      BY <3>2, <3>3, CfgAssumption DEF CfgFile, CfgValues
    <3>5. b \in CfgStoreTypes
      BY <1>1
    <3> HIDE DEF b
    <3>6. cfgDisk'["bundle"].target = b.stage
      BY <3>1, <3>5 DEF CfgStoreTypes
    <3> QED BY <1>3, <3>4, <3>6
  <2> QED BY <1>1, <2>1, <2>2
<1>13. CASE CfgSettle
  <2>1. CASE cfg.store = "config"
    <3>1. cfgDisk'["bundle"] = b
      BY <1>1, <1>13, <2>1 DEF CfgSettle
    <3> QED BY <1>2, <3>1
  <2>2. CASE cfg.store = "bundle"
    <3>1. cfgDisk'["bundle"] = [b EXCEPT !.durable = b.target]
      BY <1>1, <1>13, <2>2 DEF CfgSettle
    <3>2. b \in CfgStoreTypes
      BY <1>1
    <3> HIDE DEF b
    <3>3. cfgDisk'["bundle"].durable = b.target /\ cfgDisk'["bundle"].target = b.target
      BY <3>1, <3>2 DEF CfgStoreTypes
    <3> QED BY <3>3 DEF CfgThere
  <2> QED BY <1>1, <2>1, <2>2
<1>14. CASE CfgCallFails \/ CfgKill
  <2>1. cfgDisk' = Forget(cfgDisk)
    BY <1>14 DEF CfgCallFails, CfgKill, Forget
  <2> QED BY <1>1, <1>2, <2>1, ForgetKeeps
<1>15. CASE CfgPowerLoss
  <2>1. cfgDisk'["bundle"].target = cfgDisk'["bundle"].durable
    BY <1>15 DEF CfgPowerLoss
  <2> QED BY <2>1 DEF CfgThere
<1>16. CASE UNCHANGED cfgVars
  BY <1>5, <1>16 DEF cfgVars
<1> QED BY <1>6, <1>8, <1>9, <1>11, <1>12, <1>13, <1>14, <1>15, <1>16 DEF CfgNext

(* Types: the draft and what is persisted as the configuration are within    *)
(* the bounds that the next start checks, the editor's text fits, and a      *)
(* bundle that survives a power loss is under its name now (configuration.rs,*)
(* ui.rs, configuration_materialization.rs).                                 *)
THEOREM ConfigTypes == CfgSpec => []CfgTypeOK
<1> DEFINE I == CfgFits(cfg.text) /\ CfgThere
<1>1. CfgInit => I
  <2> SUFFICES ASSUME CfgInit PROVE I
    OBVIOUS
  <2>1. cfg.text = <<>> /\ cfgDisk["bundle"].durable = CfgNone
    BY DEF CfgInit, CfgWorkspace, CfgEmptyStore, CfgStores
  <2> QED BY <2>1, CfgFirstText DEF CfgThere
<1>2. CfgInv /\ I /\ [CfgNext]_cfgVars => I'
  BY CfgTextStep, CfgThereStep
<1>3. CfgInv /\ I => CfgTypeOK
  <2> SUFFICES ASSUME CfgInv, I PROVE CfgTypeOK
    OBVIOUS
  <2>1. /\ cfg.draft.current \in CfgMin..CfgMax /\ cfg.draft.original \in CfgMin..CfgMax
        /\ cfg.save \in {"Clean", "Dirty", "Saved", "Failed", "Unavailable", "Invalid"}
        /\ cfg.at \in {"ui", "open", "write", "sync", "rename", "settle"}
    BY DEF CfgInv, CfgTypes, CfgWorkspaceType
  <2>2. LoadsConfig(cfgDisk) \in CfgMin..CfgMax \cup {CfgNone, CfgTorn}
    BY DEF CfgInv, CfgWhole, LoadsConfig, Content
  <2> QED BY <2>1, <2>2 DEF CfgTypeOK, CfgFits, CfgThere
<1> HIDE DEF I
<1> QED BY <1>1, <1>2, <1>3, CfgInitInv, CfgNextInv, PTL DEF CfgSpec
=============================================================================
