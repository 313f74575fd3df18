------------------------------- MODULE Config -------------------------------
(* The configuration editor of the workspace (ui.rs, configuration.rs) and   *)
(* the two files it writes: the configuration itself and the materialized    *)
(* bundle of a preflight (configuration_materialization.rs).  Both are       *)
(* written to a stage, flushed and renamed, with any call failing, the       *)
(* process killed or the power lost between two of them.                     *)
(*                                                                           *)
(* One setting stands for all: a number with bounds, edited as text.  A text *)
(* is a sequence of characters, 0 and 1 its digits and 2 any other one; it   *)
(* is dropped when the editor closes, as opening it writes it anew.          *)
EXTENDS Naturals, Sequences, FiniteSets

CONSTANTS
    CfgNone,      \* Option::None, or a file that does not exist
    CfgTorn,      \* content that is not the whole of what was written
    CfgMin,       \* the bounds Configuration::validate checks
    CfgMax,
    CfgDefault,   \* Configuration::default()
    CfgTextMax,   \* MAX_STRING_SCALARS
    CfgBundles,   \* the bundles a preflight may build
    CfgFaultMax   \* bound: failed calls, kills and power losses

ASSUME CfgAssumption ==
    /\ CfgMin \in Nat /\ CfgMax \in Nat /\ CfgDefault \in CfgMin..CfgMax /\ CfgFaultMax \in Nat
    /\ CfgNone # CfgTorn /\ \A x \in {CfgNone, CfgTorn} : x \notin CfgMin..CfgMax /\ x \notin CfgBundles
    /\ \A b \in BOOLEAN : /\ \A v \in CfgMin..CfgMax : CfgNone # [v |-> v, flushed |-> b]
                         /\ \A v \in CfgBundles \cup {CfgTorn} : CfgNone # [v |-> v, flushed |-> b]

VARIABLES
    cfg,       \* the workspace: draft, editor, preflight and the call it is in
    cfgDisk,   \* for both stores, the file and its stage
    cfgTold,   \* for both stores, what was last reported as written
    cfgFaults

cfgVars == <<cfg, cfgDisk, cfgTold, cfgFaults>>

CfgStores == {"config", "bundle"}

-----------------------------------------------------------------------------
(* Values and their texts.                                                   *)

(* ConfigurationDraft::value: the shortest text of a number. *)
CfgText[n \in Nat] == IF n < 2 THEN <<n>> ELSE Append(CfgText[n \div 2], n % 2)

(* The text of a value within the bounds fits into the editor. *)
ASSUME CfgTextAssumption == CfgTextMax \in Nat /\ \A n \in CfgMin..CfgMax : Len(CfgText[n]) <= CfgTextMax

CfgNumber[t \in Seq(0..1)] ==
    IF t = <<>> THEN 0 ELSE 2 * CfgNumber[SubSeq(t, 1, Len(t) - 1)] + t[Len(t)]

cfg_validate(n) == n \in CfgMin..CfgMax

(* A careless variant: a number of any size. *)
set_any_value(draft, text) ==
    IF text # <<>> /\ \A i \in 1..Len(text) : text[i] < 2
    THEN {[draft EXCEPT !.current = CfgNumber[text]]} ELSE {}

(* ConfigurationDraft::set_value: {} leaves the draft as it was. *)
cfg_set_value(draft, text) ==
    IF text # <<>> /\ \A i \in 1..Len(text) : text[i] < 2
    THEN {[draft EXCEPT !.current = n] : n \in {n \in {CfgNumber[text]} : cfg_validate(n)}}
    ELSE {}

NewDraft(n) == [original |-> n, current |-> n]

-----------------------------------------------------------------------------
(* The workspace.                                                            *)

(* The workspace of WorkspaceState::default() has no store. *)
CfgWorkspace(n, path) ==
    [alive |-> TRUE, path |-> path, draft |-> NewDraft(n), editing |-> FALSE, focused |-> FALSE,
     text |-> <<>>, error |-> FALSE, save |-> IF path THEN "Clean" ELSE "Unavailable",
     preflight |-> CfgNone, at |-> "ui", store |-> "config", content |-> CfgNone]

CfgUi == cfg.alive /\ cfg.at = "ui"

(* A careless variant: a changed draft still counts as saved. *)
apply_edit_quietly(w) ==
    IF ~w.focused THEN w
    ELSE IF cfg_set_value(w.draft, w.text) = {} THEN [w EXCEPT !.error = TRUE, !.save = "Invalid"]
    ELSE [w EXCEPT !.draft = CHOOSE d \in cfg_set_value(w.draft, w.text) : TRUE, !.error = FALSE]

(* Every keystroke that parses goes into the draft at once. *)
apply_configuration_edit_buffer(w) ==
    IF ~w.focused THEN w
    ELSE IF cfg_set_value(w.draft, w.text) = {} THEN [w EXCEPT !.error = TRUE, !.save = "Invalid"]
    ELSE [w EXCEPT !.draft = CHOOSE d \in cfg_set_value(w.draft, w.text) : TRUE, !.error = FALSE,
                   !.save = IF w.path THEN "Dirty" ELSE "Unavailable"]

commit_configuration_edit(w) ==
    LET applied == apply_configuration_edit_buffer(w)
    IN  IF applied.error THEN applied ELSE [applied EXCEPT !.editing = FALSE, !.focused = FALSE, !.text = <<>>]

CfgKeyEdit ==
    /\ CfgUi /\ ~cfg.editing
    /\ cfg' = [cfg EXCEPT !.focused = TRUE, !.editing = TRUE, !.error = FALSE,
                          !.text = CfgText[cfg.draft.current]]
    /\ UNCHANGED <<cfgDisk, cfgTold, cfgFaults>>

CfgKeyChar ==
    /\ CfgUi /\ cfg.editing /\ Len(cfg.text) < CfgTextMax
    /\ \E c \in 0..2 : cfg' = apply_configuration_edit_buffer([cfg EXCEPT !.text = Append(@, c)])
    /\ UNCHANGED <<cfgDisk, cfgTold, cfgFaults>>

CfgKeyBackspace ==
    /\ CfgUi /\ cfg.editing
    /\ cfg' = apply_configuration_edit_buffer(
                  [cfg EXCEPT !.text = IF @ = <<>> THEN @ ELSE SubSeq(@, 1, Len(@) - 1)])
    /\ UNCHANGED <<cfgDisk, cfgTold, cfgFaults>>

CfgKeyEnter ==
    /\ CfgUi /\ cfg.editing /\ cfg' = commit_configuration_edit(cfg)
    /\ UNCHANGED <<cfgDisk, cfgTold, cfgFaults>>

(* Esc closes the editor; the draft keeps the last text that was valid, and  *)
(* the save state what it was.                                               *)
CfgKeyEsc ==
    /\ CfgUi /\ cfg.editing /\ cfg' = [cfg EXCEPT !.editing = FALSE, !.error = FALSE, !.text = <<>>]
    /\ UNCHANGED <<cfgDisk, cfgTold, cfgFaults>>

(* V builds the bundle of the current selections. *)
CfgPrepare ==
    /\ CfgUi /\ ~cfg.editing
    /\ \E b \in CfgBundles : cfg' = [cfg EXCEPT !.preflight = b]
    /\ UNCHANGED <<cfgDisk, cfgTold, cfgFaults>>

-----------------------------------------------------------------------------
(* The files.  A file has its content and whether that is flushed; `target`  *)
(* is what its name means now, `durable` what it means after a power loss at *)
(* the earliest, and `stage` what is being written.                          *)

CfgFile(v, flushed) == [v |-> v, flushed |-> flushed]
CfgEmptyStore == [target |-> CfgNone, durable |-> CfgNone, stage |-> CfgNone]

CfgFault == cfgFaults < CfgFaultMax /\ cfgFaults' = cfgFaults + 1

(* The write of a content to a store starts; it is no longer reported. *)
CfgCall(w, s, content, disk) ==
    /\ cfg' = [w EXCEPT !.at = "open", !.store = s, !.content = content]
    /\ cfgTold' = [cfgTold EXCEPT ![s] = CfgNone]
    /\ cfgDisk' = disk

(* save_configuration (Ctrl-S), after the editor's text was committed. *)
CfgSave ==
    /\ CfgUi
    /\ LET w == IF cfg.editing THEN commit_configuration_edit(cfg) ELSE cfg
       IN  IF w.editing \/ ~w.path
           THEN /\ cfg' = IF w.editing THEN w ELSE [w EXCEPT !.save = "Unavailable"]
                /\ UNCHANGED <<cfgDisk, cfgTold>>
           ELSE CfgCall(w, "config", w.draft.current, cfgDisk)
    /\ UNCHANGED cfgFaults

(* A stage without a file is a write that was not finished: MaterializedBundleStore::load *)
(* checks its digest and renames it.                                         *)
NeedsRecovery(d) == d.target = CfgNone /\ d.stage # CfgNone
Recovered(d, settled) ==
    [target |-> d.stage, stage |-> CfgNone, durable |-> IF settled THEN d.stage ELSE d.durable]

(* What the next start reads: the configuration file, and the bundle or the  *)
(* stage it recovers.                                                        *)
Content(f) == IF f = CfgNone THEN CfgNone ELSE f.v
LoadsConfig(disk) == Content(disk["config"].target)
Loads(d) == Content(IF d.target # CfgNone THEN d.target ELSE d.stage)

load_or_default(disk) == IF LoadsConfig(disk) = CfgNone THEN CfgDefault ELSE LoadsConfig(disk)

(* A careless variant: the stage of an earlier write is overwritten. *)
ApplyOverStage ==
    /\ CfgUi /\ ~cfg.editing /\ cfg.preflight # CfgNone /\ cfg.path
    /\ CfgCall(cfg, "bundle", cfg.preflight, cfgDisk)
    /\ UNCHANGED cfgFaults

(* apply_preflight (A) and the beginning of MaterializedBundleStore::apply. *)
CfgApply ==
    /\ CfgUi /\ ~cfg.editing /\ cfg.preflight # CfgNone /\ cfg.path
    /\ IF ~NeedsRecovery(cfgDisk["bundle"])
       THEN CfgCall(cfg, "bundle", cfg.preflight, cfgDisk) /\ UNCHANGED cfgFaults
       ELSE /\ cfgDisk["bundle"].stage.v # CfgTorn
            /\ \/ /\ CfgCall(cfg, "bundle", cfg.preflight,
                             [cfgDisk EXCEPT !["bundle"] = Recovered(@, TRUE)])
                  /\ UNCHANGED cfgFaults
               \/ /\ CfgFault
                  /\ cfgDisk' = [cfgDisk EXCEPT !["bundle"] = Recovered(@, FALSE)]
                  /\ UNCHANGED <<cfg, cfgTold>>

Returned(w) == [w EXCEPT !.at = "ui", !.store = "config", !.content = CfgNone]

CfgStep(at, next, d) ==
    /\ cfg.alive /\ cfg.at = at
    /\ cfg' = [cfg EXCEPT !.at = next]
    /\ cfgDisk' = [cfgDisk EXCEPT ![cfg.store] = d]
    /\ UNCHANGED <<cfgTold, cfgFaults>>

CfgOpen == CfgStep("open", "write", [cfgDisk[cfg.store] EXCEPT !.stage = CfgFile(CfgTorn, FALSE)])
CfgWrite == CfgStep("write", "sync", [cfgDisk[cfg.store] EXCEPT !.stage = CfgFile(cfg.content, FALSE)])

(* A careless variant: the data is not flushed before the rename. *)
CfgNoSync == CfgStep("sync", "rename", cfgDisk[cfg.store])

CfgSync == CfgStep("sync", "rename", [cfgDisk[cfg.store] EXCEPT !.stage = CfgFile(@.v, TRUE)])
CfgRename ==
    CfgStep("rename", "settle", [cfgDisk[cfg.store] EXCEPT !.target = cfgDisk[cfg.store].stage,
                                                          !.stage = CfgNone])

(* A careless variant: success is reported without flushing the directory. *)
CfgNoSettle ==
    /\ cfg.alive /\ cfg.at = "settle"
    /\ cfgTold' = [cfgTold EXCEPT ![cfg.store] = cfg.content]
    /\ cfg' = [Returned(cfg) EXCEPT !.save = IF cfg.store = "config" THEN "Saved" ELSE @,
                          !.draft.original = IF cfg.store = "config" THEN cfg.draft.current ELSE @]
    /\ UNCHANGED <<cfgDisk, cfgFaults>>

(* The directory is flushed and the operation returns Ok. *)
CfgSettle ==
    /\ cfg.alive /\ cfg.at = "settle"
    /\ cfgDisk' = [cfgDisk EXCEPT ![cfg.store].durable = cfgDisk[cfg.store].target]
    /\ cfgTold' = [cfgTold EXCEPT ![cfg.store] = cfg.content]
    /\ cfg' = [Returned(cfg) EXCEPT !.save = IF cfg.store = "config" THEN "Saved" ELSE @,
                          !.draft.original = IF cfg.store = "config" THEN cfg.draft.current ELSE @]
    /\ UNCHANGED cfgFaults

(* A call fails.  A save removes its temporary file; an apply leaves its     *)
(* stage; after the rename both leave the new file.                          *)
CfgCallFails ==
    /\ cfg.alive /\ cfg.at # "ui" /\ CfgFault
    /\ cfg' = [Returned(cfg) EXCEPT !.save = IF cfg.store = "config" THEN "Failed" ELSE @]
    /\ cfgDisk' = [cfgDisk EXCEPT !["config"].stage = CfgNone]
    /\ UNCHANGED cfgTold

(* The process ends, or with it the machine.  A temporary file of a save has *)
(* a name of its own and is never read again.                                *)
CfgDead == [CfgWorkspace(CfgDefault, FALSE) EXCEPT !.alive = FALSE]
Forget(disk) == [disk EXCEPT !["config"].stage = CfgNone]

CfgKill ==
    /\ cfg.alive /\ CfgFault
    /\ cfg' = CfgDead /\ cfgDisk' = Forget(cfgDisk)
    /\ UNCHANGED cfgTold

(* What a name may mean after the loss; unflushed data may be torn. *)
Survivors(f) ==
    IF f = CfgNone THEN {CfgNone}
    ELSE {CfgFile(v, TRUE) : v \in IF f.flushed THEN {f.v} ELSE {f.v, CfgTorn}}

CfgPowerLoss ==
    /\ CfgFault
    /\ cfg' = CfgDead
    /\ \E c \in Survivors(cfgDisk["config"].target) \cup Survivors(cfgDisk["config"].durable),
          b \in Survivors(cfgDisk["bundle"].target) \cup Survivors(cfgDisk["bundle"].durable),
          s \in Survivors(cfgDisk["bundle"].stage) \cup {CfgNone} :
          cfgDisk' = [config |-> [target |-> c, durable |-> c, stage |-> CfgNone],
                      bundle |-> [target |-> b, durable |-> b, stage |-> s]]
    /\ UNCHANGED cfgTold

(* from_persisted_environment: the configuration, then the bundle, whose     *)
(* stage is recovered; any error is a workspace without a store.             *)
CfgStart ==
    /\ ~cfg.alive
    /\ LET b == cfgDisk["bundle"]
           n == load_or_default(cfgDisk)
           restored == [CfgWorkspace(n, TRUE) EXCEPT !.preflight = Loads(b)]
       IN  IF CfgTorn \in {n, Loads(b)}
           THEN cfg' = CfgWorkspace(CfgDefault, FALSE) /\ UNCHANGED <<cfgDisk, cfgFaults>>
           ELSE IF ~NeedsRecovery(b)
           THEN cfg' = restored /\ UNCHANGED <<cfgDisk, cfgFaults>>
           ELSE \/ /\ cfg' = restored /\ UNCHANGED cfgFaults
                   /\ cfgDisk' = [cfgDisk EXCEPT !["bundle"] = Recovered(@, TRUE)]
                \/ /\ CfgFault /\ cfg' = CfgWorkspace(CfgDefault, FALSE)
                   /\ cfgDisk' = [cfgDisk EXCEPT !["bundle"] = Recovered(@, FALSE)]
    /\ UNCHANGED cfgTold

-----------------------------------------------------------------------------
CfgInit ==
    /\ cfg = CfgWorkspace(CfgDefault, TRUE)
    /\ cfgDisk = [s \in CfgStores |-> CfgEmptyStore]
    /\ cfgTold = [s \in CfgStores |-> CfgNone]
    /\ cfgFaults = 0

CfgNext ==
    \/ CfgKeyEdit \/ CfgKeyChar \/ CfgKeyBackspace \/ CfgKeyEnter \/ CfgKeyEsc
    \/ CfgPrepare \/ CfgSave \/ CfgApply
    \/ CfgOpen \/ CfgWrite \/ CfgSync \/ CfgRename \/ CfgSettle
    \/ CfgCallFails \/ CfgKill \/ CfgPowerLoss \/ CfgStart

CfgSpec == CfgInit /\ [][CfgNext]_cfgVars

-----------------------------------------------------------------------------
(* Types; what is persisted as the configuration is within the bounds it is  *)
(* checked against at the next start.                                        *)
CfgTypeOK ==
    /\ cfg.draft.current \in CfgMin..CfgMax /\ cfg.draft.original \in CfgMin..CfgMax
    /\ cfg.text \in Seq(0..2) /\ Len(cfg.text) <= CfgTextMax
    /\ cfg.save \in {"Clean", "Dirty", "Saved", "Failed", "Unavailable", "Invalid"}
    /\ cfg.at \in {"ui", "open", "write", "sync", "rename", "settle"}
    /\ LoadsConfig(cfgDisk) \in CfgMin..CfgMax \cup {CfgNone, CfgTorn}
    /\ cfgDisk["bundle"].durable # CfgNone => cfgDisk["bundle"].target # CfgNone

(* What was reported as saved or applied is there after a kill or a power    *)
(* loss at any later moment, until the next write of that file starts        *)
(* (configuration.rs, save: "an interrupted rename cannot report success     *)
(* while losing the new configuration after a crash").                       *)
CfgReportedSurvives ==
    \A s \in CfgStores : cfgTold[s] # CfgNone =>
        /\ cfgDisk[s].target = CfgFile(cfgTold[s], TRUE)
        /\ cfgDisk[s].durable = CfgFile(cfgTold[s], TRUE)

(* No crash leaves half a configuration under its name, so a start never     *)
(* falls back to a workspace without a store because of one                  *)
(* (configuration.rs, save).                                                 *)
CfgNeverTorn == LoadsConfig(cfgDisk) # CfgTorn

(* A crash at any moment neither takes back what was reported nor leaves     *)
(* half a file (configuration.rs, save; configuration_materialization.rs,    *)
(* apply).                                                                   *)
CfgCrashSafe == CfgReportedSurvives /\ CfgNeverTorn

(* While the screen says that nothing is to be saved, the draft is what the  *)
(* next start would load (ui.rs, the save states).                           *)
CfgCleanIsSaved ==
    (cfg.alive /\ cfg.at = "ui" /\ cfg.save \in {"Clean", "Saved"}) =>
        cfg.draft.current = load_or_default(cfgDisk)

(* Whatever fails or is killed, short of a power loss: a whole bundle that   *)
(* the next start would restore stays one, or makes room for the bundle      *)
(* being applied ("persistence failures do not replace the previously active *)
(* bundle", configuration_materialization.rs).                               *)
CfgBundleKept ==
    [][(~CfgPowerLoss /\ Loads(cfgDisk["bundle"]) \in CfgBundles) =>
          Loads(cfgDisk'["bundle"]) \in {Loads(cfgDisk["bundle"]), cfg.content}]_cfgVars

(* What was reported as saved survives, whole, and a draft that counts as    *)
(* clean is the one on the disk (configuration.rs).                          *)
CfgSafe == CfgCrashSafe /\ CfgCleanIsSaved
=============================================================================
