------------------------------- MODULE Bundle -------------------------------
(* Bundles (bundle.rs): a signed manifest is checked, its artifacts are      *)
(* taken from a directory or fetched in chunks through a verified cache that *)
(* can be resumed, and the documents among them are held against the         *)
(* inventory that is compiled in; the release lock of the dependencies       *)
(* (lib.rs) is checked against the tags of their checkouts.                  *)
(*                                                                           *)
(* Several processes may share the cache and each may die at any step; a     *)
(* process is known by its pid, which a later process may get again.  The    *)
(* first artifact is followed through the cache: its bytes are chunks, and   *)
(* its digest is that of BunSize good ones.                                  *)
EXTENDS Naturals, Sequences

CONSTANTS
    BunNone,        \* Option::None, a file that does not exist
    BunPids,        \* the process ids
    BunSize,        \* chunks of the artifact
    BunAttempts,    \* MAX_ATTEMPTS
    BunArtifactMax, \* MAX_ARTIFACT_BYTES
    BunBundleMax,   \* MAX_BUNDLE_BYTES
    BunYear,        \* the longest validity of a manifest
    BunNow,         \* the clock
    BunReleases     \* a sequence of what may be offered: a manifest, its signature, its documents, a lock

(* A chunk arrives right or wrong, and the lock has the checkouts of two     *)
(* dependencies.                                                             *)
ASSUME BunAssumption ==
    /\ BunSize \in Nat \ {0} /\ BunAttempts \in Nat \ {0}
    /\ BunNone \notin {"refused", "policy_refused", "obtained", "transfer_failed", "partial_cache_failed", "digest_mismatch",
                       "verified_cache_failed", "installed", "locked"}
    /\ \A o \in DOMAIN BunReleases :
          /\ BunReleases[o].source \subseteq {"good", "bad"}
          /\ DOMAIN BunReleases[o].tags = {"agent-workflow-coordinator", "agent-workflow-quality"}

VARIABLES
    bun,            \* the processes
    bunDisk,        \* the cache directory
    bunOffer        \* the release on offer
bunVars == <<bun, bunDisk, bunOffer>>
Offer == BunReleases[bunOffer]

-----------------------------------------------------------------------------
(* The manifest.                                                             *)

BunKinds == {<<"asb-tui", "executable">>, <<"source", "source">>, <<"licenses", "license_report">>,
             <<"sbom", "sbom">>, <<"provenance", "provenance">>}

(* No key twice: the sets the code inserts the keys of a list into. *)
Distinct(keys) == \A i, j \in DOMAIN keys : keys[i] = keys[j] => i = j
Ids(s) == {<<s[i].name, s[i].kind>> : i \in DOMAIN s}
Total(s) == LET sum[i \in 0..Len(s)] == IF i = 0 THEN 0 ELSE sum[i - 1] + s[i].size IN sum[Len(s)]
(* A careless variant: the sizes are not added up. *)
validate_artifacts_each(s) ==
    /\ Len(s) = 5 /\ Distinct([i \in DOMAIN s |-> <<s[i].name, s[i].kind>>])
    /\ \A i \in DOMAIN s : s[i].size \in 1..BunArtifactMax /\ s[i].immutable
    /\ Ids(s) = BunKinds
validate_artifacts(s) ==
    /\ Len(s) = 5 /\ Distinct([i \in DOMAIN s |-> <<s[i].name, s[i].kind>>])
    /\ \A i \in DOMAIN s : s[i].size \in 1..BunArtifactMax /\ s[i].immutable
    /\ Total(s) <= BunBundleMax
    /\ Ids(s) = BunKinds

(* Three components, each with the identity that is compiled in or, for the  *)
(* frontend itself, that of the manifest.                                    *)
validate_components(m) ==
    /\ Len(m.components) = 3 /\ Distinct([i \in DOMAIN m.components |-> m.components[i].name])
    /\ {m.components[i] : i \in DOMAIN m.components} =
          {[name |-> "asb-tui", id |-> m.source], [name |-> "agent-workflow-coordinator", id |-> "compiled"],
           [name |-> "agent-workflow-quality", id |-> "compiled"]}

validate_compatibility(m) == m.bundle = "expected" /\ m.tools = "compiled"

ValidNow(m) == m.issued <= BunNow /\ BunNow < m.expires /\ m.expires - m.issued <= BunYear
parse_and_validate_manifest(m) ==
    /\ m.schema = 1 /\ ValidNow(m)
    /\ validate_compatibility(m) /\ validate_artifacts(m.artifacts) /\ validate_components(m)

(* One key, the pinned one, and a good signature: before anything is parsed. *)
verify_manifest_signature(o) == o.anchor = <<"pinned">> /\ o.signed
verify_bundle_manifest(o) == verify_manifest_signature(o) /\ parse_and_validate_manifest(o.manifest)

(* The documents: the report, the SBOM and the provenance name the release,  *)
(* and the two inventories are the compiled one, no more and no less.        *)
spdx_inventory(pkgs) == {pkgs[i] : i \in DOMAIN pkgs}
Inventory(pkgs, expected) == Distinct([i \in DOMAIN pkgs |-> pkgs[i].name]) /\ spdx_inventory(pkgs) = expected
expected_inventory == {[name |-> "asb-tui", license |-> "MIT"], [name |-> "agent-workflow-coordinator", license |-> "MIT"]}
validate_bundle_documents(m, docs) ==
    /\ docs.licenses.release = m.release /\ Inventory(docs.licenses.packages, expected_inventory)
    /\ docs.sbom.release = m.release /\ Inventory(docs.sbom.packages, expected_inventory)
    /\ docs.provenance = [release |-> m.release, source |-> m.source, reproducible |-> TRUE]

(* Of each file the size and the digest; then the documents. *)
verify_local_bundle_artifacts(o) ==
    /\ \A n \in {"asb-tui", "source", "licenses", "sbom", "provenance"} : o.files[n] = "exact"
    /\ validate_bundle_documents(o.manifest, o.documents)

(* The release lock: for each dependency the tag still gives the object that *)
(* was locked, the object is signed, and it leads to the commit and tree.    *)
validate_artifact_fields(d) ==
    CASE d.name = "agent-workflow-coordinator" -> d.closure = "archive"
      [] d.name = "agent-workflow-quality" -> d.closure = "publisher"
      [] OTHER -> FALSE
verify_release_lock_contents(o) ==
    LET deps == o.lock
    IN  /\ Len(deps) = 2 /\ Distinct([i \in DOMAIN deps |-> deps[i].name])
        /\ \A i \in DOMAIN deps :
              /\ validate_artifact_fields(deps[i])
              /\ o.tags[deps[i].name] = deps[i].object
              /\ deps[i].object \in o.authentic
              /\ o.trees[deps[i].object] = deps[i].tree
verify_lock_signature(o) == o.anchor = <<"pinned">> /\ o.locksigned

-----------------------------------------------------------------------------
(* The cache.  An entry is linked to its name only when it is whole.         *)

Good == [i \in 1..BunSize |-> "good"]
BunIdle == [at |-> "idle", bytes |-> <<>>, failures |-> 0, verdict |-> BunNone]

Bun(p, r) == bun' = [bun EXCEPT ![p] = r]
Step(p, at) == Bun(p, [bun[p] EXCEPT !.at = at])
Ends(p, v) == Bun(p, [BunIdle EXCEPT !.bytes = IF v = "obtained" THEN bun[p].bytes ELSE @, !.verdict = v])
SameDisk == UNCHANGED <<bunDisk, bunOffer>>
Ended(p) == bunDisk' = [bunDisk EXCEPT !.last = p] /\ UNCHANGED bunOffer

(* obtain_verified_bundle takes a manifest as it is, signed or not; of each  *)
(* artifact obtain_artifact looks at the fields it relies on.                *)
Obtainable(a) == a.size \in 1..BunArtifactMax /\ a.immutable
StartProcess(p) ==
    /\ bun[p].at = "idle"
    /\ IF Obtainable(Offer.manifest.artifacts[1]) THEN Bun(p, [BunIdle EXCEPT !.at = "cache"]) /\ SameDisk
       ELSE Bun(p, [BunIdle EXCEPT !.verdict = "refused"]) /\ Ended(p)

(* A careless variant: what is cached is served without its digest. *)
cache_get_trusting(p) ==
    /\ bun[p].at = "cache"
    /\ IF bunDisk.entry # BunNone THEN Bun(p, [bun[p] EXCEPT !.at = "rest", !.bytes = bunDisk.entry])
       ELSE Step(p, "partial")
    /\ SameDisk
cache_get(p) ==
    /\ bun[p].at = "cache"
    /\ IF bunDisk.entry = Good THEN Bun(p, [bun[p] EXCEPT !.at = "rest", !.bytes = Good])
       ELSE Step(p, "partial")
    /\ SameDisk

get_partial(p) ==
    /\ bun[p].at = "partial"
    /\ Bun(p, [bun[p] EXCEPT !.at = "read",
                             !.bytes = IF bunDisk.partial # BunNone /\ Len(bunDisk.partial) < BunSize
                                       THEN bunDisk.partial ELSE <<>>])
    /\ SameDisk

(* A whole chunk, right or wrong, or a failure; three in a row give up. *)
read_chunk(p) ==
    /\ bun[p].at = "read" /\ Len(bun[p].bytes) < BunSize
    /\ \/ \E c \in Offer.source :
             Bun(p, [bun[p] EXCEPT !.at = "store", !.bytes = Append(@, c), !.failures = 0]) /\ SameDisk
       \/ IF bun[p].failures + 1 >= BunAttempts THEN Ends(p, "transfer_failed") /\ Ended(p)
          ELSE Bun(p, [bun[p] EXCEPT !.failures = @ + 1]) /\ SameDisk

(* The staging file is made anew under a name with the pid: one that a dead  *)
(* process left under it is a failure.                                       *)
store_partial(p) ==
    /\ bun[p].at = "store"
    /\ IF bunDisk.staged[p] THEN Ends(p, "partial_cache_failed") /\ Ended(p)
       ELSE Step(p, "rename") /\ bunDisk' = [bunDisk EXCEPT !.staged[p] = TRUE] /\ UNCHANGED bunOffer
rename_partial(p) ==
    /\ bun[p].at = "rename"
    /\ Step(p, IF Len(bun[p].bytes) < BunSize THEN "read" ELSE "digest")
    /\ bunDisk' = [bunDisk EXCEPT !.partial = bun[p].bytes, !.staged[p] = FALSE] /\ UNCHANGED bunOffer
(* The write, the sync or the rename fails, or the sync of the directory     *)
(* after it; the staging file is removed, if that works.                     *)
StoreFails(p) ==
    /\ bun[p].at = "rename" /\ Ends(p, "partial_cache_failed") /\ UNCHANGED bunOffer
    /\ \/ \E left \in BOOLEAN : bunDisk' = [bunDisk EXCEPT !.staged[p] = left, !.last = p]
       \/ bunDisk' = [bunDisk EXCEPT !.partial = bun[p].bytes, !.staged[p] = FALSE, !.last = p]

(* A careless variant: a wrong download is kept to be resumed. *)
compare_digest_keeping(p) ==
    /\ bun[p].at = "digest"
    /\ IF bun[p].bytes = Good THEN Step(p, "insert") /\ SameDisk
       ELSE Ends(p, "digest_mismatch") /\ Ended(p)
compare_digest(p) ==
    /\ bun[p].at = "digest"
    /\ IF bun[p].bytes = Good THEN Step(p, "insert") /\ SameDisk
       ELSE /\ Ends(p, "digest_mismatch")
            /\ bunDisk' = [bunDisk EXCEPT !.partial = BunNone, !.last = p] /\ UNCHANGED bunOffer

(* An entry that is there stays, whatever it holds. *)
insert(p) ==
    /\ bun[p].at = "insert"
    /\ CASE bunDisk.entry # BunNone -> Step(p, "clear") /\ SameDisk
         [] bunDisk.entry = BunNone /\ bunDisk.inserting[p] -> Ends(p, "verified_cache_failed") /\ Ended(p)
         [] OTHER -> Step(p, "link") /\ bunDisk' = [bunDisk EXCEPT !.inserting[p] = TRUE] /\ UNCHANGED bunOffer
hard_link(p) ==
    /\ bun[p].at = "link"
    /\ Step(p, "unstage")
    /\ bunDisk' = [bunDisk EXCEPT !.entry = IF @ = BunNone THEN bun[p].bytes ELSE @] /\ UNCHANGED bunOffer
remove_staging(p) ==
    /\ bun[p].at = "unstage"
    /\ Step(p, "clear")
    /\ bunDisk' = [bunDisk EXCEPT !.inserting[p] = FALSE] /\ UNCHANGED bunOffer
(* The write, a sync, the link or the removal of the staging file fails;     *)
(* that file is removed, if that works, and an entry that was linked stays.  *)
InsertFails(p) ==
    /\ bun[p].at \in {"link", "unstage"} /\ Ends(p, "verified_cache_failed") /\ UNCHANGED bunOffer
    /\ \E left \in BOOLEAN : bunDisk' = [bunDisk EXCEPT !.inserting[p] = left, !.last = p]
clear_partial(p) ==
    /\ bun[p].at = "clear"
    /\ Step(p, "rest")
    /\ bunDisk' = [bunDisk EXCEPT !.partial = BunNone] /\ UNCHANGED bunOffer
(* The partial file is not removed, or its removal is not synced. *)
ClearFails(p) ==
    /\ bun[p].at = "clear" \/ (bun[p].at = "digest" /\ bun[p].bytes # Good)
    /\ Ends(p, "partial_cache_failed") /\ UNCHANGED bunOffer
    /\ \E b \in {bunDisk.partial, BunNone} : bunDisk' = [bunDisk EXCEPT !.partial = b, !.last = p]

(* The other artifacts in the same way, any of which may fail, and then the  *)
(* policy on the documents among them.                                       *)
(* A careless variant: the documents are not looked at.                      *)
obtain_without_policy(p) ==
    /\ bun[p].at = "rest" /\ Ended(p)
    /\ \/ \A i \in DOMAIN Offer.manifest.artifacts : Obtainable(Offer.manifest.artifacts[i])
          /\ Ends(p, "obtained")
       \/ Ends(p, "transfer_failed")
obtain_verified_bundle(p) ==
    /\ bun[p].at = "rest" /\ Ended(p)
    /\ \/ /\ \A i \in DOMAIN Offer.manifest.artifacts : Obtainable(Offer.manifest.artifacts[i])
          /\ Ends(p, IF validate_bundle_documents(Offer.manifest, Offer.documents) THEN "obtained"
                     ELSE "policy_refused")
       \/ Ends(p, "transfer_failed")

BunCrash(p) ==
    /\ bun[p].at # "idle"
    /\ Bun(p, BunIdle) /\ Ended(p)

(* The other users of a release: an installation from a directory, for which *)
(* the signed manifest must be the one the request names and the channel     *)
(* must permit it, and the check of the lock.                                *)
InstallLocal(p) ==
    /\ bun[p].at = "idle" /\ bun[p].verdict # "installed"
    /\ verify_bundle_manifest(Offer)
    /\ Offer.request = [release |-> Offer.manifest.release, source |-> Offer.manifest.source]
    /\ Offer.permits
    /\ verify_local_bundle_artifacts(Offer)
    /\ Bun(p, [BunIdle EXCEPT !.verdict = "installed"]) /\ Ended(p)
VerifyLock(p) ==
    /\ bun[p].at = "idle" /\ bun[p].verdict # "locked"
    /\ verify_lock_signature(Offer) /\ verify_release_lock_contents(Offer)
    /\ Bun(p, [BunIdle EXCEPT !.verdict = "locked"]) /\ Ended(p)

BunInit ==
    /\ bun = [p \in BunPids |-> BunIdle]
    /\ bunDisk \in [entry : {BunNone, [Good EXCEPT ![1] = "bad"]}, partial : {BunNone}, last : {BunNone},
                    staged : {[p \in BunPids |-> FALSE]}, inserting : {[p \in BunPids |-> FALSE]}]
    /\ bunOffer \in DOMAIN BunReleases

BunNext ==
    \E p \in BunPids :
        \/ StartProcess(p) \/ cache_get(p) \/ get_partial(p) \/ read_chunk(p) \/ store_partial(p)
        \/ rename_partial(p) \/ StoreFails(p) \/ compare_digest(p) \/ insert(p) \/ hard_link(p)
        \/ remove_staging(p) \/ InsertFails(p) \/ clear_partial(p) \/ ClearFails(p)
        \/ obtain_verified_bundle(p) \/ BunCrash(p) \/ InstallLocal(p) \/ VerifyLock(p)
BunSpec == BunInit /\ [][BunNext]_bunVars

-----------------------------------------------------------------------------
BunVerdicts == {"refused", "policy_refused", "obtained", "transfer_failed", "partial_cache_failed", "digest_mismatch",
                "verified_cache_failed", "installed", "locked"}
(* Types of the processes and of the cache. *)
BunTypeOK ==
    \A p \in BunPids : /\ bun[p].verdict \in BunVerdicts \cup {BunNone}
                       /\ Len(bun[p].bytes) <= BunSize /\ bun[p].failures < BunAttempts

(* What is handed out is exactly the artifact, whatever was cached, however  *)
(* many processes fetched, and wherever one of them died (bundle.rs, "Return *)
(* verified bytes").                                                         *)
BunServedRight == \A p \in BunPids : bun[p].verdict = "obtained" => bun[p].bytes = Good

(* A wrong download does not outlive the mismatch that is reported of it: a  *)
(* process that ends with one, while no other runs, leaves nothing for the   *)
(* next to resume.  (One that could not remove it reports another failure.)  *)
BunNoPoison ==
    \A p \in BunPids :
        (bun[p].verdict = "digest_mismatch" /\ bunDisk.last = p /\ \A q \in BunPids : bun[q].at = "idle") =>
            bunDisk.partial = BunNone

(* A bundle that is obtained has documents of this very release with the     *)
(* compiled inventory; its manifest need not be signed (bundle.rs:706-718).  *)
(* A release that is installed is signed by the pinned key, valid now,       *)
(* complete, within its quota, permitted, and the one that was asked for;    *)
(* every tag of a lock that is accepted leads to a signed object.            *)
BunUsedIsWhole ==
    LET m == Offer.manifest
        docs == Offer.documents
    IN  \A p \in BunPids :
            /\ bun[p].verdict \in {"obtained", "installed"} =>
                  /\ \A d \in {"licenses", "sbom", "provenance"} : docs[d].release = m.release
                  /\ {docs.sbom.packages[i] : i \in DOMAIN docs.sbom.packages} = expected_inventory
                  /\ \A i \in DOMAIN m.artifacts : m.artifacts[i].size <= BunArtifactMax
            /\ bun[p].verdict = "installed" =>
                  /\ Offer.signed /\ m.issued <= BunNow /\ BunNow < m.expires
                  /\ Offer.permits /\ Offer.request.release = m.release
                  /\ \A k \in BunKinds : \E i \in DOMAIN m.artifacts : <<m.artifacts[i].name, m.artifacts[i].kind>> = k
                  /\ Total(m.artifacts) <= BunBundleMax
            /\ bun[p].verdict = "locked" => \A d \in DOMAIN Offer.tags : Offer.tags[d] \in Offer.authentic

(* The bundle: right bytes, no mismatch that is resumed, only what was       *)
(* checked is used.                                                          *)
BundleSound == BunServedRight /\ BunNoPoison /\ BunUsedIsWhole
=============================================================================
