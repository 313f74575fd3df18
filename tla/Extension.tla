----------------------------- MODULE Extension -----------------------------
(***************************************************************************)
(* What the installer promises: one extension that is absent, installed at *)
(* a release, or unreadable because its record was changed from outside.   *)
(* An activation or a removal is one step.  There is no value for a half   *)
(* installed extension, and no step to an older release.                   *)
(***************************************************************************)
EXTENDS Integers

CONSTANTS Bundle, release, None, Damaged

VARIABLE ext

Init == ext = None

(* install or upgrade: over nothing, over an older release, or over a record *)
(* that was damaged while the upgrade that replaces it was running.          *)
Activate(b) ==
    /\ \/ ext \in {None, Damaged}
       \/ ext \in Bundle /\ release[b] > release[ext]
    /\ ext' = b

Remove == ext' = None

Damage == ext \in Bundle /\ ext' = Damaged

Next == (\E b \in Bundle : Activate(b)) \/ Remove \/ Damage

Spec == Init /\ [][Next]_ext

=============================================================================
