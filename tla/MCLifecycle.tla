---------------------------- MODULE MCLifecycle ----------------------------
(***************************************************************************)
(* Small instances of Lifecycle.  b1 and b2 are successive releases, b3 is *)
(* a later release that repackages the executable of b1.                   *)
(***************************************************************************)
EXTENDS LifecycleInv, TLC

CONSTANTS p1, p2, b1, b2, b3, d1, d2

MCBundle == {b1, b2, b3}
MCDigest == {d1, d2}
MCdigest == [b \in Bundle |-> IF b = b2 THEN d2 ELSE d1]
MCrelease == [b \in Bundle |-> CASE b = b1 -> 1 [] b = b2 -> 2 [] b = b3 -> 3]

(* The processes run the same program and differ in nothing but their pid. *)
MCSymmetry == Permutations(Proc)

=============================================================================
