--------------------------- MODULE MCDevLifecycle ---------------------------
(* Small instances of DevLifecycle: one worker or two, two source revisions. *)
EXTENDS DevLifecycle

CONSTANTS w1, w2, r1, r2

=============================================================================
