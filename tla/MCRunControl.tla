---------------------------- MODULE MCRunControl ----------------------------
EXTENDS RunControl

CONSTANTS r1, r2

MCRun == {r1, r2}
=============================================================================
