---------------------------- MODULE MCRecording ----------------------------
(* Two campaigns, interchangeable in every respect. *)
EXTENDS Recording, TLC

CONSTANTS c1, c2

MCCampaign == {c1, c2}
MCSymmetry == Permutations(MCCampaign)
=============================================================================
