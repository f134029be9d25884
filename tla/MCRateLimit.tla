---------------------------- MODULE MCRateLimit ----------------------------
(* An instance of RateLimit for TLC: named slots. *)
EXTENDS RateLimit, TLC

CONSTANTS s1, s2, s3

Slots == {s1, s2, s3}
SlotSymmetry == Permutations(Slot)
=============================================================================
