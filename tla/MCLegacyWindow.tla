---------------------------- MODULE MCLegacyWindow ----------------------------
(* Instances of LegacyWindow for TLC; the two threads are interchangeable.     *)
EXTENDS LegacyWindow, TLC

CONSTANTS f, h, w1, w2

Symmetry == Permutations({w1, w2})
=============================================================================
