---------------------------- MODULE MCRekeyVault ----------------------------
(* Instances of RekeyVault for TLC. *)
EXTENDS RekeyVault, TLC

CONSTANTS p1, p2, hid, none, i1, i2, i3

\* The actions treat the main passwords alike, and the file-system objects.
Symmetry == Permutations(Passwords) \cup Permutations(Inodes)
=============================================================================
