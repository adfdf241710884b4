---------------------------- MODULE MCLocalTraces ----------------------------
(* Instance of LocalTraces for TLC: two directories, with a vault in one whose *)
(* path begins with that of the other.                                         *)
EXTENDS LocalTraces, TLC

CONSTANTS a, b, s1, s2

Places == [v \in Vaults |-> v]
Threads == Permutations(Scanners)
Prefixes == [d \in Dirs |-> IF d = a THEN {a, b} ELSE {d}]
=============================================================================
