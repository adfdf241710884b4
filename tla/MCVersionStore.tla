---------------------------- MODULE MCVersionStore ----------------------------
(* Instances of VersionStore for TLC: a small vault and one twice its size.    *)
EXTENDS VersionStore

CONSTANTS a, b

Sizes == [v \in Vaults |-> IF v = b THEN 2 ELSE 1]
=============================================================================
