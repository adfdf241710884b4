-------------------------- MODULE MCDecryptPipeline --------------------------
(* Instances of DecryptPipeline for TLC: vault g is good, vault w has another  *)
(* password, vault x is damaged.                                               *)
EXTENDS DecryptPipeline

CONSTANTS g, w, x, none, f1, f2, f3

Conditions == [v \in Vaults |-> CASE v = g -> "good" [] v = w -> "locked" [] OTHER -> "damaged"]
=============================================================================
