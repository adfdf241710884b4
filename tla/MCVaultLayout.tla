---------------------------- MODULE MCVaultLayout ----------------------------
(* Instances of VaultLayout for TLC: a ladder of small steps, with more than  *)
(* one digit to gain on the way up.                                           *)
EXTENDS VaultLayout

\* Numbers as unlike each other, modulo the sizes of files, as hashes.
SomeHashes == {7919 * k : k \in 0..24}

\* All sizes around the rungs below the bound, and some beyond.
SomeBodies == 3..110
=============================================================================
