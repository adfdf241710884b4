-------------------------- MODULE MCEncryptPipeline --------------------------
(* Instances of EncryptPipeline for TLC: folder d holds a and b, file c lies  *)
(* beside the folder.                                                         *)
EXTENDS EncryptPipeline

CONSTANTS a, b, c, d, top

HomeOf == [f \in Files |-> IF f = c THEN top ELSE d]
=============================================================================
