-------------------------- MODULE MCAttemptLimiter --------------------------
(* Instances of AttemptLimiter for TLC.                                      *)
EXTENDS AttemptLimiter
=============================================================================
