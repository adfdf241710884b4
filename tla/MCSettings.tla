------------------------------ MODULE MCSettings ------------------------------
(* Instances of Settings for TLC: one instance with two threads, and another.  *)
EXTENDS Settings

Processes == [t \in Threads |-> IF t = Other THEN "other" ELSE "ours"]

\* All the weaker values, or all the stronger: a mixture is nobody's choice.
AllAlike == {[k \in Keys |-> v] : v \in Values}
=============================================================================
