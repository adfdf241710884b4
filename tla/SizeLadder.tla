----------------------------- MODULE SizeLadder -----------------------------
(***************************************************************************)
(* The size of a vault on disk: VaultCrypto._calculate_container_size      *)
(* takes what a vault needs to the next rung of a ladder that climbs by a  *)
(* quarter from 1 MiB, and beyond 10 GiB to the next GiB.                  *)
(*                                                                         *)
(* A size is a number of units, bytes or coarser: rungs are rounded up to  *)
(* units where the code rounds them up to bytes.  The module has no        *)
(* behaviours of its own: VaultLayout, whose writers call the function,    *)
(* says when it is asked and when it runs.                                 *)
(***************************************************************************)
EXTENDS Integers

CONSTANTS
    Mib,        \* units in a MiB, the lowest rung
    BigFrom,    \* units in 10 GiB: larger targets leave the ladder
    BigStep     \* units in a GiB

ASSUME LadderAssumption == {Mib, BigFrom, BigStep} \subseteq Nat \ {0}

VARIABLES
    target,   \* what the rung must hold
    bucket    \* the rung reached

Larger(a, b) == IF a > b THEN a ELSE b

\* ceil(bucket * 1.25)
NextRung(b) == b + (b + 3) \div 4

\* Mutant: the next step even when the target is one.
WholeStepsBeyond(t) == (t \div BigStep + 1) * BigStep

\* ((target + gb - 1) // gb) * gb
WholeSteps(t) == ((t + BigStep - 1) \div BigStep) * BigStep

\* What the function is to reach, and where it starts: a large target has its
\* answer at once.
Target(total, floor) == Larger(total, floor * Mib)
FirstRung(t) == IF t > BigFrom THEN WholeSteps(t) ELSE Mib

\* The loop ends when the rung holds the target.
Settled == bucket >= target

\* The call with a total, and a floor in MiB (0 is "Auto").
Ask(total, floor) ==
    /\ target' = Target(total, floor)
    /\ bucket' = FirstRung(target')

\* One turn of the loop.
Ascend ==
    /\ ~Settled
    /\ bucket' = NextRung(bucket)
    /\ UNCHANGED target

-----------------------------------------------------------------------------
(* Properties *)

\* Padding costs at most a quarter of what is needed, 1 MiB being the least
\* size, and beyond 10 GiB less than a GiB (_calculate_container_size).
PaddingBounded ==
    /\ target <= BigFrom => bucket = Mib \/ bucket - target <= target \div 4
    /\ target > BigFrom => bucket - target < BigStep
=============================================================================
