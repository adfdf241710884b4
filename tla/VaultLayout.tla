----------------------------- MODULE VaultLayout -----------------------------
(***************************************************************************)
(* Where the parts of a vault file lie: encrypt_stream and                 *)
(* encrypt_hidden_vault, and what _open_hidden_vault looks for.            *)
(*                                                                         *)
(* The size of the whole file stands in the header, so the header grows    *)
(* with the digits of the size it helps to determine.  The hidden          *)
(* compartment lies where a hash of its password, modulo the size of the   *)
(* file, says; the writer tries larger files until that place is free.     *)
(***************************************************************************)
EXTENDS SizeLadder, FiniteSets

CONSTANTS
    MiniHeader,  \* HIDDEN_TOTAL_HEADER_BYTES
    Slack,       \* min_slack
    Bodies,      \* sizes of all that comes before the padding, but for the
                 \* digits of the container size in the header
    Sections,    \* hidden_section_total
    Floors,      \* target_container_mb
    Estimates,   \* target_total_size
    Hashes,      \* the hash of the hidden password, a number
    PowersOfTen, \* 10, 100, ..., as far as sizes go
    FixRounds,   \* rounds of the normal writer's loop
    MaxRounds    \* max_attempts, the rounds of the hidden writer's loop

ASSUME LayoutAssumption ==
    /\ {MiniHeader, Slack, FixRounds, MaxRounds} \subseteq Nat
    /\ MiniHeader < Mib /\ MiniHeader < BigStep
    /\ Bodies \subseteq Nat /\ Sections \subseteq Nat /\ Floors \subseteq Nat
    /\ Estimates \subseteq Nat /\ Hashes \subseteq Nat
    /\ PowersOfTen \subseteq Nat /\ IsFiniteSet(PowersOfTen)

VARIABLES
    job,        \* what is to be written
    pc,         \* where the writer is
    container,  \* container_size, final_container
    decoyEnd,   \* where the main payload's tag ends
    hiddenAt,   \* where the hidden mini-header lies, None if nowhere yet
    size,       \* how long the file has become
    rounds

layoutVars == <<job, pc, target, bucket, container, decoyEnd, hiddenAt, size, rounds>>

None == -1

\* The length of str(n).
Digits(n) == Cardinality({p \in PowersOfTen : p <= n}) + 1

\* pre_pad_size, with this container size in the header.
PrePad(c) == job.body + Digits(c)

\* _calculate_container_size is called, and the writer goes on at next.
Measure(total, next) ==
    /\ Ask(total, job.floor)
    /\ pc' = next

\* _derive_hidden_offset
OffsetIn(total) == IF total <= MiniHeader THEN 0 ELSE job.hash % (total - MiniHeader)

LayoutInit ==
    /\ job \in [kind: {"normal", "hidden"}, body: Bodies, section: Sections,
                floor: Floors, estimate: Estimates, hash: Hashes]
    /\ pc = "start"
    /\ target = 0 /\ bucket = Mib
    /\ container = 0
    /\ decoyEnd = 0
    /\ hiddenAt = None
    /\ size = 0
    /\ rounds = 0

-----------------------------------------------------------------------------
(* encrypt_stream, for a normal vault *)

\* The header is built for a container size, at first 0.
Probe ==
    /\ pc = "start" /\ job.kind = "normal"
    /\ IF rounds < FixRounds
         THEN Measure(PrePad(container), "fix")
         ELSE pc' = "write" /\ UNCHANGED <<target, bucket>>
    /\ UNCHANGED <<job, container, decoyEnd, hiddenAt, size, rounds>>

\* Mutant: the first round is taken for the last.
FixOnce ==
    /\ pc = "fix" /\ Settled
    /\ container' = bucket
    /\ rounds' = rounds + 1
    /\ pc' = "write"
    /\ UNCHANGED <<job, target, bucket, decoyEnd, hiddenAt, size>>

\* The size is settled when the header with it has room below it.
Fix ==
    /\ pc = "fix" /\ Settled
    /\ container' = bucket
    /\ rounds' = rounds + 1
    /\ pc' = IF bucket = container THEN "write" ELSE "start"
    /\ UNCHANGED <<job, target, bucket, decoyEnd, hiddenAt, size>>

\* Header, metadata, payload, tag, and padding where any is needed.
WriteNormal ==
    /\ pc = "write"
    /\ decoyEnd' = PrePad(container)
    /\ size' = Larger(PrePad(container), container)
    /\ pc' = "done"
    /\ UNCHANGED <<job, target, bucket, container, hiddenAt, rounds>>

-----------------------------------------------------------------------------
(* encrypt_hidden_vault *)

\* The estimate and the floor decide the first size.
FirstSize ==
    /\ pc = "start" /\ job.kind = "hidden"
    /\ Measure(Larger(job.estimate, 1), "size")
    /\ UNCHANGED <<job, container, decoyEnd, hiddenAt, size, rounds>>

TakeSize ==
    /\ pc = "size" /\ Settled
    /\ container' = bucket
    /\ pc' = "decoy"
    /\ UNCHANGED <<job, target, bucket, decoyEnd, hiddenAt, size, rounds>>

\* The decoy is written, over what an earlier round has written, and the size
\* that everything needs is computed.
WriteDecoy ==
    /\ pc = "decoy" /\ rounds < MaxRounds
    /\ rounds' = rounds + 1
    /\ decoyEnd' = PrePad(container)
    /\ size' = Larger(size, decoyEnd')
    /\ Measure(Larger(decoyEnd' + job.section + Slack, job.estimate), "place")
    /\ UNCHANGED <<job, container, hiddenAt>>

\* Mutant: the hidden part may run past the end of the container.
FitsFrom(offset) == offset >= decoyEnd /\ offset < container

Fits(offset) == offset >= decoyEnd /\ offset + job.section <= container

\* Mutant: the place is taken for the size computed last.
PlaceInBucket ==
    /\ pc = "place" /\ Settled
    /\ hiddenAt' = OffsetIn(bucket)
    /\ pc' = "hidden"
    /\ UNCHANGED <<job, target, bucket, container, decoyEnd, size, rounds>>

\* The decoy is written again for a larger file if all does not fit, or if the
\* place is taken.
Place ==
    /\ pc = "place" /\ Settled
    /\ \/ /\ bucket > container
          /\ container' = bucket /\ pc' = "decoy"
          /\ UNCHANGED <<target, bucket, hiddenAt>>
       \/ /\ bucket <= container /\ Fits(OffsetIn(container))
          /\ hiddenAt' = OffsetIn(container) /\ pc' = "hidden"
          /\ UNCHANGED <<target, bucket, container>>
       \/ /\ bucket <= container /\ ~Fits(OffsetIn(container))
          /\ Measure(container + 1, "size")
          /\ UNCHANGED <<container, hiddenAt>>
    /\ UNCHANGED <<job, decoyEnd, size, rounds>>

\* "Unable to place hidden compartment"
GiveUp ==
    /\ pc = "decoy" /\ rounds = MaxRounds
    /\ pc' = "failed"
    /\ UNCHANGED <<job, target, bucket, container, decoyEnd, hiddenAt, size, rounds>>

\* Mutant: the last padding is forgotten.
WriteHiddenUnpadded ==
    /\ pc = "hidden"
    /\ size' = Larger(size, hiddenAt + job.section)
    /\ pc' = "done"
    /\ UNCHANGED <<job, target, bucket, container, decoyEnd, hiddenAt, rounds>>

\* Padding up to the place, the mini-header, metadata, payload and tag, and
\* padding up to the container size.
WriteHidden ==
    /\ pc = "hidden"
    /\ size' = Larger(size, Larger(hiddenAt + job.section, container))
    /\ pc' = "done"
    /\ UNCHANGED <<job, target, bucket, container, decoyEnd, hiddenAt, rounds>>

\* _calculate_container_size runs.
Climb ==
    /\ pc \in {"fix", "size", "place"}
    /\ Ascend
    /\ UNCHANGED <<job, pc, container, decoyEnd, hiddenAt, size, rounds>>

LayoutNext ==
    \/ Probe \/ Fix \/ WriteNormal
    \/ FirstSize \/ TakeSize \/ WriteDecoy \/ Place \/ GiveUp \/ WriteHidden
    \/ Climb

LayoutSpec == LayoutInit /\ [][LayoutNext]_layoutVars

-----------------------------------------------------------------------------
(* Properties *)

\* Types of the variables; no loop has more rounds than it may have.
LayoutTypeOK ==
    /\ job \in [kind: {"normal", "hidden"}, body: Bodies, section: Sections,
                floor: Floors, estimate: Estimates, hash: Hashes]
    /\ pc \in {"start", "fix", "write", "size", "decoy", "place", "hidden", "done", "failed"}
    /\ {target, bucket, container, decoyEnd, size} \subseteq Nat
    /\ rounds \in 0..Larger(FixRounds, MaxRounds)
    /\ hiddenAt \in Nat \cup {None}

\* The hidden compartment neither overwrites the decoy nor runs past the
\* container size, in whichever round it found its place (encrypt_hidden_vault).
Apart ==
    (pc = "done" /\ job.kind = "hidden") =>
        decoyEnd <= hiddenAt /\ hiddenAt + job.section <= container

\* The reader, who knows the password and the length of the file, looks where
\* the writer has put the mini-header, and is not told first that the file is
\* too short for one (_derive_hidden_offset, decrypt_stream).
ReaderFinds ==
    (pc = "done" /\ job.kind = "hidden") => size > MiniHeader /\ OffsetIn(size) = hiddenAt

\* The size in the header is the size of the file: nothing tells a hidden vault
\* from a normal one, and the padding is never negative ("container_size >= the
\* pre-padding size by construction", encrypt_stream; C2 in encrypt_hidden_vault).
SizeAsAdvertised == pc = "done" => size = container
=============================================================================
