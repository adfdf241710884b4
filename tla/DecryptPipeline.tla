--------------------------- MODULE DecryptPipeline ---------------------------
(***************************************************************************)
(* The workers that bring files back out of vaults: DecryptController for  *)
(* whole vaults, and the selective extraction of InspectController.        *)
(*                                                                         *)
(* Both decrypt a vault into a temporary zip before its authentication tag *)
(* is checked.  A decryption then unpacks the zip into a new folder of the *)
(* output directory; a selective extraction unpacks it into a temporary    *)
(* folder and copies the files the user asked for.  What is temporary is   *)
(* plaintext: the worker wipes it when the vault is done with, and every   *)
(* start of the application wipes what is still about, whoever made it;    *)
(* both pass over what cannot be removed.  The folder that is being filled *)
(* is no temporary one: a failure takes it back, as far as it can be       *)
(* removed, and a crash leaves it as it is.                                *)
(***************************************************************************)
EXTENDS Naturals

CONSTANTS
    Vaults,        \* vaults the user picks
    NoVault,
    Condition,     \* vault -> "good", "locked": the password does not open it,
                   \* or "damaged": its payload is not what was encrypted
    Members,       \* files in each vault
    Absent,        \* files its list names that are not in its archive
    Copies,        \* numbers the name loop tries, 1..Copies
    MaxBatches,    \* bound: operations the user starts
    OtherInstance  \* the application may be started a second time

ASSUME DecryptAssumption ==
    /\ NoVault \notin Vaults
    /\ Members \cap Absent = {}
    /\ Condition \in [Vaults -> {"good", "locked", "damaged"}]
    /\ Copies \in Nat \ {0}
    /\ MaxBatches \in Nat
    /\ OtherInstance \in BOOLEAN

VARIABLES
    out,      \* the output directory: name -> whose it is and what is in it
    zip,      \* the temporary archive
    stage,    \* the temporary folder of a selective extraction
    op,       \* the worker
    cancel,   \* cancel_requested
    alive,    \* the process runs
    intruder, \* a second instance has been started
    stuck,    \* history: a temporary archive or folder could not be removed
    torn,     \* history: folders left by a crash, or that could not be taken back
    batches   \* operations started so far, for the bound

vars == <<out, zip, stage, op, cancel, alive, intruder, stuck, torn, batches>>

-----------------------------------------------------------------------------
\* Every folder and file the operations make is taken to have the same name,
\* which is the worst case.
Names == 1..Copies

NoZip == [state |-> "none", from |-> NoVault]
NoStage == [made |-> FALSE, files |-> {}]

\* sel is what a selective extraction is asked for, want what a decryption is;
\* made are the names given, done the vaults brought back.
Idle ==
    [pc |-> "idle", todo |-> {}, vault |-> NoVault, sel |-> {}, left |-> {},
     name |-> 0, want |-> {}, made |-> {}, done |-> {}, outcome |-> "none"]

\* A selective extraction is the operation that selects something.
Selective == op.sel # {}

Listed == Members \cup Absent

\* A restored folder, or a single copy.
Folder(owner, files) == [kind |-> "folder", owner |-> owner, files |-> files]
Copy(owner, files) == [kind |-> "copy", owner |-> owner, files |-> files]

Put(n, e) == [m \in DOMAIN out \cup {n} |-> IF m = n THEN e ELSE out[m]]
Without(n) == [m \in DOMAIN out \ {n} |-> out[m]]

Init ==
    /\ \E users \in SUBSET Names : out = [n \in users |-> Folder(NoVault, Members)]
    /\ zip = NoZip
    /\ stage = NoStage
    /\ op = Idle
    /\ cancel = FALSE
    /\ alive = TRUE
    /\ intruder = FALSE
    /\ stuck = FALSE
    /\ torn = {}
    /\ batches = 0

Begin(rec) ==
    /\ alive /\ op.pc = "idle"
    /\ batches < MaxBatches /\ batches' = batches + 1
    /\ op' = rec
    /\ cancel' = FALSE
    /\ UNCHANGED <<out, zip, stage, alive, intruder, stuck, torn>>

\* DecryptScreen._start_decrypt
StartDecrypt(vs) ==
    /\ vs # {}
    /\ Begin([Idle EXCEPT !.pc = "next", !.todo = vs, !.want = vs])

\* The selective-extract dialog, for files the list of one vault names.
StartSelect(v, sel) ==
    /\ sel # {}
    /\ Begin([Idle EXCEPT !.pc = "next", !.todo = {v}, !.want = {v}, !.sel = sel])

\* Mutant: an error of one vault is logged and forgotten.
FailForgets(outcome) ==
    op' = [op EXCEPT !.pc = IF op.name = 0 THEN "clean" ELSE "unwind",
                     !.outcome = IF outcome = "failed" THEN op.outcome ELSE outcome,
                     !.done = @ \cup {op.vault}]

\* An exception: a folder that has been named is wiped, then finally comes.
Fail(outcome) ==
    op' = [op EXCEPT !.pc = IF op.name = 0 THEN "clean" ELSE "unwind", !.outcome = outcome]

\* Whether the worker's loop goes on after this outcome: a wrong password and a
\* cancellation end the batch.
GoesOn == op.outcome \in {"none", "failed"}

\* The worker's loop over the vaults.  mkstemp gives the zip its name; a
\* selective extraction does not look at the flag here.
NextVault(v) ==
    /\ alive /\ op.pc = "next" /\ v \in op.todo /\ GoesOn
    /\ ~cancel \/ Selective
    /\ zip' = [state |-> "empty", from |-> v]
    /\ op' = [op EXCEPT !.pc = "auth", !.vault = v, !.todo = @ \ {v}, !.name = 0]
    /\ UNCHANGED <<out, stage, cancel, alive, intruder, batches, stuck, torn>>

Finish(outcome) ==
    op' = [Idle EXCEPT !.want = op.want, !.sel = op.sel, !.made = op.made, !.outcome = outcome]

\* is_processing goes down, batch_done says how it went.
EndBatch ==
    /\ alive /\ op.pc = "next"
    /\ \/ /\ op.todo = {} \/ ~GoesOn
          /\ Finish(IF op.outcome = "none" /\ op.done = op.want THEN "success" ELSE op.outcome)
       \/ /\ op.todo # {} /\ cancel /\ ~Selective
          /\ Finish("cancelled")
    /\ UNCHANGED <<out, zip, stage, cancel, alive, intruder, batches, stuck, torn>>

\* decrypt_file opens the zip for writing, and decrypt_stream the envelope.
Unseal ==
    /\ alive /\ op.pc = "auth"
    /\ \/ Fail("failed") /\ UNCHANGED zip
       \/ zip' = [state |-> "empty", from |-> op.vault]
          /\ IF Condition[op.vault] = "locked"
               THEN Fail("refused")
               ELSE op' = [op EXCEPT !.pc = "stream"]
    /\ UNCHANGED <<out, stage, cancel, alive, intruder, batches, stuck, torn>>

\* The payload is written as it is decrypted.
Stream ==
    /\ alive /\ op.pc = "stream"
    /\ \/ cancel /\ Fail("cancelled") /\ UNCHANGED zip
       \/ /\ zip' = IF zip.state = "empty" THEN [zip EXCEPT !.state = "written"] ELSE zip
          /\ \/ Fail("failed")
             \/ ~cancel /\ op' = [op EXCEPT !.pc = "tag"]
    /\ UNCHANGED <<out, stage, cancel, alive, intruder, batches, stuck, torn>>

\* Mutant: the tag is not compared.
CheckTagNever ==
    /\ alive /\ op.pc = "tag"
    /\ op' = [op EXCEPT !.pc = IF Selective THEN "stage" ELSE "name"]
    /\ UNCHANGED <<out, zip, stage, cancel, alive, intruder, batches, stuck, torn>>

\* finalize_with_tag
CheckTag ==
    /\ alive /\ op.pc = "tag"
    /\ IF Condition[op.vault] = "damaged"
         THEN Fail("refused")
         ELSE op' = [op EXCEPT !.pc = IF Selective THEN "stage" ELSE "name"]
    /\ UNCHANGED <<out, zip, stage, cancel, alive, intruder, batches, stuck, torn>>

\* Mutant: no look at what is there.
IsFreeUnseen(n) == TRUE

IsFree(n) == n \notin DOMAIN out

\* while extract_dir.exists(): the first free name.
FirstFree(n) == IsFree(n) /\ \A m \in 1..(n - 1) : ~IsFree(m)

ChooseName ==
    /\ alive /\ op.pc = "name"
    /\ \/ Fail("failed")
       \/ \E n \in Names :
             FirstFree(n) /\ op' = [op EXCEPT !.pc = "mkdir", !.name = n, !.left = Members]
    /\ UNCHANGED <<out, zip, stage, cancel, alive, intruder, batches, stuck, torn>>

\* extract_archive makes the folder, then opens the zip.
MakeFolder ==
    /\ alive /\ op.pc = "mkdir"
    /\ \/ Fail("failed") /\ UNCHANGED out
       \/ /\ out' = Put(op.name, Folder(op.vault, {}))
          /\ op' = [op EXCEPT !.pc = "extract", !.made = @ \cup {op.name}]
    /\ UNCHANGED <<zip, stage, cancel, alive, intruder, batches, stuck, torn>>

\* One member; what is no zip any more, or never was, gives none, and neither
\* does a member with an unsafe path or a size beyond the limit.
ExtractOne(m) ==
    /\ alive /\ op.pc = "extract" /\ m \in op.left
    /\ \/ cancel /\ Fail("cancelled") /\ UNCHANGED out
       \/ Fail("failed") /\ UNCHANGED out
       \/ /\ ~cancel /\ zip.state = "written"
          /\ out' = [out EXCEPT ![op.name].files = @ \cup {m}]
          /\ op' = [op EXCEPT !.left = @ \ {m}]
    /\ UNCHANGED <<zip, stage, cancel, alive, intruder, batches, stuck, torn>>

\* The vault is counted as restored, unless the bookkeeping raises.
Restored ==
    /\ alive /\ op.pc = "extract" /\ op.left = {}
    /\ \/ op' = [op EXCEPT !.pc = "clean", !.done = @ \cup {op.vault}, !.name = 0]
       \/ Fail("failed")
    /\ UNCHANGED <<out, zip, stage, cancel, alive, intruder, batches, stuck, torn>>

\* Mutant: the folder stays.
UnwindLater ==
    /\ alive /\ op.pc = "unwind"
    /\ op' = [op EXCEPT !.pc = "clean"]
    /\ UNCHANGED <<out, zip, stage, cancel, alive, intruder, batches, stuck, torn>>

\* _wipe_extract_dir: partial plaintext goes.  What the wipe and then rmtree
\* cannot remove stays, and nobody is told.
Unwind ==
    /\ alive /\ op.pc = "unwind"
    /\ \/ out' = Without(op.name) /\ UNCHANGED torn
       \/ /\ op.name \in DOMAIN out
          /\ \E rest \in SUBSET out[op.name].files : out' = [out EXCEPT ![op.name].files = rest]
          /\ torn' = torn \cup {op.name}
    /\ op' = [op EXCEPT !.pc = "clean"]
    /\ UNCHANGED <<zip, stage, cancel, alive, intruder, batches, stuck>>

\* A selective extraction unpacks everything into its temporary folder.
Unpack ==
    /\ alive /\ op.pc = "stage"
    /\ \E got \in SUBSET Members :
          /\ stage' = [made |-> TRUE, files |-> got]
          /\ \/ cancel /\ Fail("cancelled")
             \/ Fail("failed")
             \/ /\ ~cancel /\ zip.state = "written" /\ got = Members
                /\ op' = [op EXCEPT !.pc = "copy", !.left = op.sel]
    /\ UNCHANGED <<out, zip, cancel, alive, intruder, batches, stuck, torn>>

\* One file to a free name of the output directory.  A copy that fails leaves
\* what it has written, and those before it; a file that is not there is passed
\* over.
CopyOne(m) ==
    /\ alive /\ op.pc = "copy" /\ m \in op.left
    /\ \/ Fail("failed") /\ UNCHANGED out
       \/ \E n \in Names :
             /\ FirstFree(n)
             /\ \/ out' = Put(n, Copy(op.vault, {})) /\ Fail("failed")
                \/ /\ m \in stage.files
                   /\ out' = Put(n, Copy(op.vault, {m}))
                   /\ op' = [op EXCEPT !.left = @ \ {m}, !.made = @ \cup {n}]
       \/ m \notin stage.files /\ op' = [op EXCEPT !.left = @ \ {m}] /\ UNCHANGED out
    /\ UNCHANGED <<zip, stage, cancel, alive, intruder, batches, stuck, torn>>

Copied ==
    /\ alive /\ op.pc = "copy" /\ op.left = {}
    /\ op' = [op EXCEPT !.pc = "clean", !.done = @ \cup {op.vault}]
    /\ UNCHANGED <<out, zip, stage, cancel, alive, intruder, batches, stuck, torn>>

\* What may be left of the temporary folder.
Rests == {NoStage} \cup IF stage.made THEN [made: {TRUE}, files: SUBSET stage.files] ELSE {}

\* Wiping what is temporary: what can be removed neither way stays.
WipeTemps ==
    /\ zip' \in {NoZip, zip} /\ stage' \in Rests
    /\ stuck' = (stuck \/ zip' # NoZip \/ stage' # NoStage)

\* Mutant: the temporary folder is forgotten.
CleanZipOnly ==
    /\ alive /\ op.pc = "clean"
    /\ zip' \in {NoZip, zip} /\ UNCHANGED stage
    /\ stuck' = (stuck \/ zip' # NoZip)
    /\ op' = [op EXCEPT !.pc = "next", !.name = 0]
    /\ UNCHANGED <<out, cancel, alive, intruder, batches, torn>>

\* The finally clause.
Clean ==
    /\ alive /\ op.pc = "clean"
    /\ WipeTemps
    /\ op' = [op EXCEPT !.pc = "next", !.name = 0]
    /\ UNCHANGED <<out, cancel, alive, intruder, batches, torn>>

-----------------------------------------------------------------------------
(* Around the worker *)

RequestCancel ==
    /\ alive /\ op.pc # "idle" /\ ~cancel
    /\ cancel' = TRUE
    /\ UNCHANGED <<out, zip, stage, op, alive, intruder, batches, stuck, torn>>

OtherStarts ==
    /\ OtherInstance /\ ~intruder
    /\ intruder' = TRUE
    /\ UNCHANGED <<out, zip, stage, op, cancel, alive, batches, stuck, torn>>

\* The second instance cleans up: what is not empty is overwritten, then deleted.
OverwriteZip ==
    /\ intruder /\ zip.state = "written"
    /\ zip' = [zip EXCEPT !.state = "scribbled"]
    /\ UNCHANGED <<out, stage, op, cancel, alive, intruder, batches, stuck, torn>>

DeleteZip ==
    /\ intruder /\ zip.state \in {"empty", "scribbled"}
    /\ zip' = NoZip
    /\ UNCHANGED <<out, stage, op, cancel, alive, intruder, batches, stuck, torn>>

\* File by file, in no order the worker could rely on.
WipeStage ==
    /\ intruder /\ stage.made
    /\ \/ \E m \in stage.files : stage' = [stage EXCEPT !.files = @ \ {m}]
       \/ stage.files = {} /\ stage' = NoStage
    /\ UNCHANGED <<out, zip, op, cancel, alive, intruder, batches, stuck, torn>>

\* The folder that is being filled, or taken back.
Pending(n) == op.pc \in {"extract", "unwind"} /\ n = op.name

\* The folder of a decryption stays as it is: no name of the temporary files
\* matches it.
Crash ==
    /\ alive
    /\ alive' = FALSE
    /\ torn' = torn \cup {n \in DOMAIN out : Pending(n)}
    /\ op' = Idle
    /\ cancel' = FALSE
    /\ UNCHANGED <<out, zip, stage, intruder, batches, stuck>>

\* main calls cleanup_orphaned_temp_files before the window is there.
Restart ==
    /\ ~alive
    /\ alive' = TRUE
    /\ WipeTemps
    /\ UNCHANGED <<out, op, cancel, intruder, batches, torn>>

WorkerStep ==
    \/ \E v \in op.todo : NextVault(v)
    \/ EndBatch
    \/ Unseal
    \/ Stream
    \/ CheckTag
    \/ ChooseName
    \/ MakeFolder
    \/ \E m \in op.left : ExtractOne(m) \/ CopyOne(m)
    \/ Restored
    \/ Unwind
    \/ Unpack
    \/ Copied
    \/ Clean

Next ==
    \/ WorkerStep
    \/ \E vs \in SUBSET Vaults : StartDecrypt(vs)
    \/ \E v \in Vaults, sel \in SUBSET Listed : StartSelect(v, sel)
    \/ RequestCancel
    \/ OtherStarts
    \/ OverwriteZip
    \/ DeleteZip
    \/ WipeStage
    \/ Crash
    \/ Restart

Spec == Init /\ [][Next]_vars

-----------------------------------------------------------------------------
(* Properties *)

\* Types of the variables.
TypeOK ==
    /\ DOMAIN out \subseteq Names
    /\ \A n \in DOMAIN out : out[n] \in [kind: {"folder", "copy"},
                                      owner: Vaults \cup {NoVault}, files: SUBSET Members]
    /\ zip \in [state: {"none", "empty", "written", "scribbled"}, from: Vaults \cup {NoVault}]
    /\ stage \in [made: BOOLEAN, files: SUBSET Members]
    /\ op \in [pc: {"idle", "next", "auth", "stream", "tag", "name", "mkdir", "extract",
                    "unwind", "stage", "copy", "clean"},
               todo: SUBSET Vaults, vault: Vaults \cup {NoVault}, sel: SUBSET Listed,
               left: SUBSET Listed, name: Names \cup {0}, want: SUBSET Vaults,
               made: SUBSET Names, done: SUBSET Vaults,
               outcome: {"none", "success", "failed", "refused", "cancelled"}]
    /\ cancel \in BOOLEAN
    /\ alive \in BOOLEAN
    /\ {intruder, stuck} \subseteq BOOLEAN
    /\ torn \subseteq Names
    /\ batches \in 0..MaxBatches

\* Nothing that failed verification reaches the user: neither the output
\* directory nor the folder a selection is copied from ever holds a file of a
\* vault that is damaged or not opened (decrypt before extract_archive).
OnlyVerified ==
    /\ \A n \in DOMAIN out : out[n].owner # NoVault => Condition[out[n].owner] = "good"
    /\ stage.made /\ op.pc = "copy" => Condition[op.vault] = "good"

\* What lay in the output directory before, or was restored by an earlier
\* batch, is neither overwritten nor wiped with a failed extraction (the exists
\* loops, _wipe_extract_dir).
OthersKept ==
    [][\A n \in DOMAIN out \ op.made : n \in DOMAIN out' /\ out'[n] = out[n]]_vars

\* While no operation runs, each folder that was restored into the output
\* directory holds its whole vault, whatever failed or was cancelled: there is no
\* half-restored one but what a crash left, or _wipe_extract_dir could not remove.
WholeOrNothing ==
    op.pc = "idle" =>
        \A n \in DOMAIN out \ torn : out[n].kind = "folder" => out[n].files = Members

\* Success is reported only when all vaults of the batch have been brought back
\* (success == total), or all the selected files their archive has: one that is
\* not in it is passed over.  A second instance may make a decryption fail, but
\* only a selective extraction that passes over what is gone can it make lie.
SuccessMeansRestored ==
    (op.outcome = "success" /\ (Selective => ~intruder)) =>
        \A v \in op.want :
            LET mine == {n \in op.made \cap DOMAIN out : out[n].owner = v} IN
            (IF Selective THEN op.sel \cap Members ELSE Members)
              \subseteq UNION {out[n].files : n \in mine}

\* No plaintext archive or folder outlives its operation, or the crash of the
\* operation and the next start (finally clauses, cleanup_orphaned_temp_files),
\* but one that could not be removed.
PlaintextGone == (alive /\ op.pc = "idle" /\ ~stuck) => zip = NoZip /\ stage = NoStage
=============================================================================
