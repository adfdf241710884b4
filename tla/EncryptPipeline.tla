--------------------------- MODULE EncryptPipeline ---------------------------
(***************************************************************************)
(* The encryption worker and the user's originals.                         *)
(*                                                                         *)
(* EncryptController packs the sources of a batch into temporary zips,     *)
(* encrypts them through atomic_output under a free vault name, and, when  *)
(* asked to, overwrites and deletes the originals.  A normal batch does so *)
(* source by source; a hidden vault takes all its decoy and hidden sources *)
(* as one unit with two zips.  The zips are plaintext: the worker wipes    *)
(* them when a unit ends, and every start of the application wipes those   *)
(* that are still about, whoever made them; both pass over a zip that can  *)
(* be neither wiped nor deleted.  Other programs make files meanwhile, also *)
(* under names the worker has in mind.                                     *)
(***************************************************************************)
EXTENDS Naturals

CONSTANTS
    Files,          \* the user's plain files
    Folders,        \* folders the user may pick
    Top,            \* the directory the folders lie in
    Home,           \* file -> the directory it lies in
    Copies,         \* numbers the vault-name loop tries, 1..Copies
    MaxBatches,     \* bound: batches the user starts
    MaxMishaps,     \* bound: zips that stay, files of other programs, and second
                    \* instances, together
    OutInside,      \* a vault may be put into a folder packed with it
    FoldersInLists, \* a hidden vault may be made of several sources, folders too
    MayAdd,         \* the user may put files into folders meanwhile
    OtherInstance   \* the application may be started a second time

Places == Folders \cup {Top}

ASSUME PipelineAssumption ==
    /\ Top \notin Folders
    /\ Files \cap Folders = {}
    /\ Home \in [Files -> Places]
    /\ Copies \in Nat \ {0}
    /\ MaxBatches \in Nat
    /\ MaxMishaps \in Nat
    /\ {OutInside, FoldersInLists, MayAdd, OtherInstance} \subseteq BOOLEAN

VARIABLES
    plain,    \* what has become of each file
    vaults,   \* vault name -> the files that can be got back from it
    temp,     \* the .rpm_pack_ zips: the first, and the one of hidden sources
    op,       \* the worker
    cancel,   \* cancel_requested
    alive,    \* the process runs
    late,     \* files put into their folders while a batch ran
    intruder, \* a second instance has been started
    stuck,    \* history: a zip could be neither wiped nor deleted
    raced,    \* history: somebody made a file of the name the worker has chosen
    mishaps,  \* what went wrong around the worker so far, for the bound
    batches   \* batches started so far, for the bound

vars == <<plain, vaults, temp, op, cancel, alive, late, intruder, stuck, raced,
          mishaps, batches>>

around == <<stuck, raced, mishaps>>

-----------------------------------------------------------------------------
Sources == Files \cup Folders
Names == Places \X (1..Copies)
Slots == {"main", "hidden"}

\* Sources packed into one vault.
Units == [main: SUBSET Sources, hidden: SUBSET Sources]

NoUnit == [main |-> {}, hidden |-> {}]
NoTemp == [state |-> "none", content |-> {}]
NewTemp == [state |-> "writing", content |-> {}]

Intact == {f \in Files : plain[f] = "intact"}

\* What lies in a source now, vaults included.
Objects(s) ==
    IF s \in Folders
      THEN {f \in Intact : Home[f] = s} \cup {n \in DOMAIN vaults : n[1] = s}
      ELSE {s} \cap Intact

AllObjects(srcs) == UNION {Objects(s) : s \in srcs}

\* package_folder for a single folder, package_files for everything else,
\* which takes regular files only.
PackList(srcs, exclude) ==
    IF \E d \in Folders : srcs = {d}
      THEN AllObjects(srcs) \ AllObjects(exclude)
      ELSE (srcs \cap Intact) \ exclude

\* An archived vault brings its files with it.
Capture(x) == IF x \in Files THEN {x} ELSE vaults[x]

ParentOf(s) == IF s \in Folders THEN Top ELSE Home[s]

\* Save next to the first source, or in the directory the user picked.
PlacesOf(u, out) == IF out = "beside" THEN {ParentOf(s) : s \in u.main} ELSE {out}

Idle(outcome) ==
    [pc |-> "idle", todo |-> {}, unit |-> NoUnit, out |-> "beside", wipe |-> FALSE,
     slot |-> "main", list |-> {}, name |-> <<Top, 1>>, left |-> {},
     outcome |-> outcome]

-----------------------------------------------------------------------------
Init ==
    /\ \E missing \in SUBSET {f \in Files : MayAdd /\ Home[f] \in Folders} :
          plain = [f \in Files |-> IF f \in missing THEN "absent" ELSE "intact"]
    /\ vaults = [n \in {} |-> {}]
    /\ temp = [t \in Slots |-> NoTemp]
    /\ op = Idle("none")
    /\ cancel = FALSE
    /\ alive = TRUE
    /\ late = {}
    /\ intruder = FALSE
    /\ stuck = FALSE
    /\ raced = FALSE
    /\ mishaps = 0
    /\ batches = 0

\* _start_encrypt resets cancel_requested, start spawns the worker.
Begin(units, wipe, out) ==
    /\ alive /\ op.pc = "idle"
    /\ batches < MaxBatches /\ batches' = batches + 1
    /\ ~OutInside => \A u \in units : PlacesOf(u, out) \cap (u.main \cup u.hidden) = {}
    /\ op' = [Idle("none") EXCEPT !.pc = "next", !.todo = units,
                                  !.out = out, !.wipe = wipe]
    /\ cancel' = FALSE
    /\ UNCHANGED <<plain, vaults, temp, alive, late, intruder, around>>

StartNormal(srcs, wipe, out) ==
    /\ srcs # {}
    /\ Begin({[main |-> {s}, hidden |-> {}] : s \in srcs}, wipe, out)

StartHidden(main, hidden, wipe, out) ==
    /\ main # {} /\ hidden # {}
    /\ ~FoldersInLists => \A l \in {main, hidden} : l \subseteq Files \/ \E s \in l : l = {s}
    /\ Begin({[main |-> main, hidden |-> hidden]}, wipe, out)

\* An exception: the finally clause comes next.
Fail(outcome) == op' = [op EXCEPT !.pc = "clean", !.outcome = outcome]

\* The worker's loop over the sources; it stops at the first cancellation.  A
\* hidden vault does not look at the flag here.
NextUnit(u) ==
    /\ alive /\ op.pc = "next" /\ u \in op.todo
    /\ ~cancel \/ u.hidden # {}
    /\ op' = [op EXCEPT !.pc = "scan", !.unit = u, !.todo = @ \ {u}]
    /\ UNCHANGED <<plain, vaults, temp, cancel, alive, late, intruder, batches, around>>

\* The batch is over, and is_processing goes down.
EndBatch ==
    /\ alive /\ op.pc = "next"
    /\ \/ op.todo = {} /\ op' = Idle(IF op.outcome = "none" THEN "success" ELSE op.outcome)
       \/ cancel /\ (\A u \in op.todo : u.hidden = {}) /\ op.todo # {}
             /\ op' = Idle("cancelled")
    /\ UNCHANGED <<plain, vaults, temp, cancel, alive, late, intruder, batches, around>>

\* get_manifest refuses a source that is gone; then the first zip is opened.
Scan ==
    /\ alive /\ op.pc = "scan"
    /\ \/ Fail("failed") /\ UNCHANGED temp
       \/ /\ \A f \in Files : op.unit.main = {f} => f \in Intact
          /\ temp' = [temp EXCEPT !["main"] = NewTemp]
          /\ op' = [op EXCEPT !.pc = "pack", !.slot = "main",
                              !.list = PackList(op.unit.main, op.unit.hidden)]
    /\ UNCHANGED <<plain, vaults, cancel, alive, late, intruder, batches, around>>

\* One file goes into the zip.
PackOne(x) ==
    /\ alive /\ op.pc = "pack" /\ x \in op.list
    /\ \/ cancel /\ Fail("cancelled") /\ UNCHANGED temp
       \/ Fail("failed") /\ UNCHANGED temp
       \/ /\ ~cancel
          /\ temp' = [temp EXCEPT ![op.slot].content = @ \cup Capture(x)]
          /\ op' = [op EXCEPT !.list = @ \ {x}]
    /\ UNCHANGED <<plain, vaults, cancel, alive, late, intruder, batches, around>>

\* The zip is closed; a hidden vault needs a second one.
PackDone ==
    /\ alive /\ op.pc = "pack" /\ op.list = {}
    /\ LET closed == [temp EXCEPT ![op.slot].state = IF @ = "writing" THEN "ready" ELSE @] IN
         IF op.slot = "main" /\ op.unit.hidden # {}
           THEN /\ temp' = [closed EXCEPT !["hidden"] = NewTemp]
                /\ op' = [op EXCEPT !.slot = "hidden", !.list = PackList(op.unit.hidden, {})]
           ELSE temp' = closed /\ op' = [op EXCEPT !.pc = "name"]
    /\ UNCHANGED <<plain, vaults, cancel, alive, late, intruder, batches, around>>

\* Mutant: no look at what is there.
IsFreeUnseen(n) == TRUE

\* What lies under the name is a vault, or a file of another program.
IsFree(n) == n \notin DOMAIN vaults

\* while out_path.exists(): the first free name.  All sources are taken to
\* have the same name, which is the worst case.
ChooseName(p) ==
    /\ alive /\ op.pc = "name" /\ p \in PlacesOf(op.unit, op.out)
    /\ \/ Fail("failed")
       \/ \E i \in 1..Copies :
             /\ IsFree(<<p, i>>) /\ \A j \in 1..(i - 1) : ~IsFree(<<p, j>>)
             /\ op' = [op EXCEPT !.pc = "seal", !.name = <<p, i>>]
    /\ raced' = FALSE
    /\ UNCHANGED <<plain, vaults, temp, cancel, alive, late, intruder, batches, stuck, mishaps>>

Zips == {t \in Slots : op.unit[t] # {}}

\* What the vault will give back: nothing of a zip that has been overwritten.
Sealable == UNION {IF temp[t].state = "ready" THEN temp[t].content ELSE {} : t \in Zips}

Commit(v) ==
    /\ vaults' = [n \in DOMAIN vaults \cup {op.name} |->
                     IF n = op.name THEN Sealable ELSE vaults[n]]
    /\ op' = [op EXCEPT !.pc = IF op.wipe THEN "wipe" ELSE "clean",
                        !.left = op.unit.main \cup op.unit.hidden]

\* Mutant: the error of an encryption that failed is swallowed.
SealIgnoresError ==
    /\ alive /\ op.pc = "seal"
    /\ \/ cancel /\ Fail("cancelled") /\ UNCHANGED vaults
       \/ op' = [op EXCEPT !.pc = IF op.wipe THEN "wipe" ELSE "clean",
                           !.left = op.unit.main \cup op.unit.hidden] /\ UNCHANGED vaults
       \/ /\ ~cancel /\ \A t \in Zips : temp[t].state # "none"
          /\ Commit(op.name)
    /\ UNCHANGED <<plain, temp, cancel, alive, late, intruder, batches, around>>

\* atomic_output around encrypt_file: the vault appears whole, under the chosen
\* name, or an exception leaves no vault.
Seal ==
    /\ alive /\ op.pc = "seal"
    /\ \/ cancel /\ Fail("cancelled") /\ UNCHANGED vaults
       \/ Fail("failed") /\ UNCHANGED vaults
       \/ /\ ~cancel /\ \A t \in Zips : temp[t].state # "none"
          /\ Commit(op.name)
    /\ UNCHANGED <<plain, temp, cancel, alive, late, intruder, batches, around>>

\* The original of one source is listed for wiping, decoys first.
WipeSource(s) ==
    /\ alive /\ op.pc = "wipe" /\ op.list = {} /\ s \in op.left
    /\ s \in op.unit.main \/ op.left \cap op.unit.main = {}
    /\ op' = [op EXCEPT !.left = @ \ {s}, !.list = Objects(s)]
    /\ UNCHANGED <<plain, vaults, temp, cancel, alive, late, intruder, batches, around>>

\* wipe_file: overwritten and deleted.  A failure may come before or after
\* the content is gone.
WipeOne(x) ==
    /\ alive /\ op.pc = "wipe" /\ x \in op.list
    /\ op' = [op EXCEPT !.list = @ \ {x}] \/ Fail("failed")
    /\ IF x \in Files
         THEN plain' = [plain EXCEPT ![x] = "wiped"] /\ UNCHANGED vaults
         ELSE /\ vaults' = [n \in DOMAIN vaults \ {x} |-> vaults[n]]
              /\ UNCHANGED plain
    /\ UNCHANGED <<temp, cancel, alive, late, intruder, batches, around>>

WipeRefused ==
    /\ alive /\ op.pc = "wipe" /\ op.list # {}
    /\ Fail("failed")
    /\ UNCHANGED <<plain, vaults, temp, cancel, alive, late, intruder, batches, around>>

WipeDone ==
    /\ alive /\ op.pc = "wipe" /\ op.list = {} /\ op.left = {}
    /\ op' = [op EXCEPT !.pc = "clean"]
    /\ UNCHANGED <<plain, vaults, temp, cancel, alive, late, intruder, batches, around>>

About == {t \in Slots : temp[t] # NoTemp}

Remaining(rest) == [t \in Slots |-> IF t \in rest THEN temp[t] ELSE NoTemp]

Mishap == mishaps < MaxMishaps /\ mishaps' = mishaps + 1

\* _wipe_temp: where the wipe and then the unlink fail, the zip stays.
WipeTemps ==
    \/ temp' = Remaining({}) /\ UNCHANGED <<stuck, mishaps>>
    \/ /\ \E rest \in SUBSET About \ {{}} : temp' = Remaining(rest)
       /\ stuck' = TRUE /\ Mishap

\* Mutant: only the first zip is wiped.
CleanFirst ==
    /\ alive /\ op.pc = "clean"
    /\ temp' = [temp EXCEPT !["main"] = NoTemp] /\ UNCHANGED <<stuck, mishaps>>
    /\ op' = IF op.outcome = "cancelled" THEN Idle(op.outcome)
             ELSE [op EXCEPT !.pc = "next", !.list = {}, !.left = {}]
    /\ UNCHANGED <<plain, vaults, cancel, alive, late, intruder, batches, raced>>

\* Mutant: a unit that failed is tried again.
CleanRetries ==
    /\ alive /\ op.pc = "clean"
    /\ WipeTemps
    /\ op' = IF op.outcome = "cancelled" THEN Idle(op.outcome)
             ELSE [op EXCEPT !.pc = "next", !.list = {}, !.left = {},
                             !.todo = IF op.outcome = "failed" THEN @ \cup {op.unit} ELSE @]
    /\ UNCHANGED <<plain, vaults, cancel, alive, late, intruder, batches, raced>>

\* The finally clause: _wipe_temp of both zips.  A cancellation ends the batch,
\* an error goes on with the next source.
Clean ==
    /\ alive /\ op.pc = "clean"
    /\ WipeTemps
    /\ op' = IF op.outcome = "cancelled" THEN Idle(op.outcome)
             ELSE [op EXCEPT !.pc = "next", !.list = {}, !.left = {}]
    /\ UNCHANGED <<plain, vaults, cancel, alive, late, intruder, batches, raced>>

-----------------------------------------------------------------------------
(* Around the worker *)

RequestCancel ==
    /\ alive /\ op.pc # "idle" /\ ~cancel
    /\ cancel' = TRUE
    /\ UNCHANGED <<plain, vaults, temp, op, alive, late, intruder, batches, around>>

AddFile(f) ==
    /\ MayAdd /\ plain[f] = "absent"
    /\ plain' = [plain EXCEPT ![f] = "intact"]
    /\ late' = IF op.pc = "idle" THEN late ELSE late \cup {f}
    /\ UNCHANGED <<vaults, temp, op, cancel, alive, intruder, batches, around>>

\* Another program makes a file under a name the worker may give its vault, or
\* is about to.
StrangerMakes(n) ==
    /\ \/ op.pc = "name" /\ n[1] \in PlacesOf(op.unit, op.out)
       \/ op.pc = "seal" /\ n = op.name
    /\ n \notin DOMAIN vaults /\ Mishap
    /\ vaults' = [m \in DOMAIN vaults \cup {n} |-> IF m = n THEN {} ELSE vaults[m]]
    /\ raced' = (op.pc = "seal")
    /\ UNCHANGED <<plain, temp, op, cancel, alive, late, intruder, stuck, batches>>

OtherStarts ==
    /\ OtherInstance /\ ~intruder /\ Mishap
    /\ intruder' = TRUE
    /\ UNCHANGED <<plain, vaults, temp, op, cancel, alive, late, batches, stuck, raced>>

\* The second instance overwrites each .rpm_pack_ zip it finds, then deletes it.
OverwriteTemp(t) ==
    /\ intruder /\ temp[t].state \in {"writing", "ready"}
    /\ temp' = [temp EXCEPT ![t].state = "scribbled"]
    /\ UNCHANGED <<plain, vaults, op, cancel, alive, late, intruder, batches, around>>

DeleteTemp(t) ==
    /\ intruder /\ temp[t].state = "scribbled"
    /\ temp' = [temp EXCEPT ![t] = NoTemp]
    /\ UNCHANGED <<plain, vaults, op, cancel, alive, late, intruder, batches, around>>

Crash ==
    /\ alive
    /\ alive' = FALSE
    /\ op' = Idle("none")
    /\ cancel' = FALSE
    /\ UNCHANGED <<plain, vaults, temp, late, intruder, batches, around>>

\* main calls cleanup_orphaned_temp_files before the window is there; it goes
\* for the zips that stayed before as well, and passes over what stays again.
Restart ==
    /\ ~alive
    /\ alive' = TRUE
    /\ WipeTemps
    /\ UNCHANGED <<plain, vaults, op, cancel, late, intruder, raced, batches>>

WorkerStep ==
    \/ \E u \in op.todo : NextUnit(u)
    \/ EndBatch
    \/ Scan
    \/ \E x \in op.list : PackOne(x) \/ WipeOne(x)
    \/ PackDone
    \/ \E p \in Places : ChooseName(p)
    \/ Seal
    \/ \E s \in op.left : WipeSource(s)
    \/ WipeRefused
    \/ WipeDone
    \/ Clean

Next ==
    \/ WorkerStep
    \/ \E srcs \in SUBSET Sources, wipe \in BOOLEAN, out \in Places \cup {"beside"} :
          StartNormal(srcs, wipe, out)
    \/ \E main, hidden \in SUBSET Sources, wipe \in BOOLEAN, out \in Places \cup {"beside"} :
          StartHidden(main, hidden, wipe, out)
    \/ RequestCancel
    \/ \E f \in Files : AddFile(f)
    \/ \E n \in Names : StrangerMakes(n)
    \/ OtherStarts
    \/ \E t \in Slots : OverwriteTemp(t) \/ DeleteTemp(t)
    \/ Crash
    \/ Restart

Spec == Init /\ [][Next]_vars

\* The worker thread runs until it returns.
FairSpec == Spec /\ WF_vars(WorkerStep)

-----------------------------------------------------------------------------
(* Properties *)

\* Types of the variables.
TypeOK ==
    /\ plain \in [Files -> {"intact", "absent", "wiped"}]
    /\ DOMAIN vaults \subseteq Names
    /\ \A n \in DOMAIN vaults : vaults[n] \subseteq Files
    /\ temp \in [Slots -> [state: {"none", "writing", "ready", "scribbled"},
                           content: SUBSET Files]]
    /\ op \in [pc: {"idle", "next", "scan", "pack", "name", "seal", "wipe", "clean"},
               todo: SUBSET Units, unit: Units, out: Places \cup {"beside"},
               wipe: BOOLEAN, slot: Slots, list: SUBSET (Files \cup Names),
               name: Names, left: SUBSET Sources,
               outcome: {"none", "success", "failed", "cancelled"}]
    /\ cancel \in BOOLEAN
    /\ alive \in BOOLEAN
    /\ late \subseteq Files
    /\ {intruder, stuck, raced} \subseteq BOOLEAN
    /\ mishaps \in 0..MaxMishaps
    /\ batches \in 0..MaxBatches

Sealed == UNION {vaults[n] : n \in DOMAIN vaults}

\* A file is on the disk or in a vault, at every step of a batch, whatever
\* fails, is cancelled or crashes (the order seal, then wipe in _normal_worker
\* and _hidden_worker).  Excepted is a file that appears while the batch runs,
\* and nothing is promised beside a second instance.
NothingLost ==
    ~intruder => \A f \in Files \ late : plain[f] = "wiped" => f \in Sealed

\* No plaintext zip outlives its batch, or the crash of the batch and the next
\* start (_wipe_temp, cleanup_orphaned_temp_files), but one that could be neither
\* wiped nor deleted.
TempsGone == (alive /\ op.pc = "idle" /\ ~stuck) => \A t \in Slots : temp[t] = NoTemp

\* A new vault never takes the place of an older one, nor of any file but one
\* that another program made after the name was chosen (out_path.exists loop,
\* os.replace in atomic_output).
NoVaultReplaced ==
    [][\A n \in DOMAIN vaults \cap DOMAIN vaults' :
          vaults'[n] # vaults[n] => raced /\ n = op.name]_vars

\* Every batch ends: no source is tried for ever.
BatchEnds == op.pc # "idle" ~> op.pc = "idle"
=============================================================================
