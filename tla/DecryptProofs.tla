---------------------------- MODULE DecryptProofs ----------------------------
(***************************************************************************)
(* Proofs about DecryptPipeline, for every set of vaults in any condition, *)
(* any number of members and of free names, with crashes, cancellations,   *)
(* files that cannot be removed and a second instance at any time.  They   *)
(* need no assumption but those the module makes of its constants.         *)
(***************************************************************************)
EXTENDS DecryptPipeline, TLAPS

Stages == {"idle", "next", "auth", "stream", "tag", "name", "mkdir", "extract",
           "unwind", "stage", "copy", "clean"}

Outcomes == {"none", "success", "failed", "refused", "cancelled"}

OpRec ==
    [pc: Stages, todo: SUBSET Vaults, vault: Vaults \cup {NoVault}, sel: SUBSET Listed,
     left: SUBSET Listed, name: Names \cup {0}, want: SUBSET Vaults,
     made: SUBSET Names, done: SUBSET Vaults, outcome: Outcomes]

\* The folder being made, extracted into or wiped is the operation's own.
Placed ==
    /\ op.pc \notin {"mkdir", "extract", "unwind", "clean"} => op.name = 0
    /\ op.pc \in {"mkdir", "extract", "unwind"} => op.name # 0
    /\ op.pc = "mkdir" => op.name \notin DOMAIN out
    /\ op.pc = "extract" => op.name \in op.made \cap DOMAIN out
    /\ op.pc = "unwind" => op.name \in op.made \/ op.name \notin DOMAIN out

\* The stages the two workers do not share.
Moded ==
    /\ op.pc \in {"name", "mkdir", "extract", "unwind"} => ~Selective
    /\ op.pc \in {"stage", "copy"} => Selective

\* What has been found out about the vault at each stage.
Checked ==
    /\ op.pc \notin {"idle", "next"} => op.vault \in Vaults
    /\ op.pc \in {"stream", "tag"} => Condition[op.vault] # "locked"
    /\ op.pc \in {"name", "mkdir", "extract", "stage", "copy"} => Condition[op.vault] = "good"
    /\ \A n \in DOMAIN out : out[n].owner # NoVault => Condition[out[n].owner] = "good"

\* All folders are whole but the one in hand, and what was left.
Whole ==
    /\ \A n \in DOMAIN out \ torn :
          out[n].kind = "folder" => Pending(n) \/ out[n].files = Members
    /\ op.pc = "mkdir" => op.left = Members
    /\ op.pc = "extract" => op.left \subseteq Members /\ Members \subseteq out[op.name].files \cup op.left
    /\ op.pc \in {"extract", "unwind"} /\ op.name \in DOMAIN out => out[op.name].owner = op.vault

\* No vault is done twice.
Once ==
    /\ op.todo \cap op.done = {}
    /\ op.pc \notin {"idle", "next", "clean"} => op.vault \notin op.done \cup op.todo

\* File f of vault v lies in a folder this operation made.
Back(v, f) == \E n \in op.made \cap DOMAIN out : out[n].owner = v /\ f \in out[n].files

Asked == IF Selective THEN op.sel \cap Members ELSE Members

Restoring ==
    /\ op.outcome = "success" => op.pc = "idle"
    /\ (Selective => ~intruder) =>
          /\ \A v \in op.done, f \in Asked : Back(v, f)
          /\ op.outcome = "success" => \A v \in op.want, f \in Asked : Back(v, f)
          /\ Selective /\ op.pc = "copy" =>
                /\ stage.files = Members
                /\ \A f \in (op.sel \cap Members) \ op.left : Back(op.vault, f)

Inv == TypeOK /\ Placed /\ Moded /\ Checked /\ Whole /\ Once /\ Restoring

\* A worker dies with the process.
DeadIdle == ~alive => op.pc = "idle"

\* Between two vaults nothing temporary is about but what could not be removed.
NoTemps == (alive /\ op.pc \in {"idle", "next"} /\ ~stuck) => zip = NoZip /\ stage = NoStage

-----------------------------------------------------------------------------
(* Types *)

EntryType == [kind: {"folder", "copy"}, owner: Vaults \cup {NoVault}, files: SUBSET Members]
ZipType == [state: {"none", "empty", "written", "scribbled"}, from: Vaults \cup {NoVault}]
StageType == [made: BOOLEAN, files: SUBSET Members]

LEMMA IdleType == Idle \in OpRec /\ NoZip \in ZipType /\ NoStage \in StageType
BY DecryptAssumption
DEF Idle, OpRec, Stages, Outcomes, Names, NoZip, NoStage, ZipType, StageType

\* The fields after an exception.
LEMMA FailFields ==
    ASSUME op \in OpRec, NEW o \in {"failed", "refused", "cancelled"}, Fail(o)
    PROVE  /\ op' \in OpRec
           /\ op'.pc = IF op.name = 0 THEN "clean" ELSE "unwind"
           /\ op'.todo = op.todo /\ op'.vault = op.vault /\ op'.sel = op.sel
           /\ op'.left = op.left /\ op'.name = op.name /\ op'.want = op.want
           /\ op'.made = op.made /\ op'.done = op.done /\ op'.outcome = o
BY DEF Fail, OpRec, Stages, Outcomes

\* A step of the worker that leaves the surroundings alone.
LEMMA WorkerType ==
    ASSUME TypeOK, op' \in OpRec,
           DOMAIN out' \subseteq Names, \A n \in DOMAIN out' : out'[n] \in EntryType,
           zip' \in ZipType, stage' \in StageType,
           UNCHANGED <<cancel, alive, intruder, batches>>,
           stuck' \in BOOLEAN, torn' \subseteq Names
    PROVE  TypeOK'
BY DEF TypeOK, OpRec, Stages, Outcomes, EntryType, ZipType, StageType

LEMMA Types ==
    ASSUME TypeOK
    PROVE  /\ op \in OpRec /\ zip \in ZipType /\ stage \in StageType
           /\ DOMAIN out \subseteq Names /\ \A n \in DOMAIN out : out[n] \in EntryType
           /\ stuck \in BOOLEAN /\ torn \subseteq Names
BY DEF TypeOK, OpRec, Stages, Outcomes, EntryType, ZipType, StageType

\* What a wipe leaves.
LEMMA WipeTempsFacts ==
    ASSUME zip \in ZipType, stage \in StageType, stuck \in BOOLEAN, WipeTemps
    PROVE  /\ zip' \in ZipType /\ stage' \in StageType /\ stuck' \in BOOLEAN
           /\ ~stuck' => zip' = NoZip /\ stage' = NoStage
BY IdleType DEF WipeTemps, Rests, StageType

\* A new entry, under a name that was free.
LEMMA PutFacts ==
    ASSUME NEW n, n \notin DOMAIN out, NEW e, out' = Put(n, e)
    PROVE  /\ DOMAIN out' = DOMAIN out \cup {n} /\ out'[n] = e
           /\ \A m \in DOMAIN out : out'[m] = out[m]
BY DEF Put

-----------------------------------------------------------------------------
(* Safety *)

\* After an exception, whatever the stage, and whatever new entry a copy that
\* failed has left.
LEMMA FailKeeps ==
    ASSUME Inv, TypeOK',
           op.pc \in {"auth", "stream", "tag", "name", "mkdir", "extract", "stage", "copy"},
           NEW o \in {"failed", "refused", "cancelled"}, Fail(o), UNCHANGED intruder,
           \A n \in DOMAIN out : n \in DOMAIN out' /\ out'[n] = out[n],
           \A n \in DOMAIN out' \ DOMAIN out :
              op.pc = "copy" /\ out'[n].owner = op.vault /\ out'[n].kind = "copy",
           UNCHANGED torn
    PROVE  Inv'
<1> USE DEF Selective
<1>1. /\ op'.pc = IF op.name = 0 THEN "clean" ELSE "unwind"
      /\ op'.todo = op.todo /\ op'.vault = op.vault /\ op'.sel = op.sel
      /\ op'.left = op.left /\ op'.name = op.name /\ op'.want = op.want
      /\ op'.made = op.made /\ op'.done = op.done /\ op'.outcome = o
  BY Types, FailFields DEF Inv
<1>2. op.pc \in {"mkdir", "extract"} \/ op.name = 0
  BY DEF Inv, Placed
<1>3. Placed' /\ Moded' /\ Once'
  BY <1>1, <1>2 DEF Inv, Placed, Moded, Once
<1>4. Checked'
  BY <1>1, <1>2 DEF Inv, Checked
<1>5. Whole'
  BY <1>1, <1>2 DEF Inv, Placed, Moded, Whole, Pending
<1>6. \A v, f : Back(v, f) => Back(v, f)'
  BY <1>1 DEF Back
<1>7. Restoring'
  BY <1>1, <1>2, <1>6 DEF Inv, Restoring, Asked
<1> QED
  BY <1>3, <1>4, <1>5, <1>7 DEF Inv

LEMMA NextVaultKeeps ==
    ASSUME Inv, NEW v \in op.todo, NextVault(v)
    PROVE  Inv'
<1> USE DEF Selective
<1>0. /\ op \in OpRec /\ v \in Vaults /\ op.pc = "next"
      /\ UNCHANGED <<out, stage, cancel, alive, intruder, batches, stuck, torn>>
      /\ zip' = [state |-> "empty", from |-> v]
  BY Types DEF NextVault, Inv, OpRec
<1>1. /\ op' \in OpRec /\ op'.pc = "auth" /\ op'.name = 0 /\ op'.vault = v
      /\ op'.todo = op.todo \ {v} /\ op'.sel = op.sel /\ op'.want = op.want
      /\ op'.made = op.made /\ op'.done = op.done /\ op'.outcome = op.outcome
  BY <1>0 DEF NextVault, OpRec, Stages
<1>2. TypeOK'
  BY <1>0, <1>1, Types, WorkerType DEF Inv, ZipType
<1>3. Placed' /\ Moded' /\ Checked'
  BY <1>0, <1>1 DEF Inv, Placed, Moded, Checked
<1>4. Whole' /\ Once'
  BY <1>0, <1>1 DEF Inv, Whole, Pending, Once
<1>5. op.outcome # "success"
  BY <1>0 DEF Inv, Restoring
<1>6. Restoring'
  BY <1>0, <1>1, <1>5 DEF Inv, Restoring, Back, Asked
<1> QED
  BY <1>2, <1>3, <1>4, <1>6 DEF Inv

LEMMA EndBatchKeeps ==
    ASSUME Inv, EndBatch
    PROVE  Inv'
<1> USE DEF Selective
<1>0. /\ op \in OpRec /\ op.pc = "next"
      /\ UNCHANGED <<out, zip, stage, cancel, alive, intruder, batches, stuck, torn>>
  BY Types DEF EndBatch, Inv
<1>1. PICK o \in Outcomes : Finish(o) /\ (o = "success" => op.done = op.want)
  <2>1. op.outcome \in Outcomes /\ op.outcome # "success"
    BY <1>0 DEF OpRec, Inv, Restoring
  <2> QED
    BY <2>1 DEF EndBatch, Outcomes
<1>2. /\ op' \in OpRec /\ op'.pc = "idle" /\ op'.name = 0 /\ op'.todo = {} /\ op'.done = {}
      /\ op'.sel = op.sel /\ op'.want = op.want /\ op'.made = op.made /\ op'.outcome = o
  BY <1>0, <1>1, IdleType DEF Finish, OpRec, Idle
<1>3. TypeOK'
  BY <1>0, <1>2, Types, WorkerType DEF Inv
<1>4. Placed' /\ Moded' /\ Checked' /\ Whole' /\ Once'
  BY <1>0, <1>2 DEF Inv, Placed, Moded, Checked, Whole, Pending, Once
<1>5. Restoring'
  BY <1>0, <1>1, <1>2 DEF Inv, Restoring, Back, Asked
<1> QED
  BY <1>3, <1>4, <1>5 DEF Inv

\* The stages of reading the vault: they change pc and the zip only.
LEMMA ReadKeeps ==
    ASSUME Inv, Unseal \/ Stream \/ CheckTag
    PROVE  Inv'
<1> USE DEF Selective
<1>0. /\ op \in OpRec /\ op.pc \in {"auth", "stream", "tag"}
      /\ op.vault \in Vaults /\ Condition[op.vault] \in {"good", "locked", "damaged"}
      /\ UNCHANGED <<out, stage, cancel, alive, intruder, batches, stuck, torn>>
  BY DecryptAssumption, Types DEF Unseal, Stream, CheckTag, Inv, Checked
<1>z. zip' \in ZipType
  BY <1>0, Types DEF Unseal, Stream, CheckTag, Inv, ZipType
<1>1. CASE \E o \in {"failed", "refused", "cancelled"} : Fail(o)
  <2>1. TypeOK'
    BY <1>0, <1>z, <1>1, FailFields, Types, WorkerType DEF Inv
  <2> QED
    BY <1>0, <1>1, <2>1, FailKeeps
<1>2. CASE ~ \E o \in {"failed", "refused", "cancelled"} : Fail(o)
  <2>1. PICK p \in {"stream", "tag", "stage", "name"} :
           /\ op' = [op EXCEPT !.pc = p]
           /\ p \in {"stream", "tag"} => Condition[op.vault] # "locked"
           /\ p \in {"stage", "name"} => Condition[op.vault] = "good"
           /\ p = "stage" => Selective
           /\ p = "name" => ~Selective
    BY <1>0, <1>2 DEF Unseal, Stream, CheckTag, Inv, Checked
  <2>2. /\ op' \in OpRec /\ op'.pc = p
        /\ op'.todo = op.todo /\ op'.vault = op.vault /\ op'.sel = op.sel
        /\ op'.left = op.left /\ op'.name = op.name /\ op'.want = op.want
        /\ op'.made = op.made /\ op'.done = op.done /\ op'.outcome = op.outcome
    BY <1>0, <2>1 DEF OpRec, Stages
  <2>3. TypeOK'
    BY <1>0, <1>z, <2>2, Types, WorkerType DEF Inv
  <2>4. Placed' /\ Moded' /\ Checked' /\ Once'
    BY <1>0, <2>1, <2>2 DEF Inv, Placed, Moded, Checked, Once
  <2>5. Whole' /\ Restoring'
    BY <1>0, <2>1, <2>2 DEF Inv, Whole, Pending, Restoring, Back, Asked
  <2> QED
    BY <2>3, <2>4, <2>5 DEF Inv
<1> QED
  BY <1>1, <1>2

LEMMA ChooseNameKeeps ==
    ASSUME Inv, ChooseName
    PROVE  Inv'
<1> USE DEF Selective
<1>0. /\ op \in OpRec /\ op.pc = "name"
      /\ UNCHANGED <<out, zip, stage, cancel, alive, intruder, batches, stuck, torn>>
  BY Types DEF ChooseName, Inv
<1>1. CASE Fail("failed")
  <2>1. TypeOK'
    BY <1>0, <1>1, FailFields, Types, WorkerType DEF Inv
  <2> QED
    BY <1>0, <1>1, <2>1, FailKeeps
<1>2. CASE ~Fail("failed")
  <2>1. PICK n \in Names : /\ n \notin DOMAIN out
                           /\ op' = [op EXCEPT !.pc = "mkdir", !.name = n, !.left = Members]
    BY <1>2 DEF ChooseName, FirstFree, IsFree
  <2>n. n # 0
    BY DecryptAssumption DEF Names
  <2>2. /\ op' \in OpRec /\ op'.pc = "mkdir" /\ op'.name = n /\ op'.left = Members
        /\ op'.todo = op.todo /\ op'.vault = op.vault /\ op'.sel = op.sel
        /\ op'.want = op.want
        /\ op'.made = op.made /\ op'.done = op.done /\ op'.outcome = op.outcome
    BY <1>0, <2>1 DEF OpRec, Stages, Listed
  <2>3. TypeOK'
    BY <1>0, <2>2, Types, WorkerType DEF Inv
  <2>4. Placed' /\ Moded' /\ Checked' /\ Once'
    BY <1>0, <2>n, <2>1, <2>2 DEF Inv, Placed, Moded, Checked, Once
  <2>5. Whole' /\ Restoring'
    BY <1>0, <2>2 DEF Inv, Whole, Pending, Restoring, Back, Asked
  <2> QED
    BY <2>3, <2>4, <2>5 DEF Inv
<1> QED
  BY <1>1, <1>2

LEMMA MakeFolderKeeps ==
    ASSUME Inv, MakeFolder
    PROVE  Inv'
<1> USE DEF Selective
<1>0. /\ op \in OpRec /\ op.pc = "mkdir" /\ op.name \in Names /\ op.name \notin DOMAIN out
      /\ op.vault \in Vaults
      /\ UNCHANGED <<zip, stage, cancel, alive, intruder, batches, stuck, torn>>
  BY Types DEF MakeFolder, Inv, Placed, OpRec, Checked
<1>1. CASE Fail("failed") /\ UNCHANGED out
  <2>1. TypeOK'
    BY <1>0, <1>1, FailFields, Types, WorkerType DEF Inv
  <2> QED
    BY <1>0, <1>1, <2>1, FailKeeps
<1>2. CASE ~(Fail("failed") /\ UNCHANGED out)
  <2>1. /\ out' = Put(op.name, Folder(op.vault, {}))
        /\ op' = [op EXCEPT !.pc = "extract", !.made = @ \cup {op.name}]
    BY <1>2 DEF MakeFolder
  <2>2. /\ op' \in OpRec /\ op'.pc = "extract" /\ op'.made = op.made \cup {op.name}
        /\ op'.left = op.left /\ op'.name = op.name
        /\ op'.todo = op.todo /\ op'.vault = op.vault /\ op'.sel = op.sel
        /\ op'.want = op.want /\ op'.done = op.done /\ op'.outcome = op.outcome
    BY <1>0, <2>1 DEF OpRec, Stages
  <2>3. /\ DOMAIN out' = DOMAIN out \cup {op.name} /\ out'[op.name] = Folder(op.vault, {})
        /\ \A m \in DOMAIN out : out'[m] = out[m]
        /\ Folder(op.vault, {}) \in EntryType
    BY <1>0, <2>1, PutFacts DEF Folder, EntryType
  <2>4. TypeOK'
    BY <1>0, <2>2, <2>3, Types, WorkerType DEF Inv
  <2>5. Placed' /\ Moded' /\ Checked' /\ Once'
    BY <1>0, <2>2, <2>3 DEF Inv, Placed, Moded, Checked, Once, Folder
  <2>6. Whole'
    BY <1>0, <2>2, <2>3 DEF Inv, Whole, Pending, Folder
  <2>7. \A v, f : Back(v, f) => Back(v, f)'
    BY <1>0, <2>2, <2>3 DEF Back
  <2>8. Restoring'
    BY <1>0, <2>2, <2>7 DEF Inv, Restoring, Asked
  <2> QED
    BY <2>4, <2>5, <2>6, <2>8 DEF Inv
<1> QED
  BY <1>1, <1>2

LEMMA ExtractOneKeeps ==
    ASSUME Inv, NEW m \in op.left, ExtractOne(m)
    PROVE  Inv'
<1> USE DEF Selective
<1>0. /\ op \in OpRec /\ op.pc = "extract" /\ op.name \in op.made \cap DOMAIN out
      /\ m \in Members
      /\ UNCHANGED <<zip, stage, cancel, alive, intruder, batches, stuck, torn>>
  BY Types DEF ExtractOne, Inv, Placed, Whole
<1>1. CASE UNCHANGED out /\ \E o \in {"failed", "cancelled"} : Fail(o)
  <2>1. TypeOK'
    BY <1>0, <1>1, FailFields, Types, WorkerType DEF Inv
  <2> QED
    BY <1>0, <1>1, <2>1, FailKeeps
<1>2. CASE ~(UNCHANGED out /\ \E o \in {"failed", "cancelled"} : Fail(o))
  <2>1. /\ out' = [out EXCEPT ![op.name].files = @ \cup {m}]
        /\ op' = [op EXCEPT !.left = @ \ {m}]
    BY <1>2 DEF ExtractOne
  <2>2. /\ op' \in OpRec /\ op'.pc = "extract" /\ op'.left = op.left \ {m}
        /\ op'.made = op.made /\ op'.name = op.name
        /\ op'.todo = op.todo /\ op'.vault = op.vault /\ op'.sel = op.sel
        /\ op'.want = op.want /\ op'.done = op.done /\ op'.outcome = op.outcome
    BY <1>0, <2>1 DEF OpRec
  <2>3. /\ DOMAIN out' = DOMAIN out
        /\ \A n \in DOMAIN out : n # op.name => out'[n] = out[n]
        /\ out'[op.name].files = out[op.name].files \cup {m}
        /\ out'[op.name].owner = out[op.name].owner
        /\ out'[op.name].kind = out[op.name].kind
        /\ \A n \in DOMAIN out' : out'[n] \in EntryType
    BY <1>0, <2>1, Types DEF Inv, EntryType
  <2>4. TypeOK'
    BY <1>0, <2>2, <2>3, Types, WorkerType DEF Inv
  <2>5. Placed' /\ Moded' /\ Once'
    BY <1>0, <2>2, <2>3 DEF Inv, Placed, Moded, Once
  <2>6. Checked'
    BY <1>0, <2>2, <2>3 DEF Inv, Checked
  <2>7. Whole'
    BY <1>0, <2>2, <2>3 DEF Inv, Whole, Pending
  <2>8. \A v, f : Back(v, f) => Back(v, f)'
    BY <1>0, <2>2, <2>3 DEF Back
  <2>9. Restoring'
    BY <1>0, <2>2, <2>8 DEF Inv, Restoring, Asked
  <2> QED
    BY <2>4, <2>5, <2>6, <2>7, <2>9 DEF Inv
<1> QED
  BY <1>1, <1>2

LEMMA RestoredKeeps ==
    ASSUME Inv, Restored
    PROVE  Inv'
<1> USE DEF Selective
<1>0. /\ op \in OpRec /\ op.pc = "extract" /\ op.name \in op.made \cap DOMAIN out
      /\ op.left = {} /\ ~Selective
      /\ UNCHANGED <<out, zip, stage, cancel, alive, intruder, batches, stuck, torn>>
  BY Types DEF Restored, Inv, Placed, Moded
<1>1. CASE Fail("failed")
  <2>1. TypeOK'
    BY <1>0, <1>1, FailFields, Types, WorkerType DEF Inv
  <2> QED
    BY <1>0, <1>1, <2>1, FailKeeps
<1>2. CASE ~Fail("failed")
  <2>1. op' = [op EXCEPT !.pc = "clean", !.done = @ \cup {op.vault}, !.name = 0]
    BY <1>2 DEF Restored
  <2>v. op.vault \in Vaults
    BY <1>0 DEF Inv, Checked
  <2>2. /\ op' \in OpRec /\ op'.pc = "clean" /\ op'.left = op.left /\ op'.name = 0
        /\ op'.made = op.made /\ op'.done = op.done \cup {op.vault}
        /\ op'.todo = op.todo /\ op'.vault = op.vault /\ op'.sel = op.sel
        /\ op'.want = op.want /\ op'.outcome = op.outcome
    BY <1>0, <2>1, <2>v DEF OpRec, Stages
  <2>3. TypeOK'
    BY <1>0, <2>2, Types, WorkerType DEF Inv
  <2>4. Placed' /\ Moded' /\ Checked' /\ Once'
    BY <1>0, <2>v, <2>2 DEF Inv, Placed, Moded, Checked, Once
  <2>5. /\ out[op.name].files = Members /\ out[op.name].owner = op.vault
        /\ out[op.name] \in EntryType
    BY <1>0, Types DEF Inv, Whole, EntryType
  <2>6. Whole'
    BY <1>0, <2>2, <2>5 DEF Inv, Whole, Pending
  <2>7. \A f \in Members : Back(op.vault, f)
    BY <1>0, <2>5 DEF Back
  <2>8. \A v, f : Back(v, f) => Back(v, f)'
    BY <1>0, <2>2 DEF Back
  <2>9. Restoring'
    BY <1>0, <2>2, <2>7, <2>8 DEF Inv, Restoring, Asked
  <2> QED
    BY <2>3, <2>4, <2>6, <2>9 DEF Inv
<1> QED
  BY <1>1, <1>2

\* What is wiped belongs to the vault that failed, and to no vault that is done.
LEMMA UnwindKeeps ==
    ASSUME Inv, Unwind
    PROVE  Inv'
<1> USE DEF Selective
<1>0. /\ op \in OpRec /\ op.pc = "unwind" /\ ~Selective
      /\ UNCHANGED <<zip, stage, cancel, alive, intruder, batches, stuck>>
  BY Types DEF Unwind, Inv, Moded
<1>1. /\ op' \in OpRec /\ op'.pc = "clean"
      /\ op'.todo = op.todo /\ op'.vault = op.vault /\ op'.sel = op.sel
      /\ op'.left = op.left /\ op'.name = op.name /\ op'.want = op.want
      /\ op'.made = op.made /\ op'.done = op.done /\ op'.outcome = op.outcome
  BY <1>0 DEF Unwind, OpRec, Stages
<1>2. /\ DOMAIN out' \subseteq DOMAIN out
      /\ \A n \in DOMAIN out : n # op.name => n \in DOMAIN out' /\ out'[n] = out[n]
      /\ op.name \in DOMAIN out' => /\ out'[op.name] \in EntryType
                                   /\ out'[op.name].owner = out[op.name].owner
                                   /\ op.name \in torn'
      /\ torn \subseteq torn' /\ torn' \subseteq torn \cup (DOMAIN out)
  <2>1. CASE out' = Without(op.name) /\ UNCHANGED torn
    BY <2>1 DEF Without
  <2>2. CASE ~(out' = Without(op.name) /\ UNCHANGED torn)
    <3>1. PICK rest \in SUBSET out[op.name].files : out' = [out EXCEPT ![op.name].files = rest]
      BY <2>2 DEF Unwind
    <3>2. op.name \in DOMAIN out /\ torn' = torn \cup {op.name}
      BY <2>2 DEF Unwind
    <3>3. out[op.name] \in EntryType
      BY <3>2, Types DEF Inv
    <3> QED
      BY <3>1, <3>2, <3>3 DEF EntryType
  <2> QED
    BY <2>1, <2>2
<1>3. TypeOK'
  BY <1>0, <1>1, <1>2, Types, WorkerType DEF Inv
<1>4. Placed' /\ Moded' /\ Checked' /\ Once'
  BY <1>0, <1>1, <1>2 DEF Inv, Placed, Moded, Checked, Once
<1>5. Whole'
  BY <1>0, <1>1, <1>2 DEF Inv, Whole, Pending
<1>6. ASSUME NEW v \in op.done, NEW f, Back(v, f) PROVE Back(v, f)'
  <2>1. PICK n \in op.made \cap DOMAIN out : out[n].owner = v /\ f \in out[n].files
    BY <1>6 DEF Back
  <2>2. n # op.name
    BY <1>0, <2>1 DEF Inv, Whole, Once
  <2> QED
    BY <1>1, <1>2, <2>1, <2>2 DEF Back
<1>7. Restoring'
  BY <1>0, <1>1, <1>6 DEF Inv, Restoring, Asked
<1> QED
  BY <1>3, <1>4, <1>5, <1>7 DEF Inv

LEMMA UnpackKeeps ==
    ASSUME Inv, Unpack
    PROVE  Inv'
<1> USE DEF Selective
<1>0. /\ op \in OpRec /\ op.pc = "stage" /\ Selective
      /\ UNCHANGED <<out, zip, cancel, alive, intruder, batches, stuck, torn>>
  BY Types DEF Unpack, Inv, Moded
<1>1. PICK got \in SUBSET Members :
          /\ stage' = [made |-> TRUE, files |-> got]
          /\ \/ \E o \in {"failed", "cancelled"} : Fail(o)
             \/ got = Members /\ op' = [op EXCEPT !.pc = "copy", !.left = op.sel]
  BY DEF Unpack
<1>s. stage' \in StageType
  BY <1>1 DEF StageType
<1>2. CASE \E o \in {"failed", "cancelled"} : Fail(o)
  <2>1. TypeOK'
    BY <1>0, <1>s, <1>2, FailFields, Types, WorkerType DEF Inv
  <2> QED
    BY <1>0, <1>2, <2>1, FailKeeps
<1>3. CASE got = Members /\ op' = [op EXCEPT !.pc = "copy", !.left = op.sel]
  <2>2. /\ op' \in OpRec /\ op'.pc = "copy" /\ op'.left = op.sel /\ op'.name = op.name
        /\ op'.todo = op.todo /\ op'.vault = op.vault /\ op'.sel = op.sel
        /\ op'.want = op.want
        /\ op'.made = op.made /\ op'.done = op.done /\ op'.outcome = op.outcome
    BY <1>0, <1>3 DEF OpRec, Stages
  <2>3. TypeOK'
    BY <1>0, <1>s, <2>2, Types, WorkerType DEF Inv
  <2>4. Placed' /\ Moded' /\ Checked' /\ Once'
    BY <1>0, <2>2 DEF Inv, Placed, Moded, Checked, Once
  <2>5. Whole'
    BY <1>0, <2>2 DEF Inv, Whole, Pending
  <2>6. \A v, f : Back(v, f) => Back(v, f)'
    BY <1>0, <2>2 DEF Back
  <2>7. stage'.files = Members
    BY <1>1, <1>3
  <2>8. Restoring'
    BY <1>0, <2>2, <2>6, <2>7 DEF Inv, Restoring, Asked
  <2> QED
    BY <2>3, <2>4, <2>5, <2>8 DEF Inv
<1> QED
  BY <1>1, <1>2, <1>3

LEMMA CopyOneKeeps ==
    ASSUME Inv, NEW m \in op.left, CopyOne(m)
    PROVE  Inv'
<1> USE DEF Selective
<1>0. /\ op \in OpRec /\ op.pc = "copy" /\ Selective /\ op.vault \in Vaults /\ m \in Listed
      /\ Condition[op.vault] = "good" /\ op.name = 0
      /\ UNCHANGED <<zip, stage, cancel, alive, intruder, batches, stuck, torn>>
  BY Types DEF CopyOne, Inv, Moded, Checked, Placed, OpRec
<1>e. \A S \in SUBSET Members : /\ Copy(op.vault, S) \in EntryType
                                /\ Copy(op.vault, S).owner = op.vault
                                /\ Copy(op.vault, S).kind = "copy"
                                /\ Copy(op.vault, S).files = S
  BY <1>0 DEF Copy, EntryType
<1>1. CASE Fail("failed") /\ UNCHANGED out
  <2>1. TypeOK'
    BY <1>0, <1>1, FailFields, Types, WorkerType DEF Inv
  <2> QED
    BY <1>0, <1>1, <2>1, FailKeeps
<1>2. ASSUME NEW n \in Names, n \notin DOMAIN out, out' = Put(n, Copy(op.vault, {})), Fail("failed")
      PROVE  Inv'
  <2>1. /\ DOMAIN out' = DOMAIN out \cup {n} /\ out'[n] = Copy(op.vault, {})
        /\ \A k \in DOMAIN out : out'[k] = out[k]
    BY <1>2, PutFacts
  <2>2. TypeOK'
    BY <1>0, <1>e, <1>2, <2>1, FailFields, Types, WorkerType DEF Inv
  <2> QED
    BY <1>0, <1>e, <1>2, <2>1, <2>2, FailKeeps
<1>3. ASSUME NEW n \in Names, n \notin DOMAIN out, out' = Put(n, Copy(op.vault, {m})),
             op' = [op EXCEPT !.left = @ \ {m}, !.made = @ \cup {n}], m \in stage.files
      PROVE  Inv'
  <2>1. /\ DOMAIN out' = DOMAIN out \cup {n} /\ out'[n] = Copy(op.vault, {m})
        /\ \A k \in DOMAIN out : out'[k] = out[k]
    BY <1>3, PutFacts
  <2>m. {m} \in SUBSET Members
    BY <1>3, Types DEF Inv, StageType
  <2>2. /\ op' \in OpRec /\ op'.pc = "copy" /\ op'.left = op.left \ {m} /\ op'.name = op.name
        /\ op'.todo = op.todo /\ op'.vault = op.vault /\ op'.sel = op.sel
        /\ op'.want = op.want
        /\ op'.made = op.made \cup {n} /\ op'.done = op.done /\ op'.outcome = op.outcome
    BY <1>0, <1>3 DEF OpRec
  <2>3. TypeOK'
    BY <1>0, <1>e, <2>1, <2>2, <2>m, Types, WorkerType DEF Inv
  <2>4. Placed' /\ Moded' /\ Once'
    BY <1>0, <2>2 DEF Inv, Placed, Moded, Once
  <2>5. Checked'
    BY <1>0, <1>e, <2>1, <2>2, <2>m DEF Inv, Checked
  <2>6. Whole'
    BY <1>0, <1>e, <2>1, <2>2, <2>m DEF Inv, Whole, Pending
  <2>6a. \A v, f : Back(v, f) => Back(v, f)'
    BY <2>1, <2>2 DEF Back
  <2>6b. out'[n].owner = op.vault /\ m \in out'[n].files /\ n \in op'.made \cap DOMAIN out'
    <3>1. out'[n].owner = op.vault /\ out'[n].files = {m}
      BY <2>m, <1>e, <2>1
    <3> QED
      BY <3>1, <2>1, <2>2
  <2>7. Back(op.vault, m)'
    BY <2>2, <2>6b DEF Back
  <2>8. Restoring'
    BY <1>0, <2>2, <2>6a, <2>7 DEF Inv, Restoring, Asked
  <2> QED
    BY <2>3, <2>4, <2>5, <2>6, <2>8 DEF Inv
<1>4. CASE m \notin stage.files /\ op' = [op EXCEPT !.left = @ \ {m}] /\ UNCHANGED out
  <2>2. /\ op' \in OpRec /\ op'.pc = "copy" /\ op'.left = op.left \ {m} /\ op'.name = op.name
        /\ op'.todo = op.todo /\ op'.vault = op.vault /\ op'.sel = op.sel
        /\ op'.want = op.want
        /\ op'.made = op.made /\ op'.done = op.done /\ op'.outcome = op.outcome
    BY <1>0, <1>4 DEF OpRec
  <2>3. TypeOK'
    BY <1>0, <1>4, <2>2, Types, WorkerType DEF Inv
  <2>4. Placed' /\ Moded' /\ Checked' /\ Once'
    BY <1>0, <1>4, <2>2 DEF Inv, Placed, Moded, Checked, Once
  <2>5. Whole'
    BY <1>0, <1>4, <2>2 DEF Inv, Whole, Pending
  <2>6. intruder \/ m \notin Members
    BY <1>0, <1>4 DEF Inv, Restoring
  <2>7. \A v, f : Back(v, f)' <=> Back(v, f)
    BY <1>4, <2>2 DEF Back
  <2>8. Restoring'
    BY <1>0, <2>2, <2>6, <2>7 DEF Inv, Restoring, Asked
  <2> QED
    BY <2>3, <2>4, <2>5, <2>8 DEF Inv
<1> QED
  BY <1>1, <1>2, <1>3, <1>4 DEF CopyOne, FirstFree, IsFree

LEMMA CopiedKeeps ==
    ASSUME Inv, Copied
    PROVE  Inv'
<1> USE DEF Selective
<1>0. /\ op \in OpRec /\ op.pc = "copy" /\ Selective /\ op.vault \in Vaults /\ op.left = {}
      /\ op.name = 0
      /\ UNCHANGED <<out, zip, stage, cancel, alive, intruder, batches, stuck, torn>>
  BY Types DEF Copied, Inv, Moded, Checked, Placed
<1>1. /\ op' \in OpRec /\ op'.pc = "clean" /\ op'.left = op.left /\ op'.name = op.name
      /\ op'.todo = op.todo /\ op'.vault = op.vault /\ op'.sel = op.sel
      /\ op'.want = op.want /\ op'.outcome = op.outcome
      /\ op'.made = op.made /\ op'.done = op.done \cup {op.vault}
  BY <1>0 DEF Copied, OpRec, Stages
<1>2. TypeOK'
  BY <1>0, <1>1, Types, WorkerType DEF Inv
<1>3. Placed' /\ Moded' /\ Checked' /\ Once' /\ Whole'
  BY <1>0, <1>1 DEF Inv, Placed, Moded, Checked, Once, Whole, Pending
<1>4. \A v, f : Back(v, f)' <=> Back(v, f)
  BY <1>0, <1>1 DEF Back
<1>5. Restoring'
  BY <1>0, <1>1, <1>4 DEF Inv, Restoring, Asked
<1> QED
  BY <1>2, <1>3, <1>5 DEF Inv

LEMMA CleanKeeps ==
    ASSUME Inv, Clean
    PROVE  Inv'
<1> USE DEF Selective
<1>0. /\ op \in OpRec /\ op.pc = "clean"
      /\ UNCHANGED <<out, cancel, alive, intruder, batches, torn>>
      /\ zip' \in ZipType /\ stage' \in StageType /\ stuck' \in BOOLEAN
  BY Types, WipeTempsFacts DEF Clean, Inv
<1>1. /\ op' \in OpRec /\ op'.pc = "next" /\ op'.left = op.left /\ op'.name = 0
      /\ op'.todo = op.todo /\ op'.vault = op.vault /\ op'.sel = op.sel
      /\ op'.want = op.want /\ op'.outcome = op.outcome
      /\ op'.made = op.made /\ op'.done = op.done
  BY <1>0 DEF Clean, OpRec, Stages
<1>2. TypeOK'
  BY <1>0, <1>1, Types, WorkerType DEF Inv
<1>3. Placed' /\ Moded' /\ Checked' /\ Once'
  BY <1>0, <1>1 DEF Inv, Placed, Moded, Checked, Once
<1>4. Whole'
  BY <1>0, <1>1 DEF Inv, Whole, Pending
<1>5. \A v, f : Back(v, f)' <=> Back(v, f)
  BY <1>0, <1>1 DEF Back
<1>6. Restoring'
  BY <1>0, <1>1, <1>5 DEF Inv, Restoring, Asked
<1> QED
  BY <1>2, <1>3, <1>4, <1>6 DEF Inv

\* The screens start a worker.
LEMMA BeginKeeps ==
    ASSUME Inv, NEW vs \in SUBSET Vaults, NEW sel \in SUBSET Listed,
           Begin([Idle EXCEPT !.pc = "next", !.todo = vs, !.want = vs, !.sel = sel])
    PROVE  Inv'
<1> USE DEF Selective
<1>1. /\ op.pc = "idle" /\ op' \in OpRec /\ op'.pc = "next" /\ op'.name = 0 /\ op'.made = {} /\ op'.done = {}
      /\ op'.outcome = "none" /\ UNCHANGED <<out, zip, stage, alive, intruder, stuck, torn>>
  BY IdleType DEF Begin, OpRec, Stages, Idle
<1>2. batches' \in 0..MaxBatches
  <2>1. batches \in 0..MaxBatches /\ batches < MaxBatches /\ batches' = batches + 1
    BY DEF Begin, Inv, TypeOK
  <2> QED
    BY <2>1, DecryptAssumption
<1>c. cancel' \in BOOLEAN
  BY DEF Begin
<1>3. TypeOK'
  BY <1>1, <1>2, <1>c DEF Inv, TypeOK, OpRec, Stages, Outcomes
<1>4. Placed' /\ Moded' /\ Checked' /\ Once' /\ Restoring'
  BY <1>1 DEF Inv, Placed, Moded, Checked, Once, Restoring
<1>5. Whole'
  BY <1>1 DEF Inv, Whole, Pending
<1> QED
  BY <1>3, <1>4, <1>5 DEF Inv

\* What happens around the worker.
LEMMA AroundKeeps ==
    ASSUME Inv, UNCHANGED <<out, op, batches, torn>>, TypeOK', intruder => intruder',
           intruder' \/ UNCHANGED stage \/ op.pc # "copy"
    PROVE  Inv'
<1> USE DEF Selective
<1>1. Placed' /\ Moded' /\ Checked' /\ Once'
  BY DEF Inv, Placed, Moded, Checked, Once
<1>2. Whole'
  BY DEF Inv, Whole, Pending
<1>3. \A v, f : Back(v, f)' <=> Back(v, f)
  BY DEF Back
<1>4. Restoring'
  BY <1>3 DEF Inv, Restoring, Asked
<1> QED
  BY <1>1, <1>2, <1>4 DEF Inv

LEMMA WorkerKeeps ==
    ASSUME Inv, WorkerStep
    PROVE  Inv'
<1>1. CASE \E v \in op.todo : NextVault(v)
  BY <1>1, NextVaultKeeps
<1>2. CASE EndBatch
  BY <1>2, EndBatchKeeps
<1>3. CASE Unseal \/ Stream \/ CheckTag
  BY <1>3, ReadKeeps
<1>4. CASE ChooseName
  BY <1>4, ChooseNameKeeps
<1>5. CASE MakeFolder
  BY <1>5, MakeFolderKeeps
<1>6. CASE \E m \in op.left : ExtractOne(m) \/ CopyOne(m)
  BY <1>6, ExtractOneKeeps, CopyOneKeeps
<1>7. CASE Restored \/ Unwind
  BY <1>7, RestoredKeeps, UnwindKeeps
<1>8. CASE Unpack
  BY <1>8, UnpackKeeps
<1>9. CASE Copied \/ Clean
  BY <1>9, CopiedKeeps, CleanKeeps
<1> QED
  BY <1>1, <1>2, <1>3, <1>4, <1>5, <1>6, <1>7, <1>8, <1>9 DEF WorkerStep

LEMMA StartKeeps ==
    ASSUME Inv,
           \/ \E vs \in SUBSET Vaults : StartDecrypt(vs)
           \/ \E v \in Vaults, sel \in SUBSET Listed : StartSelect(v, sel)
    PROVE  Inv'
<1>1. ASSUME NEW vs \in SUBSET Vaults, StartDecrypt(vs) PROVE Inv'
  <2>1. [Idle EXCEPT !.pc = "next", !.todo = vs, !.want = vs]
          = [Idle EXCEPT !.pc = "next", !.todo = vs, !.want = vs, !.sel = {}]
    <3> DEFINE r == [Idle EXCEPT !.pc = "next", !.todo = vs, !.want = vs]
    <3>1. r \in OpRec /\ r.sel = {}
      BY IdleType DEF Idle, OpRec, Stages
    <3>2. r = [r EXCEPT !.sel = {}]
      BY <3>1 DEF OpRec
    <3> QED
      BY <3>2
  <2>2. Begin([Idle EXCEPT !.pc = "next", !.todo = vs, !.want = vs, !.sel = {}])
    BY <1>1, <2>1 DEF StartDecrypt
  <2> QED
    BY <2>2, BeginKeeps
<1>2. ASSUME NEW v \in Vaults, NEW sel \in SUBSET Listed, StartSelect(v, sel) PROVE Inv'
  <2>1. Begin([Idle EXCEPT !.pc = "next", !.todo = {v}, !.want = {v}, !.sel = sel])
    BY <1>2 DEF StartSelect
  <2>2. {v} \in SUBSET Vaults
    OBVIOUS
  <2> QED
    BY <2>1, <2>2, BeginKeeps
<1> QED
  BY <1>1, <1>2

\* The process dies: what the worker knew is gone, what it wrote is not.
LEMMA CrashKeeps ==
    ASSUME Inv, Crash
    PROVE  Inv'
<1> USE DEF Selective
<1>1. /\ op' \in OpRec /\ op'.pc = "idle" /\ op'.name = 0 /\ op'.made = {} /\ op'.done = {}
      /\ op'.outcome = "none" /\ op'.sel = {}
      /\ UNCHANGED <<out, zip, stage, intruder, batches, stuck>>
      /\ alive' \in BOOLEAN /\ cancel' \in BOOLEAN
      /\ torn' = torn \cup {n \in DOMAIN out : Pending(n)}
  BY IdleType DEF Crash, Idle
<1>2. TypeOK'
  BY <1>1 DEF Inv, TypeOK, OpRec, Stages, Outcomes
<1>3. Placed' /\ Moded' /\ Checked' /\ Once' /\ Whole' /\ Restoring'
  BY <1>1 DEF Inv, Placed, Moded, Checked, Once, Whole, Pending, Restoring
<1> QED
  BY <1>2, <1>3 DEF Inv

LEMMA OthersKeep ==
    ASSUME Inv, DeadIdle,
           \/ RequestCancel \/ OtherStarts \/ OverwriteZip \/ DeleteZip \/ WipeStage \/ Restart
           \/ UNCHANGED vars
    PROVE  Inv'
<1>1. CASE RequestCancel \/ OtherStarts \/ UNCHANGED vars
  <2>1. TypeOK'
    BY <1>1 DEF RequestCancel, OtherStarts, vars, Inv, TypeOK
  <2> QED
    BY <1>1, <2>1, AroundKeeps DEF RequestCancel, OtherStarts, vars
<1>2. CASE OverwriteZip \/ DeleteZip
  <2>1. /\ zip' \in ZipType
        /\ UNCHANGED <<out, stage, op, cancel, alive, intruder, batches, stuck, torn>>
    BY <1>2, Types, IdleType DEF OverwriteZip, DeleteZip, Inv, ZipType
  <2>2. TypeOK'
    BY <2>1 DEF Inv, TypeOK, ZipType
  <2> QED
    BY <2>1, <2>2, AroundKeeps
<1>3. CASE WipeStage
  <2>1. /\ intruder /\ stage' \in StageType
        /\ UNCHANGED <<out, zip, op, cancel, alive, intruder, batches, stuck, torn>>
    BY <1>3, Types, IdleType DEF WipeStage, Inv, StageType
  <2>2. TypeOK'
    BY <2>1 DEF Inv, TypeOK, StageType
  <2> QED
    BY <2>1, <2>2, AroundKeeps
<1>4. CASE Restart
  <2>1. /\ op.pc = "idle" /\ zip' \in ZipType /\ stage' \in StageType /\ alive' = TRUE
        /\ stuck' \in BOOLEAN /\ UNCHANGED <<out, op, cancel, intruder, batches, torn>>
    BY <1>4, Types, WipeTempsFacts DEF Restart, DeadIdle, Inv
  <2>2. TypeOK'
    BY <2>1 DEF Inv, TypeOK, ZipType, StageType
  <2> QED
    BY <2>1, <2>2, AroundKeeps
<1> QED
  BY <1>1, <1>2, <1>3, <1>4

LEMMA DeadStaysIdle ==
    ASSUME DeadIdle, [Next]_vars
    PROVE  DeadIdle'
<1>1. CASE WorkerStep
  <2>1. alive /\ alive' = alive
    BY <1>1 DEF WorkerStep, NextVault, EndBatch, Unseal, Stream, CheckTag, ChooseName,
                MakeFolder, ExtractOne, CopyOne, Restored, Unwind, Unpack, Copied, Clean
  <2> QED
    BY <2>1 DEF DeadIdle
<1>2. CASE \/ \E vs \in SUBSET Vaults : StartDecrypt(vs)
           \/ \E v \in Vaults, sel \in SUBSET Listed : StartSelect(v, sel)
  <2>1. alive /\ alive' = alive
    BY <1>2, Zenon DEF StartDecrypt, StartSelect, Begin
  <2> QED
    BY <2>1 DEF DeadIdle
<1>3. CASE Crash \/ Restart
  BY <1>3 DEF DeadIdle, Crash, Restart, Idle
<1>4. CASE \/ RequestCancel \/ OtherStarts \/ OverwriteZip \/ DeleteZip \/ WipeStage
           \/ UNCHANGED vars
  BY <1>4 DEF DeadIdle, vars, RequestCancel, OtherStarts, OverwriteZip, DeleteZip, WipeStage
<1> QED
  BY <1>1, <1>2, <1>3, <1>4 DEF Next

LEMMA Initially == Init => Inv /\ DeadIdle /\ NoTemps
<1> SUFFICES ASSUME Init PROVE Inv /\ DeadIdle /\ NoTemps
  OBVIOUS
<1> USE DEF Selective
<1>1. PICK users \in SUBSET Names : out = [n \in users |-> Folder(NoVault, Members)]
  BY DEF Init
<1>2. \A n \in DOMAIN out : out[n].owner = NoVault /\ out[n].files = Members /\ out[n] \in EntryType
  BY <1>1 DEF Folder, EntryType
<1>3. /\ op.pc = "idle" /\ op.name = 0 /\ op.made = {} /\ op.done = {} /\ op.sel = {}
      /\ op.outcome = "none" /\ alive = TRUE
  BY DEF Init, Idle
<1>b. batches \in 0..MaxBatches
  BY DecryptAssumption DEF Init
<1>4. TypeOK
  <2>1. op \in OpRec /\ zip \in ZipType /\ stage \in StageType
    BY IdleType DEF Init
  <2>2. DOMAIN out \subseteq Names
    BY <1>1
  <2> QED
    BY <1>2, <1>b, <2>1, <2>2
    DEF Init, TypeOK, OpRec, Stages, Outcomes, ZipType, StageType, EntryType
<1>5. Placed /\ Moded /\ Checked /\ Once /\ Whole /\ Restoring
  BY <1>2, <1>3 DEF Placed, Moded, Checked, Once, Whole, Pending, Restoring
<1> QED
  BY <1>3, <1>4, <1>5 DEF Inv, DeadIdle, NoTemps, Init

LEMMA Inductive ==
    ASSUME Inv, DeadIdle, [Next]_vars
    PROVE  Inv' /\ DeadIdle'
BY WorkerKeeps, StartKeeps, CrashKeeps, OthersKeep, DeadStaysIdle DEF Next

LEMMA Invariance == Spec => [](Inv /\ DeadIdle)
<1>1. Init => Inv /\ DeadIdle
  BY Initially
<1>2. (Inv /\ DeadIdle) /\ [Next]_vars => (Inv /\ DeadIdle)'
  BY Inductive
<1> QED
  BY <1>1, <1>2, PTL DEF Spec

-----------------------------------------------------------------------------
(* What follows *)

\* Every variable keeps its type, through every failure and restart.
THEOREM TypeCorrect == Spec => []TypeOK
<1>1. Inv => TypeOK
  BY DEF Inv
<1> QED
  BY <1>1, Invariance, PTL

\* Nothing of a damaged vault, or of one the password does not open, reaches
\* the output directory or is there to be copied: the tag is checked before a
\* folder is made and before a selection is unpacked.
THEOREM OnlyVerifiedComesOut == Spec => []OnlyVerified
<1>1. Inv => OnlyVerified
  BY DEF Inv, Checked, OnlyVerified
<1> QED
  BY <1>1, Invariance, PTL

\* While no operation runs, the restored folders are whole, but for what a crash
\* or a wipe that failed has left of one.
THEOREM NoHalfRestoredFolder == Spec => []WholeOrNothing
<1>1. Inv => WholeOrNothing
  BY DEF Inv, Whole, WholeOrNothing, Pending
<1> QED
  BY <1>1, Invariance, PTL

\* Success means that all that was asked for lies in the output directory; for
\* a selective extraction, if no second instance was started.
THEOREM SuccessIsHonest == Spec => []SuccessMeansRestored
<1>1. ASSUME Inv PROVE SuccessMeansRestored
  <2> SUFFICES ASSUME op.outcome = "success", Selective => ~intruder,
                      NEW v \in op.want, NEW f \in Asked
               PROVE  f \in UNION {out[n].files :
                                      n \in {n \in op.made \cap DOMAIN out : out[n].owner = v}}
    BY DEF SuccessMeansRestored, Asked
  <2>1. Back(v, f)
    BY <1>1 DEF Inv, Restoring
  <2> QED
    BY <2>1 DEF Back
<1> QED
  BY <1>1, Invariance, PTL

\* No step touches what was in the output directory before the operation or was
\* put there by an earlier one: names are chosen free, and what is wiped is the
\* folder the operation made itself.
THEOREM OthersAreKept == Spec => OthersKept
<1> DEFINE Kept == \A n \in DOMAIN out \ op.made : n \in DOMAIN out' /\ out'[n] = out[n]
<1>1. ASSUME Inv, Next PROVE Kept
  <2>1. CASE MakeFolder
    BY <1>1, <2>1, PutFacts DEF MakeFolder, Inv, Placed
  <2>2. CASE \E m \in op.left : ExtractOne(m)
    BY <1>1, <2>2 DEF ExtractOne, Inv, Placed
  <2>3. CASE \E m \in op.left : CopyOne(m)
    BY <1>1, <2>3, PutFacts DEF CopyOne, FirstFree, IsFree
  <2>4. CASE Unwind
    BY <1>1, <2>4 DEF Unwind, Without, Inv, Placed
  <2>5. CASE UNCHANGED out
    BY <2>5
  <2> QED
    BY <1>1, <2>1, <2>2, <2>3, <2>4, <2>5
    DEF Next, WorkerStep, NextVault, EndBatch, Unseal, Stream, CheckTag, ChooseName,
        Restored, Unpack, Copied, Clean, StartDecrypt, StartSelect, Begin, RequestCancel,
        OtherStarts, OverwriteZip, DeleteZip, WipeStage, Crash, Restart
<1>2. Inv /\ [Next]_vars => [Kept]_vars
  BY <1>1
<1> QED
  BY <1>2, Invariance, PTL DEF Spec, OthersKept

-----------------------------------------------------------------------------
(* Temporary plaintext *)

LEMMA TempsStayGone ==
    ASSUME Inv, NoTemps, [Next]_vars
    PROVE  NoTemps'
<1>1. CASE Clean
  BY <1>1, Types, WipeTempsFacts DEF Clean, NoTemps, Inv
<1>2. CASE Restart
  BY <1>2, Types, WipeTempsFacts DEF Restart, NoTemps, Inv
<1>3. CASE Crash
  BY <1>3 DEF Crash, NoTemps
<1>4. CASE \E v \in op.todo : NextVault(v)
  <2>1. op'.pc = "auth"
    BY <1>4, Types DEF NextVault, Inv, OpRec
  <2> QED
    BY <2>1 DEF NoTemps
<1>5. CASE EndBatch
  BY <1>5 DEF EndBatch, NoTemps
<1>6. CASE Unseal \/ Stream \/ CheckTag \/ ChooseName \/ MakeFolder \/ Restored \/ Unwind
           \/ Unpack \/ Copied \/ \E m \in op.left : ExtractOne(m) \/ CopyOne(m)
  <2>1. op \in OpRec
    BY Types DEF Inv
  <2>2. ASSUME NEW o \in {"failed", "refused", "cancelled"}, Fail(o)
        PROVE  op'.pc \notin {"idle", "next"}
    BY <2>1, <2>2, FailFields
  <2>3. op'.pc \notin {"idle", "next"}
    BY <1>6, <2>1, <2>2
    DEF Unseal, Stream, CheckTag, ChooseName, MakeFolder, Restored, Unwind, Unpack, Copied,
        ExtractOne, CopyOne, OpRec
  <2> QED
    BY <2>3 DEF NoTemps
<1>7. CASE \/ \E vs \in SUBSET Vaults : StartDecrypt(vs)
           \/ \E v \in Vaults, sel \in SUBSET Listed : StartSelect(v, sel)
  BY <1>7 DEF StartDecrypt, StartSelect, Begin, NoTemps
<1>8. CASE RequestCancel \/ OtherStarts \/ UNCHANGED vars
  BY <1>8 DEF RequestCancel, OtherStarts, vars, NoTemps
<1>9. CASE OverwriteZip \/ DeleteZip \/ WipeStage
  <2>1. zip # NoZip \/ stage # NoStage
    BY <1>9 DEF OverwriteZip, DeleteZip, WipeStage, NoZip, NoStage
  <2>2. UNCHANGED <<op, alive, stuck>>
    BY <1>9 DEF OverwriteZip, DeleteZip, WipeStage
  <2> QED
    BY <2>1, <2>2 DEF NoTemps
<1> QED
  BY <1>1, <1>2, <1>3, <1>4, <1>5, <1>6, <1>7, <1>8, <1>9 DEF Next, WorkerStep

\* No plaintext archive or folder outlives its operation, or a crash and the
\* start that follows it, but one that could not be removed.
THEOREM PlaintextAlwaysGone == Spec => []PlaintextGone
<1>1. Init => Inv /\ DeadIdle /\ NoTemps
  BY Initially
<1>2. (Inv /\ DeadIdle /\ NoTemps) /\ [Next]_vars => (Inv /\ DeadIdle /\ NoTemps)'
  BY Inductive, TempsStayGone
<1>3. NoTemps => PlaintextGone
  BY DEF NoTemps, PlaintextGone
<1> QED
  BY <1>1, <1>2, <1>3, PTL DEF Spec
=============================================================================
