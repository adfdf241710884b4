---------------------------- MODULE EncryptProofs ----------------------------
(***************************************************************************)
(* Proofs about EncryptPipeline, for every set of files and folders, every *)
(* batch and every number of names, with files added, files of other       *)
(* programs, zips that stay, a second instance and crashes at any time.    *)
(*                                                                         *)
(* Types, the zips and the names need no assumption.  That no file is lost *)
(* needs that no vault is put into a folder packed with it (~OutInside)    *)
(* and that a hidden vault's list is one folder or files only              *)
(* (~FoldersInLists); encrypt_hidden_folders shows what happens without.  *)
(***************************************************************************)
EXTENDS EncryptPipeline, TLAPS

Stages == {"idle", "next", "scan", "pack", "name", "seal", "wipe", "clean"}

Outcomes == {"none", "success", "failed", "cancelled"}

OpRec ==
    [pc: Stages, todo: SUBSET Units, unit: Units, out: Places \cup {"beside"},
     wipe: BOOLEAN, slot: Slots, list: SUBSET (Files \cup Names),
     name: Names, left: SUBSET Sources, outcome: Outcomes]

\* What is listed for packing or wiping is there.
Listed ==
    /\ op.pc \in {"pack", "wipe"} => op.list \subseteq Files \cup DOMAIN vaults
    /\ op.pc \in {"name", "seal"} => op.list = {}

\* There are zips only between the scan and the finally clause of a unit, unless
\* one could not be removed.
NoZips ==
    (alive /\ op.pc \in {"idle", "next", "scan"} /\ ~stuck) =>
        \A t \in Slots : temp[t] = NoTemp

\* The chosen name stays free but for a file another program makes: the worker
\* alone makes vaults.
NameFree ==
    (op.pc = "seal" /\ op.name \in DOMAIN vaults) => raced /\ vaults[op.name] = {}

TypeInv == TypeOK /\ Listed /\ NoZips /\ NameFree

-----------------------------------------------------------------------------
(* A unit, from the screens to the vault *)

PlacesFree(u, out) == PlacesOf(u, out) \cap (u.main \cup u.hidden) = {}

OneFolderOrFiles(l) == l \subseteq Files \/ \E s \in l : l = {s}

UnitOK(u) ==
    /\ u.main # {}
    /\ PlacesFree(u, op.out)
    /\ OneFolderOrFiles(u.main) /\ OneFolderOrFiles(u.hidden)

UnitsOK ==
    /\ \A u \in op.todo : UnitOK(u)
    /\ op.pc \notin {"idle", "next"} => UnitOK(op.unit)

\* Beside no second instance, the zips are what the worker made of them.
ZipsWhole ==
    /\ op.pc = "pack" =>
          /\ temp[op.slot].state = "writing"
          /\ op.slot = "hidden" => op.unit.hidden # {} /\ temp["main"].state = "ready"
    /\ op.pc \in {"name", "seal"} => \A t \in Zips : temp[t].state = "ready"

\* What a file or vault of the sources would bring back is in zip t.
InZip(x, t) == \A f \in Capture(x) : f \in temp[t].content

\* It is, or it is still listed for the zip that is being written.
Coming(x, t) ==
    \A f \in Capture(x) : f \in temp[t].content \/ \E y \in op.list : f \in Capture(y)

OfHidden(x) == \E s \in op.unit.hidden : x \in Objects(s)

OfMain(x) == \E s \in op.unit.main : x \in Objects(s)

\* Packing misses nothing of the sources but what came late.
Packed ==
    \A x \in (Files \cup DOMAIN vaults) \ late :
        /\ op.pc = "pack" /\ op.slot = "main" =>
              (OfMain(x) => OfHidden(x) \/ Coming(x, "main"))
        /\ op.pc = "pack" /\ op.slot = "hidden" =>
              /\ OfHidden(x) => Coming(x, "hidden")
              /\ OfMain(x) => OfHidden(x) \/ InZip(x, "main")
        /\ op.pc \in {"name", "seal"} =>
              (OfMain(x) \/ OfHidden(x) => \E t \in Zips : InZip(x, t))

\* The new vault gives back what there is of x, and is not x.
Safe(x) == (x \in Files \/ x # op.name) /\ Capture(x) \subseteq vaults[op.name]

\* What is, or may yet be, listed for wiping is in the new vault.
Saved ==
    op.pc = "wipe" =>
        /\ op.name \in DOMAIN vaults
        /\ \A s \in op.left : \A x \in Objects(s) \ late : Safe(x)
        /\ \A x \in op.list \ late : Safe(x)

\* The name lies in one of the places of the unit.
NameBeside ==
    op.pc = "seal" => op.name[1] \in PlacesOf(op.unit, op.out)

\* A crash takes the worker with it.
DeadIdle == ~alive => op.pc = "idle"

\* A wiped file is in a vault.
Kept == \A f \in Files \ late : plain[f] = "wiped" => f \in Sealed

Keep == UnitsOK /\ ZipsWhole /\ Packed /\ Saved /\ NameBeside /\ DeadIdle /\ Kept

KeepInv == TypeInv /\ (~intruder => Keep)

-----------------------------------------------------------------------------
(* Types *)

LEMMA IdleType == \A o \in Outcomes : Idle(o) \in OpRec
BY PipelineAssumption
DEF Idle, OpRec, Stages, Outcomes, Units, NoUnit, Slots, Names, Places

LEMMA FailType ==
    ASSUME op \in OpRec, NEW o \in {"failed", "cancelled"}, Fail(o)
    PROVE  op' \in OpRec /\ op'.pc = "clean"
BY DEF Fail, OpRec, Stages, Outcomes

LEMMA ObjectsType ==
    ASSUME TypeOK, NEW s \in Sources
    PROVE  Objects(s) \subseteq Files \cup DOMAIN vaults
BY DEF Objects, Intact, Sources

LEMMA AllObjectsFact == \A S, x : x \in AllObjects(S) <=> \E s \in S : x \in Objects(s)
BY DEF AllObjects

LEMMA PackListType ==
    ASSUME TypeOK, NEW srcs \in SUBSET Sources, NEW exclude \in SUBSET Sources
    PROVE  PackList(srcs, exclude) \subseteq Files \cup DOMAIN vaults
<1>1. \A s \in srcs : Objects(s) \subseteq Files \cup DOMAIN vaults
  BY ObjectsType
<1>2. Intact \subseteq Files
  BY DEF Intact
<1> QED
  BY <1>1, <1>2, AllObjectsFact DEF PackList

LEMMA CaptureType ==
    ASSUME TypeOK, NEW x \in Files \cup DOMAIN vaults
    PROVE  Capture(x) \subseteq Files
BY DEF TypeOK, Capture

LEMMA TempTypes ==
    /\ NoTemp \in [state: {"none", "writing", "ready", "scribbled"}, content: SUBSET Files]
    /\ NewTemp \in [state: {"none", "writing", "ready", "scribbled"}, content: SUBSET Files]
BY DEF NoTemp, NewTemp

LEMMA WipeTempsType ==
    ASSUME TypeOK, WipeTemps
    PROVE  /\ temp' \in [Slots -> [state: {"none", "writing", "ready", "scribbled"},
                                   content: SUBSET Files]]
           /\ stuck' \in BOOLEAN /\ mishaps' \in 0..MaxMishaps
           /\ ~stuck' => \A t \in Slots : temp'[t] = NoTemp
<1>0. /\ temp \in [Slots -> [state: {"none", "writing", "ready", "scribbled"},
                             content: SUBSET Files]]
      /\ stuck \in BOOLEAN /\ mishaps \in 0..MaxMishaps
  BY DEF TypeOK
<1>1. \A rest : Remaining(rest) \in [Slots -> [state: {"none", "writing", "ready", "scribbled"},
                                               content: SUBSET Files]]
  BY <1>0, TempTypes DEF Remaining
<1>2. ASSUME temp' = Remaining({}), UNCHANGED <<stuck, mishaps>>
      PROVE  /\ temp' \in [Slots -> [state: {"none", "writing", "ready", "scribbled"},
                                    content: SUBSET Files]]
             /\ stuck' \in BOOLEAN /\ mishaps' \in 0..MaxMishaps
             /\ \A t \in Slots : temp'[t] = NoTemp
  <2>1. temp' \in [Slots -> [state: {"none", "writing", "ready", "scribbled"},
                            content: SUBSET Files]]
    BY <1>1, <1>2
  <2>2. \A t \in Slots : temp'[t] = NoTemp
    BY <1>2 DEF Remaining
  <2> QED
    BY <1>0, <1>2, <2>1, <2>2
<1>3. ASSUME NEW rest \in SUBSET About, temp' = Remaining(rest), stuck' = TRUE, Mishap
      PROVE  /\ temp' \in [Slots -> [state: {"none", "writing", "ready", "scribbled"},
                                    content: SUBSET Files]]
             /\ mishaps' \in 0..MaxMishaps
  BY <1>0, <1>1, <1>3, PipelineAssumption DEF Mishap
<1>4. CASE stuck' = TRUE /\ Mishap /\ \E rest \in SUBSET About : temp' = Remaining(rest)
  BY <1>3, <1>4
<1> QED
  BY <1>2, <1>4 DEF WipeTemps

LEMMA TypeInitially == Init => TypeInv
<1> SUFFICES ASSUME Init PROVE TypeInv
  OBVIOUS
<1>1. op \in OpRec /\ op.pc = "idle"
  BY IdleType DEF Init, Idle, Outcomes
<1>2. plain \in [Files -> {"intact", "absent", "wiped"}]
  BY DEF Init
<1>3. DOMAIN vaults = {}
  BY DEF Init
<1>4. /\ DOMAIN vaults \subseteq Names
      /\ \A n \in DOMAIN vaults : vaults[n] \subseteq Files
      /\ batches \in 0..MaxBatches /\ mishaps \in 0..MaxMishaps
  BY <1>3, PipelineAssumption DEF Init
<1>5. temp \in [Slots -> [state: {"none", "writing", "ready", "scribbled"}, content: SUBSET Files]]
  BY TempTypes DEF Init
<1>6. TypeOK
  BY <1>1, <1>2, <1>4, <1>5 DEF Init, TypeOK, OpRec, Stages, Outcomes
<1> QED
  BY <1>1, <1>6 DEF TypeInv, Listed, NoZips, NameFree, Init

\* The screens start a batch of units.
LEMMA BeginType ==
    ASSUME TypeInv, NEW units \in SUBSET Units, NEW wipe \in BOOLEAN,
           NEW out \in Places \cup {"beside"}, Begin(units, wipe, out)
    PROVE  TypeInv'
<1>1. Idle("none") \in OpRec
  BY IdleType DEF Outcomes
<1>2. op' \in OpRec /\ op'.pc = "next" /\ op.pc = "idle"
  BY <1>1 DEF Begin, OpRec, Stages, around
<1>b. batches' \in 0..MaxBatches
  BY PipelineAssumption DEF Begin, TypeInv, TypeOK, around
<1>3. TypeOK'
  BY <1>2, <1>b DEF Begin, TypeInv, TypeOK, OpRec, Stages, Outcomes, around
<1> QED
  BY <1>2, <1>3 DEF Begin, TypeInv, Listed, NoZips, NameFree, around

\* Every step of the worker.
LEMMA WorkerType ==
    ASSUME TypeInv, WorkerStep
    PROVE  TypeInv'
<1>a. op \in OpRec
  BY DEF TypeInv, TypeOK, OpRec, Stages, Outcomes
<1>b. /\ op.pc \in Stages /\ op.todo \subseteq Units /\ op.unit \in Units /\ op.slot \in Slots
      /\ op.list \subseteq Files \cup Names /\ op.left \subseteq Sources
      /\ op.unit.main \subseteq Sources /\ op.unit.hidden \subseteq Sources
  BY <1>a DEF OpRec, Units
<1>n. DOMAIN vaults \subseteq Names
  BY DEF TypeInv, TypeOK
<1>t. \A t \in Slots : /\ temp[t].state \in {"none", "writing", "ready", "scribbled"}
                       /\ temp[t].content \subseteq Files
  BY DEF TypeInv, TypeOK
<1>k. ASSUME op' \in OpRec, temp' \in [Slots -> [state: {"none", "writing", "ready", "scribbled"},
                                                  content: SUBSET Files]],
             UNCHANGED <<plain, vaults, cancel, alive, late, intruder, batches>>,
             {stuck', raced'} \subseteq BOOLEAN, mishaps' \in 0..MaxMishaps
      PROVE  TypeOK'
  BY <1>k DEF TypeInv, TypeOK, OpRec, Stages, Outcomes
<1>f. ASSUME op'.pc = "clean", TypeOK' PROVE TypeInv'
  BY <1>f DEF TypeInv, Listed, NoZips, NameFree
<1>1. ASSUME NEW u \in op.todo, NextUnit(u) PROVE TypeInv'
  <2>1. op' \in OpRec /\ op'.pc = "scan"
    BY <1>1, <1>a, <1>b DEF NextUnit, OpRec, Stages, around
  <2>2. TypeOK'
    BY <1>1, <1>k, <2>1 DEF NextUnit, TypeInv, TypeOK, around
  <2> QED
    BY <1>1, <2>1, <2>2 DEF NextUnit, TypeInv, Listed, NoZips, NameFree, around
<1>2. ASSUME EndBatch PROVE TypeInv'
  <2>1. op' \in OpRec /\ op'.pc = "idle"
    <3>1. \E o \in Outcomes : op' = Idle(o)
      BY <1>2, <1>a DEF EndBatch, OpRec, Outcomes, around
    <3> QED
      BY <3>1, IdleType DEF Idle
  <2>2. TypeOK'
    BY <1>2, <1>k, <2>1 DEF EndBatch, TypeInv, TypeOK, around
  <2> QED
    BY <1>2, <2>1, <2>2 DEF EndBatch, TypeInv, Listed, NoZips, NameFree, around
<1>3. ASSUME Scan PROVE TypeInv'
  <2>1. CASE Fail("failed") /\ UNCHANGED temp
    BY <1>3, <1>a, <1>f, <1>k, <2>1, FailType DEF Scan, TypeInv, TypeOK, around
  <2>2. CASE ~(Fail("failed") /\ UNCHANGED temp)
    <3> DEFINE l == PackList(op.unit.main, op.unit.hidden)
    <3>1. l \subseteq Files \cup DOMAIN vaults
      BY <1>b, PackListType DEF TypeInv
    <3>2. op' = [op EXCEPT !.pc = "pack", !.slot = "main", !.list = l]
      BY <1>3, <2>2 DEF Scan, around
    <3> HIDE DEF l
    <3>3. op' \in OpRec /\ op'.pc = "pack" /\ op'.list = l
      BY <1>a, <1>n, <3>1, <3>2 DEF OpRec, Stages, Slots
    <3>4. TypeOK'
      BY <1>3, <1>k, <2>2, <3>3, TempTypes DEF Scan, TypeInv, TypeOK, around
    <3> QED
      BY <1>3, <3>1, <3>3, <3>4 DEF Scan, TypeInv, Listed, NoZips, NameFree, around
  <2> QED
    BY <2>1, <2>2
<1>4. ASSUME NEW x \in op.list, PackOne(x) PROVE TypeInv'
  <2>1. CASE UNCHANGED temp /\ \E o \in {"failed", "cancelled"} : Fail(o)
    BY <1>4, <1>a, <1>f, <1>k, <2>1, FailType DEF PackOne, TypeInv, TypeOK, around
  <2>2. CASE ~(UNCHANGED temp /\ \E o \in {"failed", "cancelled"} : Fail(o))
    <3>1. /\ temp' = [temp EXCEPT ![op.slot].content = @ \cup Capture(x)]
          /\ op' = [op EXCEPT !.list = @ \ {x}]
          /\ op.pc = "pack"
      BY <1>4, <2>2 DEF PackOne, around
    <3>2. op' \in OpRec /\ op'.pc = "pack" /\ op'.list = op.list \ {x}
      BY <1>a, <3>1 DEF OpRec
    <3>3. Capture(x) \subseteq Files
      BY <3>1, CaptureType DEF TypeInv, Listed
    <3>t. temp' \in [Slots -> [state: {"none", "writing", "ready", "scribbled"},
                              content: SUBSET Files]]
      BY <1>b, <1>t, <3>1, <3>3 DEF TypeInv, TypeOK
    <3>4. TypeOK'
      BY <1>4, <1>k, <3>2, <3>t, <2>2 DEF PackOne, around, TypeInv, TypeOK
    <3> QED
      BY <1>4, <3>1, <3>2, <3>4 DEF PackOne, TypeInv, Listed, NoZips, NameFree, around
  <2> QED
    BY <2>1, <2>2
<1>5. ASSUME NEW x \in op.list, WipeOne(x) PROVE TypeInv'
  <2>1. op' \in OpRec /\ (op'.pc = "clean" \/ (op'.pc = "wipe" /\ op'.list = op.list \ {x}))
    <3>1. CASE op' = [op EXCEPT !.list = @ \ {x}]
      BY <1>5, <1>a, <3>1 DEF WipeOne, OpRec, around
    <3>2. CASE Fail("failed")
      BY <1>a, <3>2, FailType
    <3> QED
      BY <1>5, <3>1, <3>2 DEF WipeOne, around
  <2>2. /\ plain' \in [Files -> {"intact", "absent", "wiped"}]
        /\ DOMAIN vaults' \subseteq DOMAIN vaults
        /\ \A n \in DOMAIN vaults' : vaults'[n] \subseteq Files
        /\ op.list \ {x} \subseteq Files \cup DOMAIN vaults'
    BY <1>5 DEF WipeOne, TypeInv, TypeOK, Listed, around
  <2>3. TypeOK'
    BY <1>5, <2>1, <2>2 DEF WipeOne, TypeInv, TypeOK, OpRec, Stages, Outcomes, around
  <2> QED
    BY <1>5, <2>1, <2>2, <2>3 DEF WipeOne, TypeInv, Listed, NoZips, NameFree, around
<1>6. ASSUME PackDone PROVE TypeInv'
  <2> DEFINE closed == [temp EXCEPT ![op.slot].state = IF @ = "writing" THEN "ready" ELSE @]
             l == PackList(op.unit.hidden, {})
  <2>1. closed \in [Slots -> [state: {"none", "writing", "ready", "scribbled"},
                              content: SUBSET Files]]
    BY <1>b, <1>t DEF TypeInv, TypeOK
  <2>2. CASE op.slot = "main" /\ op.unit.hidden # {}
    <3>1. l \subseteq Files \cup DOMAIN vaults
      BY <1>b, PackListType DEF TypeInv
    <3>2. /\ op' = [op EXCEPT !.slot = "hidden", !.list = l] /\ op.pc = "pack"
          /\ temp' = [closed EXCEPT !["hidden"] = NewTemp]
      BY <1>6, <2>2 DEF PackDone, around
    <3> HIDE DEF l, closed
    <3>3. op' \in OpRec /\ op'.pc = "pack" /\ op'.list = l
      BY <1>a, <1>n, <3>1, <3>2 DEF OpRec, Slots
    <3>4. TypeOK'
      BY <1>6, <1>k, <2>1, <3>2, <3>3, TempTypes DEF PackDone, TypeInv, TypeOK, around
    <3> QED
      BY <1>6, <3>1, <3>3, <3>4 DEF PackDone, TypeInv, Listed, NoZips, NameFree, around
  <2>3. CASE ~(op.slot = "main" /\ op.unit.hidden # {})
    <3>1. op' = [op EXCEPT !.pc = "name"] /\ temp' = closed /\ op.list = {}
      BY <1>6, <2>3 DEF PackDone, around
    <3> HIDE DEF closed
    <3>2. op' \in OpRec /\ op'.pc = "name" /\ op'.list = {}
      BY <1>a, <3>1 DEF OpRec, Stages
    <3>3. TypeOK'
      BY <1>6, <1>k, <2>1, <3>1, <3>2 DEF PackDone, TypeInv, TypeOK, around
    <3> QED
      BY <1>6, <3>2, <3>3 DEF PackDone, TypeInv, Listed, NoZips, NameFree, around
  <2> QED
    BY <2>2, <2>3
<1>7. ASSUME NEW p \in Places, ChooseName(p) PROVE TypeInv'
  <2>1. CASE Fail("failed")
    BY <1>7, <1>a, <1>f, <1>k, <2>1, FailType DEF ChooseName, TypeInv, TypeOK, around
  <2>2. CASE ~Fail("failed")
    <3>1. PICK i \in 1..Copies : /\ IsFree(<<p, i>>)
                                 /\ op' = [op EXCEPT !.pc = "seal", !.name = <<p, i>>]
      BY <1>7, <2>2 DEF ChooseName, around
    <3>2. op' \in OpRec /\ op'.pc = "seal" /\ op'.name = <<p, i>> /\ op'.list = op.list
      BY <1>a, <3>1 DEF OpRec, Stages, Names
    <3>3. TypeOK'
      BY <1>7, <1>k, <3>2 DEF ChooseName, TypeInv, TypeOK, around
    <3> QED
      BY <1>7, <3>1, <3>2, <3>3 DEF ChooseName, IsFree, TypeInv, Listed, NoZips, NameFree, around
  <2> QED
    BY <2>1, <2>2
<1>8. ASSUME Seal PROVE TypeInv'
  <2>1. CASE UNCHANGED vaults /\ \E o \in {"failed", "cancelled"} : Fail(o)
    BY <1>8, <1>a, <1>f, <1>k, <2>1, FailType DEF Seal, TypeInv, TypeOK, around
  <2>2. CASE ~(UNCHANGED vaults /\ \E o \in {"failed", "cancelled"} : Fail(o))
    <3>1. Commit(op.name) /\ op.pc = "seal"
      BY <1>8, <2>2 DEF Seal, around
    <3>2. op' \in OpRec /\ op'.pc \in {"wipe", "clean"} /\ op'.list = {}
      BY <1>a, <1>b, <3>1 DEF Commit, OpRec, Stages, TypeInv, Listed
    <3>3. Sealable \subseteq Files
      BY <1>t DEF Sealable, Zips
    <3>4. /\ DOMAIN vaults' \subseteq Names
          /\ \A n \in DOMAIN vaults' : vaults'[n] \subseteq Files
      BY <1>a, <3>1, <3>3 DEF Commit, OpRec, TypeInv, TypeOK
    <3>5. TypeOK'
      BY <1>8, <3>2, <3>4 DEF Seal, TypeInv, TypeOK, OpRec, Stages, Outcomes, around
    <3> QED
      BY <1>8, <3>2, <3>5 DEF Seal, TypeInv, Listed, NoZips, NameFree, around
  <2> QED
    BY <2>1, <2>2
<1>9. ASSUME NEW s \in op.left, WipeSource(s) PROVE TypeInv'
  <2>1. Objects(s) \subseteq Files \cup DOMAIN vaults
    BY <1>b, ObjectsType DEF TypeInv
  <2>2. op' \in OpRec /\ op'.pc = "wipe" /\ op'.list = Objects(s)
    BY <1>9, <1>a, <1>n, <2>1 DEF WipeSource, OpRec, around
  <2>3. TypeOK'
    BY <1>9, <1>k, <2>2 DEF WipeSource, TypeInv, TypeOK, around
  <2> QED
    BY <1>9, <2>1, <2>2, <2>3 DEF WipeSource, TypeInv, Listed, NoZips, NameFree, around
<1>10. ASSUME WipeRefused PROVE TypeInv'
  BY <1>10, <1>a, <1>f, <1>k, FailType DEF WipeRefused, TypeInv, TypeOK, around
<1>11. ASSUME WipeDone PROVE TypeInv'
  <2>1. op' \in OpRec /\ op'.pc = "clean"
    BY <1>11, <1>a DEF WipeDone, OpRec, Stages, around
  <2> QED
    BY <1>11, <1>f, <1>k, <2>1 DEF WipeDone, TypeInv, TypeOK, around
<1>12. ASSUME Clean PROVE TypeInv'
  <2>1. op' \in OpRec /\ op'.pc \in {"idle", "next"}
    <3>1. CASE op.outcome = "cancelled"
      BY <1>12, <3>1, IdleType DEF Clean, Outcomes, Idle, around
    <3>2. CASE op.outcome # "cancelled"
      BY <1>12, <1>a, <3>2 DEF Clean, OpRec, Stages, around
    <3> QED
      BY <3>1, <3>2
  <2>2. ~stuck' => \A t \in Slots : temp'[t] = NoTemp
    BY <1>12, WipeTempsType DEF Clean, TypeInv, around
  <2>3. TypeOK'
    BY <1>12, <1>k, <2>1, WipeTempsType DEF Clean, TypeInv, TypeOK, around
  <2> QED
    BY <2>1, <2>2, <2>3 DEF TypeInv, Listed, NoZips, NameFree
<1> QED
  BY <1>1, <1>2, <1>3, <1>4, <1>5, <1>6, <1>7, <1>8, <1>9, <1>10, <1>11, <1>12 DEF WorkerStep

LEMMA TypeStep == TypeInv /\ [Next]_vars => TypeInv'
<1> SUFFICES ASSUME TypeInv, [Next]_vars PROVE TypeInv'
  OBVIOUS
<1>a. op \in OpRec
  BY DEF TypeInv, TypeOK, OpRec, Stages, Outcomes
<1>1. ASSUME WorkerStep PROVE TypeInv'
  BY <1>1, WorkerType
<1>2. ASSUME NEW srcs \in SUBSET Sources, NEW wipe \in BOOLEAN,
             NEW out \in Places \cup {"beside"}, StartNormal(srcs, wipe, out)
      PROVE  TypeInv'
  <2>1. {[main |-> {s}, hidden |-> {}] : s \in srcs} \subseteq Units
    BY DEF Units
  <2> QED
    BY <1>2, <2>1, BeginType DEF StartNormal
<1>3. ASSUME NEW main \in SUBSET Sources, NEW hidden \in SUBSET Sources, NEW wipe \in BOOLEAN,
             NEW out \in Places \cup {"beside"}, StartHidden(main, hidden, wipe, out)
      PROVE  TypeInv'
  <2>1. {[main |-> main, hidden |-> hidden]} \subseteq Units
    BY DEF Units
  <2> QED
    BY <1>3, <2>1, BeginType DEF StartHidden
<1>4. ASSUME RequestCancel \/ OtherStarts PROVE TypeInv'
  <2>1. CASE RequestCancel
    BY <2>1 DEF RequestCancel, TypeInv, TypeOK, Listed, NoZips, NameFree, around
  <2>2. CASE OtherStarts
    <3>1. mishaps' \in 0..MaxMishaps
      BY <2>2, PipelineAssumption DEF OtherStarts, Mishap, TypeInv, TypeOK, around
    <3> QED
      BY <2>2, <3>1 DEF OtherStarts, TypeInv, TypeOK, Listed, NoZips, NameFree, around
  <2> QED
    BY <1>4, <2>1, <2>2
<1>5. ASSUME NEW f \in Files, AddFile(f) PROVE TypeInv'
  BY <1>5 DEF AddFile, TypeInv, TypeOK, Listed, NoZips, NameFree, around
<1>6. ASSUME NEW t \in Slots, OverwriteTemp(t) \/ DeleteTemp(t) PROVE TypeInv'
  <2>1. temp' \in [Slots -> [state: {"none", "writing", "ready", "scribbled"},
                            content: SUBSET Files]]
    BY <1>6, TempTypes DEF OverwriteTemp, DeleteTemp, TypeInv, TypeOK, around
  <2>2. TypeOK'
    BY <1>6, <2>1 DEF OverwriteTemp, DeleteTemp, TypeInv, TypeOK, around
  <2>3. temp[t] # NoTemp
    BY <1>6 DEF OverwriteTemp, DeleteTemp, NoTemp, around
  <2>4. NoZips'
    BY <1>6, <2>3 DEF OverwriteTemp, DeleteTemp, TypeInv, NoZips, around
  <2>5. UNCHANGED <<op, vaults>> /\ Listed' /\ NameFree'
    BY <1>6 DEF OverwriteTemp, DeleteTemp, TypeInv, Listed, NameFree, around
  <2> QED
    BY <2>2, <2>4, <2>5 DEF TypeInv
<1>7. ASSUME Crash PROVE TypeInv'
  <2>1. op' \in OpRec /\ op'.pc = "idle"
    BY <1>7, IdleType DEF Crash, Outcomes, Idle, around
  <2>2. TypeOK'
    BY <1>7, <2>1 DEF Crash, TypeInv, TypeOK, OpRec, Stages, Outcomes, around
  <2> QED
    BY <1>7, <2>1, <2>2 DEF Crash, TypeInv, Listed, NoZips, NameFree, around
<1>8. ASSUME Restart PROVE TypeInv'
  <2>1. TypeOK' /\ (~stuck' => \A t \in Slots : temp'[t] = NoTemp)
    BY <1>8, WipeTempsType DEF Restart, TypeInv, TypeOK, around
  <2> QED
    BY <1>8, <2>1 DEF Restart, TypeInv, Listed, NoZips, NameFree, around
<1>9. CASE UNCHANGED vars
  BY <1>9 DEF vars, around, TypeInv, TypeOK, Listed, NoZips, NameFree
<1>10. ASSUME NEW n \in Names, StrangerMakes(n) PROVE TypeInv'
  <2>1. /\ op.pc \in {"name", "seal"} /\ n \notin DOMAIN vaults
        /\ DOMAIN vaults' = DOMAIN vaults \cup {n} /\ vaults'[n] = {}
        /\ \A m \in DOMAIN vaults : vaults'[m] = vaults[m]
        /\ op.pc = "seal" => n = op.name /\ raced'
        /\ UNCHANGED <<plain, temp, op, cancel, alive, late, intruder, stuck, batches>>
    BY <1>10 DEF StrangerMakes
  <2>2. raced' \in BOOLEAN /\ mishaps' \in 0..MaxMishaps
    BY <1>10, PipelineAssumption DEF StrangerMakes, Mishap, TypeInv, TypeOK
  <2>3. TypeOK'
    BY <2>1, <2>2 DEF TypeInv, TypeOK
  <2>4. Listed' /\ NoZips' /\ NameFree'
    BY <2>1 DEF TypeInv, Listed, NoZips, NameFree
  <2> QED
    BY <2>3, <2>4 DEF TypeInv
<1> QED
  BY <1>1, <1>2, <1>3, <1>4, <1>5, <1>6, <1>7, <1>8, <1>9, <1>10 DEF Next

LEMMA TypeInvariance == Spec => []TypeInv
BY TypeInitially, TypeStep, PTL DEF Spec

\* Every variable keeps its type.
THEOREM TypeCorrect == Spec => []TypeOK
<1>1. TypeInv => TypeOK
  BY DEF TypeInv
<1> QED
  BY <1>1, TypeInvariance, PTL

\* While no batch runs there is no plaintext zip, whatever failed, was cancelled
\* or crashed, and whatever a second instance did, but one that could be neither
\* wiped nor deleted (_wipe_temp of both zips, cleanup_orphaned_temp_files at
\* every start, which both pass over such a zip).
THEOREM TempsAlwaysGone == Spec => []TempsGone
<1>1. TypeInv => TempsGone
  BY DEF TypeInv, NoZips, TempsGone
<1> QED
  BY <1>1, TypeInvariance, PTL

\* No step puts a vault in the place of what lies there, unless another program
\* made it between the loop that looks for a free name and os.replace.
THEOREM NoVaultEverReplaced == Spec => NoVaultReplaced
<1>1. TypeInv /\ [Next]_vars =>
        [\A n \in DOMAIN vaults \cap DOMAIN vaults' :
            vaults'[n] # vaults[n] => raced /\ n = op.name]_vars
  <2> SUFFICES ASSUME TypeInv, Next, NEW n \in DOMAIN vaults \cap DOMAIN vaults',
                      vaults'[n] # vaults[n]
               PROVE  raced /\ n = op.name
    BY DEF vars
  <2>1. Seal => raced /\ n = op.name
    BY DEF Seal, Commit, TypeInv, NameFree
  <2>2. ASSUME NEW x, WipeOne(x) PROVE FALSE
    BY <2>2 DEF WipeOne
  <2>3. ASSUME NEW m, StrangerMakes(m) PROVE FALSE
    BY <2>3 DEF StrangerMakes
  <2>4. UNCHANGED vaults \/ Seal \/ (\E x : WipeOne(x)) \/ \E m : StrangerMakes(m)
    BY DEF Next, WorkerStep, NextUnit, EndBatch, Scan, PackOne, PackDone, ChooseName,
       WipeSource, WipeRefused, WipeDone, Clean, StartNormal, StartHidden, Begin,
       RequestCancel, AddFile, OtherStarts, OverwriteTemp, DeleteTemp, Crash, Restart
  <2> QED
    BY <2>1, <2>2, <2>3, <2>4
<1> QED
  BY <1>1, TypeInvariance, PTL DEF Spec, NoVaultReplaced

-----------------------------------------------------------------------------
(* Nothing lost *)

\* A list of one folder, or of files, is packed but for what the other list has.
LEMMA PackListFacts ==
    ASSUME NEW srcs \in SUBSET Sources, NEW exclude \in SUBSET Sources, OneFolderOrFiles(srcs),
           NEW s \in srcs, NEW x \in Objects(s)
    PROVE  x \in PackList(srcs, exclude) \/ \E e \in exclude : x \in Objects(e)
<1>1. CASE \E d \in Folders : srcs = {d}
  BY <1>1, AllObjectsFact DEF PackList
<1>2. CASE ~ \E d \in Folders : srcs = {d}
  <2>1. s \in Files /\ s \notin Folders
    BY <1>2, PipelineAssumption DEF OneFolderOrFiles, Sources
  <2>2. x = s /\ x \in Intact
    BY <2>1 DEF Objects
  <2>3. x \in Objects(x)
    BY <2>1, <2>2 DEF Objects
  <2>4. x \in srcs /\ PackList(srcs, exclude) = (srcs \cap Intact) \ exclude
    BY <1>2, <2>2 DEF PackList
  <2> QED
    BY <2>2, <2>3, <2>4
<1> QED
  BY <1>1, <1>2

\* Where plain files and vaults stay, so do the objects and what they hold.
LEMMA Still ==
    ASSUME UNCHANGED <<plain, vaults>>
    PROVE  /\ \A s : Objects(s)' = Objects(s)
           /\ \A x : Capture(x)' = Capture(x)
           /\ Kept /\ late \subseteq late' => Kept'
BY DEF Objects, Intact, Capture, Kept, Sealed

\* Steps after which the worker neither packs nor seals nor wipes.
LEMMA Quiet ==
    ASSUME UnitsOK', Kept', DeadIdle', op'.pc \notin {"pack", "name", "seal", "wipe"}
    PROVE  Keep'
BY DEF Keep, ZipsWhole, Packed, Saved, NameBeside

\* Steps that stay within the unit.
LEMMA SameUnit ==
    ASSUME UnitsOK, op'.out = op.out, op'.todo = op.todo, op'.unit = op.unit,
           op.pc \notin {"idle", "next"} \/ op'.pc \in {"idle", "next"}
    PROVE  UnitsOK'
BY DEF UnitsOK, UnitOK, PlacesFree, PlacesOf, OneFolderOrFiles

LEMMA FailKeeps ==
    ASSUME TypeInv, Keep, alive, UNCHANGED <<alive, late>>, Kept', op.pc \notin {"idle", "next"},
           NEW o, Fail(o)
    PROVE  Keep'
<1>1. /\ op'.pc = "clean" /\ op'.out = op.out
      /\ op'.todo = op.todo /\ op'.unit = op.unit
  BY DEF Fail, TypeInv, TypeOK
<1>2. UnitsOK'
  BY <1>1, SameUnit DEF Keep
<1> QED
  BY <1>1, <1>2, Quiet DEF DeadIdle

LEMMA ScanKeeps ==
    ASSUME TypeInv, Keep, Scan
    PROVE  Keep'
<1>0. alive /\ op.pc = "scan" /\ UNCHANGED <<plain, vaults, cancel, alive, late>>
  BY DEF Scan
<1>1. CASE Fail("failed")
  BY <1>0, <1>1, Still, FailKeeps DEF Keep
<1>2. CASE ~Fail("failed")
  <2> DEFINE l == PackList(op.unit.main, op.unit.hidden)
  <2>1. /\ op' = [op EXCEPT !.pc = "pack", !.slot = "main", !.list = l]
        /\ temp' = [temp EXCEPT !["main"] = NewTemp]
    BY <1>2 DEF Scan
  <2>2. UnitOK(op.unit) /\ op.unit \in Units
    BY <1>0 DEF Keep, UnitsOK, TypeInv, TypeOK
  <2>3. \A s \in op.unit.main : \A x \in Objects(s) : x \in l \/ OfHidden(x)
    BY <2>2, PackListFacts DEF UnitOK, OfHidden, Units
  <2> HIDE DEF l
  <2>4. /\ op'.pc = "pack" /\ op'.slot = "main" /\ op'.list = l
        /\ op'.out = op.out /\ op'.todo = op.todo /\ op'.unit = op.unit
    BY <2>1 DEF TypeInv, TypeOK
  <2>5. temp'["main"].state = "writing"
    BY <2>1 DEF NewTemp, Slots, TypeInv, TypeOK
  <2>6. Packed'
    <3> SUFFICES ASSUME NEW x, OfMain(x)' PROVE OfHidden(x)' \/ Coming(x, "main")'
      BY <2>4 DEF Packed
    <3>1. x \in l \/ OfHidden(x)
      BY <1>0, <2>3, <2>4, Still DEF OfMain
    <3>2. CASE OfHidden(x)
      BY <1>0, <2>4, <3>2, Still DEF OfHidden
    <3>3. CASE x \in l
      BY <2>4, <3>3 DEF Coming
    <3> QED
      BY <3>1, <3>2, <3>3
  <2>7. UnitsOK'
    BY <1>0, <2>4, SameUnit DEF Keep
  <2> QED
    BY <1>0, <2>4, <2>5, <2>6, <2>7, Still DEF Keep, ZipsWhole, Saved, NameBeside, DeadIdle
<1> QED
  BY <1>1, <1>2

LEMMA PackOneKeeps ==
    ASSUME TypeInv, Keep, NEW x \in op.list, PackOne(x)
    PROVE  Keep'
<1>0. alive /\ op.pc = "pack" /\ UNCHANGED <<plain, vaults, cancel, alive, late>>
  BY DEF PackOne
<1>1. CASE \E o \in {"failed", "cancelled"} : Fail(o)
  BY <1>0, <1>1, Still, FailKeeps DEF Keep
<1>2. CASE ~ \E o \in {"failed", "cancelled"} : Fail(o)
  <2>1. /\ temp' = [temp EXCEPT ![op.slot].content = @ \cup Capture(x)]
        /\ op' = [op EXCEPT !.list = @ \ {x}]
    BY <1>2 DEF PackOne
  <2>2. /\ op'.pc = "pack" /\ op'.slot = op.slot /\ op'.list = op.list \ {x}
        /\ op'.out = op.out /\ op'.todo = op.todo /\ op'.unit = op.unit
        /\ op.slot \in Slots
    BY <1>0, <2>1 DEF TypeInv, TypeOK
  <2>3. /\ \A t \in Slots : temp'[t].state = temp[t].state /\ temp[t].content \subseteq temp'[t].content
        /\ temp'[op.slot].content = temp[op.slot].content \cup Capture(x)
    BY <2>1, <2>2 DEF TypeInv, TypeOK
  <2>4. \A y : Coming(y, op.slot) => Coming(y, op.slot)'
    BY <1>0, <2>2, <2>3, Still DEF Coming
  <2>5. \A y : InZip(y, "main") => InZip(y, "main")'
    BY <1>0, <2>3, Still DEF InZip, Slots
  <2>6. \A y : (OfMain(y)' <=> OfMain(y)) /\ (OfHidden(y)' <=> OfHidden(y))
    BY <1>0, <2>2, Still DEF OfMain, OfHidden
  <2>7. Packed'
    BY <1>0, <2>2, <2>4, <2>5, <2>6 DEF Packed, Keep
  <2>8. ZipsWhole'
    BY <1>0, <2>2, <2>3 DEF ZipsWhole, Keep, Slots
  <2>9. UnitsOK'
    BY <1>0, <2>2, SameUnit DEF Keep
  <2> QED
    BY <1>0, <2>2, <2>7, <2>8, <2>9, Still DEF Keep, Saved, NameBeside, DeadIdle
<1> QED
  BY <1>1, <1>2

LEMMA PackDoneKeeps ==
    ASSUME TypeInv, Keep, PackDone
    PROVE  Keep'
<1>0. /\ alive /\ op.pc = "pack" /\ op.list = {} /\ op.slot \in Slots
      /\ UNCHANGED <<plain, vaults, cancel, alive, late>>
  BY DEF PackDone, TypeInv, TypeOK
<1>z. /\ temp[op.slot].state = "writing"
      /\ op.slot = "hidden" => op.unit.hidden # {} /\ temp["main"].state = "ready"
  BY <1>0 DEF Keep, ZipsWhole
<1>c. \A x, t : Coming(x, t) => InZip(x, t)
  BY <1>0 DEF Coming, InZip
<1>u. UnitOK(op.unit) /\ op.unit \in Units
  BY <1>0 DEF Keep, UnitsOK, TypeInv, TypeOK
<1> DEFINE closed == [temp EXCEPT ![op.slot].state = IF @ = "writing" THEN "ready" ELSE @]
<1>d. /\ closed[op.slot].state = "ready"
      /\ \A t \in Slots : /\ closed[t].content = temp[t].content
                          /\ t # op.slot => closed[t] = temp[t]
      /\ closed \in [Slots -> [state: {"none", "writing", "ready", "scribbled"},
                               content: SUBSET Files]]
  BY <1>0, <1>z DEF TypeInv, TypeOK
<1>1. CASE op.slot = "main" /\ op.unit.hidden # {}
  <2> DEFINE l == PackList(op.unit.hidden, {})
  <2>1. /\ temp' = [closed EXCEPT !["hidden"] = NewTemp]
        /\ op' = [op EXCEPT !.slot = "hidden", !.list = l]
    BY <1>1 DEF PackDone
  <2>2. \A s \in op.unit.hidden : \A x \in Objects(s) : x \in l
    BY <1>u, PackListFacts DEF UnitOK, Units
  <2> HIDE DEF l, closed
  <2>3. /\ op'.pc = "pack" /\ op'.slot = "hidden" /\ op'.list = l
        /\ op'.out = op.out /\ op'.todo = op.todo /\ op'.unit = op.unit
    BY <1>0, <2>1 DEF TypeInv, TypeOK
  <2>4. /\ temp'["hidden"].state = "writing" /\ temp'["main"].state = "ready"
        /\ temp'["main"].content = temp["main"].content
    BY <1>1, <1>d, <2>1 DEF NewTemp, Slots
  <2>5. \A x : (OfMain(x)' <=> OfMain(x)) /\ (OfHidden(x)' <=> OfHidden(x))
    BY <1>0, <2>3, Still DEF OfMain, OfHidden
  <2>6. \A x : OfHidden(x) => Coming(x, "hidden")'
    BY <2>2, <2>3 DEF OfHidden, Coming
  <2>7. \A x : Coming(x, "main") => InZip(x, "main")'
    BY <1>0, <1>c, <2>4, Still DEF InZip
  <2>8. Packed'
    BY <1>0, <1>1, <2>3, <2>5, <2>6, <2>7 DEF Packed, Keep
  <2>9. UnitsOK'
    BY <1>0, <2>3, SameUnit DEF Keep
  <2> QED
    BY <1>0, <1>1, <2>3, <2>4, <2>8, <2>9, Still DEF Keep, ZipsWhole, Saved, NameBeside, DeadIdle
<1>2. CASE ~(op.slot = "main" /\ op.unit.hidden # {})
  <2>1. temp' = closed /\ op' = [op EXCEPT !.pc = "name"]
    BY <1>2 DEF PackDone
  <2> HIDE DEF closed
  <2>2. /\ op'.pc = "name"
        /\ op'.out = op.out /\ op'.todo = op.todo /\ op'.unit = op.unit
    BY <2>1 DEF TypeInv, TypeOK
  <2>3. \A t \in Zips : temp'[t].state = "ready"
    BY <1>0, <1>2, <1>z, <1>d, <2>1 DEF Zips, Slots
  <2>4. \A x : (OfMain(x)' <=> OfMain(x)) /\ (OfHidden(x)' <=> OfHidden(x))
    BY <1>0, <2>2, Still DEF OfMain, OfHidden
  <2>5. \A x, t : t \in Slots => (InZip(x, t) => InZip(x, t)')
    BY <1>0, <1>d, <2>1, Still DEF InZip
  <2>6. ASSUME NEW x \in (Files \cup DOMAIN vaults) \ late, OfMain(x) \/ OfHidden(x)
        PROVE  \E t \in Zips : InZip(x, t)
    <3>1. CASE op.slot = "main"
      <4>1. ~OfHidden(x) /\ "main" \in Zips
        BY <1>2, <1>u, <3>1 DEF OfHidden, Zips, UnitOK, Slots
      <4> QED
        BY <1>0, <1>c, <2>6, <3>1, <4>1 DEF Keep, Packed
    <3>2. CASE op.slot = "hidden"
      <4>1. "hidden" \in Zips /\ "main" \in Zips
        BY <1>u, <1>z, <3>2 DEF Zips, UnitOK, Slots
      <4> QED
        BY <1>0, <1>c, <2>6, <3>2, <4>1 DEF Keep, Packed
    <3> QED
      BY <1>0, <3>1, <3>2 DEF Slots
  <2>7. Zips' = Zips /\ Zips \subseteq Slots
    BY <2>2 DEF Zips
  <2>8. Packed'
    BY <1>0, <2>2, <2>4, <2>5, <2>6, <2>7 DEF Packed
  <2>9. UnitsOK'
    BY <1>0, <2>2, SameUnit DEF Keep
  <2> QED
    BY <1>0, <2>2, <2>3, <2>7, <2>8, <2>9, Still DEF Keep, ZipsWhole, Saved, NameBeside, DeadIdle
<1> QED
  BY <1>1, <1>2

LEMMA ChooseNameKeeps ==
    ASSUME TypeInv, Keep, NEW p \in Places, ChooseName(p)
    PROVE  Keep'
<1>0. alive /\ op.pc = "name" /\ UNCHANGED <<plain, vaults, temp, cancel, alive, late>>
  BY DEF ChooseName
<1>1. CASE Fail("failed")
  BY <1>0, <1>1, Still, FailKeeps DEF Keep
<1>2. CASE ~Fail("failed")
  <2>1. PICK i \in 1..Copies : op' = [op EXCEPT !.pc = "seal", !.name = <<p, i>>]
    BY <1>2 DEF ChooseName
  <2>2. /\ op'.pc = "seal" /\ op'.name[1] = p
        /\ op'.out = op.out /\ op'.todo = op.todo /\ op'.unit = op.unit
    BY <2>1 DEF TypeInv, TypeOK
  <2>3. NameBeside'
    BY <2>2 DEF NameBeside, PlacesOf, ChooseName
  <2>4. /\ \A x : (OfMain(x)' <=> OfMain(x)) /\ (OfHidden(x)' <=> OfHidden(x))
        /\ \A x, t : InZip(x, t)' <=> InZip(x, t)
        /\ Zips' = Zips
    BY <1>0, <2>2, Still DEF OfMain, OfHidden, InZip, Zips
  <2>5. Packed' /\ ZipsWhole'
    BY <1>0, <2>2, <2>4 DEF Packed, ZipsWhole, Keep
  <2>6. UnitsOK'
    BY <1>0, <2>2, SameUnit DEF Keep
  <2> QED
    BY <1>0, <2>2, <2>3, <2>5, <2>6, Still DEF Keep, Saved, DeadIdle
<1> QED
  BY <1>1, <1>2

\* The vault appears: what was packed can be got back, and may be wiped.
LEMMA SealKeeps ==
    ASSUME TypeInv, Keep, Seal
    PROVE  Keep'
<1>0. alive /\ op.pc = "seal" /\ UNCHANGED <<plain, temp, cancel, alive, late>>
  BY DEF Seal
<1>1. CASE UNCHANGED vaults /\ \E o \in {"failed", "cancelled"} : Fail(o)
  BY <1>0, <1>1, Still, FailKeeps DEF Keep
<1>2. CASE ~(UNCHANGED vaults /\ \E o \in {"failed", "cancelled"} : Fail(o))
  <2>1. Commit(op.name)
    BY <1>2 DEF Seal
  <2>2. /\ op'.pc \in {"wipe", "clean"} /\ op'.name = op.name
        /\ op'.left = op.unit.main \cup op.unit.hidden /\ op'.list = {}
        /\ op'.out = op.out /\ op'.todo = op.todo /\ op'.unit = op.unit
    BY <1>0, <2>1 DEF Commit, TypeInv, TypeOK, Listed
  <2>3. /\ DOMAIN vaults' = DOMAIN vaults \cup {op.name}
        /\ vaults'[op.name] = Sealable
        /\ \A n \in DOMAIN vaults : IF n = op.name THEN vaults[n] = {}
                                                    ELSE vaults'[n] = vaults[n]
    BY <1>0, <2>1 DEF Commit, TypeInv, NameFree
  <2>4. Kept'
    BY <1>0, <2>3 DEF Keep, Kept, Sealed
  <2>5. UnitsOK'
    BY <1>0, <2>2, SameUnit DEF Keep
  <2>6. UnitOK(op.unit) /\ op.name[1] \notin op.unit.main \cup op.unit.hidden
    BY <1>0 DEF Keep, UnitsOK, UnitOK, PlacesFree, NameBeside
  <2>7. ASSUME NEW s \in op.unit.main \cup op.unit.hidden, NEW x \in Objects(s)', x \notin late
        PROVE  Safe(x)'
    <3>1. x \in Objects(s)
      BY <1>0, <2>3, <2>6, <2>7 DEF Objects, Intact
    <3>2. x \in Files \cup DOMAIN vaults
      BY <3>1 DEF Objects, Intact
    <3>3. OfMain(x) \/ OfHidden(x)
      BY <2>7, <3>1 DEF OfMain, OfHidden
    <3>4. PICK t \in Zips : InZip(x, t)
      BY <1>0, <2>7, <3>2, <3>3 DEF Keep, Packed
    <3>5. Capture(x) \subseteq Sealable
      BY <1>0, <3>4 DEF InZip, Keep, ZipsWhole, Sealable
    <3>7. x \in Files \/ x # op.name
      BY <2>6, <2>7, <3>1 DEF Objects, Intact
    <3>6. Capture(x)' = Capture(x)
      BY <2>3, <3>2, <3>7 DEF Capture
    <3> QED
      BY <2>2, <2>3, <3>2, <3>5, <3>6, <3>7 DEF Safe
  <2>8. Saved'
    BY <1>0, <2>2, <2>3, <2>7 DEF Saved
  <2> QED
    BY <1>0, <2>2, <2>4, <2>5, <2>8 DEF Keep, ZipsWhole, Packed, NameBeside, DeadIdle
<1> QED
  BY <1>1, <1>2

LEMMA WipeSourceKeeps ==
    ASSUME TypeInv, Keep, NEW s \in op.left, WipeSource(s)
    PROVE  Keep'
<1>1. /\ alive /\ op.pc = "wipe"
      /\ UNCHANGED <<plain, vaults, temp, alive, late>>
      /\ op' = [op EXCEPT !.left = @ \ {s}, !.list = Objects(s)]
  BY DEF WipeSource
<1>2. /\ op'.pc = "wipe" /\ op'.left = op.left \ {s} /\ op'.list = Objects(s)
      /\ op'.out = op.out /\ op'.todo = op.todo /\ op'.unit = op.unit /\ op'.name = op.name
  BY <1>1 DEF TypeInv, TypeOK
<1>3. \A x : Safe(x)' <=> Safe(x)
  BY <1>1, <1>2, Still DEF Safe
<1>4. Saved'
  BY <1>1, <1>2, <1>3, Still DEF Saved, Keep
<1>5. UnitsOK'
  BY <1>1, <1>2, SameUnit DEF Keep
<1> QED
  BY <1>1, <1>2, <1>4, <1>5, Still DEF Keep, ZipsWhole, Packed, NameBeside, DeadIdle

\* An original goes, or a vault that has been archived: the new vault has both.
LEMMA WipeOneKeeps ==
    ASSUME TypeInv, Keep, NEW x \in op.list, WipeOne(x)
    PROVE  Keep'
<1>1. /\ alive /\ op.pc = "wipe" /\ UNCHANGED <<temp, alive, late>>
      /\ x \in Files \cup DOMAIN vaults /\ op.name \in DOMAIN vaults
      /\ late \subseteq Files
  BY DEF WipeOne, TypeInv, TypeOK, Listed, Keep, Saved
<1>2. x \notin late => Safe(x)
  BY <1>1 DEF Keep, Saved
<1>3. /\ DOMAIN vaults' \subseteq DOMAIN vaults /\ op.name \in DOMAIN vaults'
      /\ \A n \in DOMAIN vaults' : vaults'[n] = vaults[n]
      /\ \A f \in Files : plain'[f] = plain[f] \/ (f = x /\ plain'[f] = "wiped")
      /\ x \notin Files => \A n \in DOMAIN vaults \ {x} : n \in DOMAIN vaults'
      /\ x \in Files => vaults' = vaults
      /\ x \notin Files => plain' = plain
  BY <1>1, <1>2 DEF WipeOne, Safe, TypeInv, TypeOK
<1>4. Sealed \subseteq Sealed'
  <2>1. CASE x \in Files
    BY <1>3, <2>1 DEF Sealed
  <2>2. CASE x \notin Files
    <3>1. Safe(x) /\ Capture(x) = vaults[x]
      BY <1>1, <1>2, <2>2 DEF Capture
    <3>2. vaults[x] \subseteq vaults'[op.name] /\ op.name \in DOMAIN vaults'
      BY <1>3, <3>1 DEF Safe
    <3> QED
      BY <1>3, <2>2, <3>2 DEF Sealed
  <2> QED
    BY <2>1, <2>2
<1>5. Kept'
  <2> SUFFICES ASSUME NEW f \in Files, f \notin late, plain'[f] = "wiped" PROVE f \in Sealed
    BY <1>1, <1>4 DEF Kept
  <2>1. CASE plain[f] = "wiped"
    BY <2>1 DEF Keep, Kept
  <2>2. CASE f = x
    BY <1>1, <1>2, <2>2 DEF Safe, Capture, Sealed
  <2> QED
    BY <1>3, <2>1, <2>2
<1>6. CASE Fail("failed")
  BY <1>1, <1>5, <1>6, FailKeeps
<1>7. CASE op' = [op EXCEPT !.list = @ \ {x}]
  <2>1. /\ op'.pc = "wipe" /\ op'.left = op.left /\ op'.list = op.list \ {x}
        /\ op'.out = op.out /\ op'.todo = op.todo /\ op'.unit = op.unit /\ op'.name = op.name
    BY <1>1, <1>7 DEF TypeInv, TypeOK
  <2>2. ASSUME NEW y \in Files \cup DOMAIN vaults', Safe(y) PROVE Safe(y)'
    <3>1. Capture(y)' = Capture(y)
      BY <1>3, <2>2 DEF Capture
    <3> QED
      BY <1>3, <2>1, <2>2, <3>1 DEF Safe
  <2>3. \A s : Objects(s)' \subseteq Objects(s) /\ Objects(s)' \subseteq Files \cup DOMAIN vaults'
    BY <1>3 DEF Objects, Intact
  <2>4. \A y \in op'.list : y \in Files \cup DOMAIN vaults'
    BY <1>1, <1>3, <2>1 DEF TypeInv, Listed
  <2>5. Saved'
    BY <1>1, <1>3, <2>1, <2>2, <2>3, <2>4 DEF Saved, Keep
  <2>6. UnitsOK'
    BY <1>1, <2>1, SameUnit DEF Keep
  <2> QED
    BY <1>1, <1>5, <2>1, <2>5, <2>6 DEF Keep, ZipsWhole, Packed, NameBeside, DeadIdle
<1> QED
  BY <1>6, <1>7 DEF WipeOne

LEMMA BeginKeeps ==
    ASSUME TypeInv, Keep, ~OutInside, NEW units \in SUBSET Units, NEW wipe,
           NEW out, Begin(units, wipe, out),
           \A u \in units : /\ u.main # {}
                            /\ OneFolderOrFiles(u.main) /\ OneFolderOrFiles(u.hidden)
    PROVE  Keep'
<1>1. /\ op'.pc = "next" /\ op'.out = out /\ op'.todo = units
      /\ alive /\ UNCHANGED <<plain, vaults, alive, late>>
  BY DEF Begin, Idle
<1>2. UnitsOK'
  BY <1>1 DEF Begin, UnitsOK, UnitOK, PlacesFree, PlacesOf, OneFolderOrFiles
<1> QED
  BY <1>1, <1>2, Quiet, Still DEF Keep, DeadIdle

\* What the user adds is late, or comes before the next batch.
LEMMA AddFileKeeps ==
    ASSUME TypeInv, Keep, NEW f \in Files, AddFile(f)
    PROVE  Keep'
<1>1. /\ UNCHANGED <<vaults, temp, op, alive>>
      /\ plain' = [plain EXCEPT ![f] = "intact"] /\ plain[f] = "absent"
      /\ late \subseteq late'
      /\ op.pc # "idle" => f \in late'
  BY DEF AddFile
<1>2. UnitsOK'
  BY <1>1, SameUnit DEF Keep
<1>3. Kept'
  BY <1>1 DEF Keep, Kept, Sealed, TypeInv, TypeOK
<1>4. CASE op.pc = "idle"
  BY <1>1, <1>2, <1>3, <1>4, Quiet DEF Keep, DeadIdle
<1>5. CASE op.pc # "idle"
  <2>1. Intact' = Intact \cup {f}
    BY <1>1 DEF Intact, TypeInv, TypeOK
  <2>2. \A s, x : /\ x \in Objects(s) => x \in Objects(s)'
                  /\ x \in Objects(s)' /\ x # f => x \in Objects(s)
    BY <1>1, <2>1 DEF Objects
  <2>3. \A x : Capture(x)' = Capture(x)
    BY <1>1 DEF Capture
  <2>4. /\ \A x, t : InZip(x, t)' <=> InZip(x, t)
        /\ \A x, t : Coming(x, t)' <=> Coming(x, t)
        /\ \A x : Safe(x)' <=> Safe(x)
        /\ Zips' = Zips
    BY <1>1, <2>3 DEF InZip, Coming, Safe, Zips
  <2>5. \A x : /\ OfHidden(x) => OfHidden(x)'
               /\ x # f => (OfHidden(x)' => OfHidden(x)) /\ (OfMain(x)' => OfMain(x))
    BY <1>1, <2>2 DEF OfHidden, OfMain
  <2>6. Packed'
    <3> SUFFICES ASSUME NEW x \in (Files \cup DOMAIN vaults) \ late'
                 PROVE  /\ op.pc = "pack" /\ op.slot = "main" =>
                              (OfMain(x)' => OfHidden(x)' \/ Coming(x, "main")')
                        /\ op.pc = "pack" /\ op.slot = "hidden" =>
                              /\ OfHidden(x)' => Coming(x, "hidden")'
                              /\ OfMain(x)' => OfHidden(x)' \/ InZip(x, "main")'
                        /\ op.pc \in {"name", "seal"} =>
                              (OfMain(x)' \/ OfHidden(x)' => \E t \in Zips : InZip(x, t)')
      BY <1>1, <2>4 DEF Packed
    <3>1. x # f /\ x \in (Files \cup DOMAIN vaults) \ late
      BY <1>1, <1>5
    <3> QED
      BY <2>4, <2>5, <3>1 DEF Keep, Packed
  <2>7. Saved'
    BY <1>1, <1>5, <2>2, <2>4 DEF Keep, Saved
  <2> QED
    BY <1>1, <1>2, <1>3, <2>4, <2>6, <2>7 DEF Keep, ZipsWhole, NameBeside, PlacesOf, DeadIdle
<1> QED
  BY <1>4, <1>5

\* A file of another program lies beside the folders of the unit, and a vault
\* takes nothing back from it.
LEMMA StrangerKeeps ==
    ASSUME TypeInv, Keep, NEW n \in Names, StrangerMakes(n)
    PROVE  Keep'
<1>1. /\ op.pc \in {"name", "seal"} /\ n \notin DOMAIN vaults
      /\ DOMAIN vaults' = DOMAIN vaults \cup {n} /\ vaults'[n] = {}
      /\ \A m \in DOMAIN vaults : vaults'[m] = vaults[m]
      /\ UNCHANGED <<plain, temp, op, alive, late>>
  BY DEF StrangerMakes
<1>2. UnitOK(op.unit) /\ n[1] \notin op.unit.main \cup op.unit.hidden
  BY <1>1 DEF StrangerMakes, Keep, UnitsOK, UnitOK, PlacesFree, NameBeside
<1>3. \A s \in op.unit.main \cup op.unit.hidden : Objects(s)' = Objects(s)
  BY <1>1, <1>2 DEF Objects, Intact
<1>4. \A x : (OfMain(x)' <=> OfMain(x)) /\ (OfHidden(x)' <=> OfHidden(x))
  BY <1>1, <1>3 DEF OfMain, OfHidden
<1>5. \A x \in Files \cup DOMAIN vaults : Capture(x)' = Capture(x)
  BY <1>1 DEF Capture
<1>6. \A x : OfMain(x) \/ OfHidden(x) => x \in Files \cup DOMAIN vaults
  BY DEF OfMain, OfHidden, Objects, Intact
<1>7. Packed'
  <2> SUFFICES ASSUME NEW x, x \notin late, OfMain(x) \/ OfHidden(x)
               PROVE  \E t \in Zips' : InZip(x, t)'
    BY <1>1, <1>4 DEF Packed
  <2>1. PICK t \in Zips : InZip(x, t)
    BY <1>1, <1>6 DEF Keep, Packed
  <2> QED
    BY <1>1, <1>5, <1>6, <2>1 DEF InZip, Zips
<1>8. UnitsOK' /\ Kept'
  BY <1>1, SameUnit DEF Keep, Kept, Sealed
<1> QED
  BY <1>1, <1>7, <1>8 DEF Keep, ZipsWhole, Zips, Saved, NameBeside, PlacesOf, DeadIdle

\* Steps that leave the worker, the files and the zips alone.
LEMMA Stutter ==
    ASSUME Keep, UNCHANGED <<plain, vaults, temp, op, alive, late>>
    PROVE  Keep'
<1>1. UnitsOK' /\ Kept' /\ ZipsWhole' /\ NameBeside' /\ DeadIdle'
  BY SameUnit, Still DEF Keep, ZipsWhole, Zips, NameBeside, PlacesOf, DeadIdle
<1>2. /\ \A x : (OfMain(x)' <=> OfMain(x)) /\ (OfHidden(x)' <=> OfHidden(x))
      /\ \A x, t : (InZip(x, t)' <=> InZip(x, t)) /\ (Coming(x, t)' <=> Coming(x, t))
      /\ \A x : Safe(x)' <=> Safe(x)
      /\ Zips' = Zips
  BY Still DEF OfMain, OfHidden, InZip, Coming, Safe, Zips
<1>3. Packed'
  BY <1>2 DEF Keep, Packed
<1>4. Saved'
  BY <1>2, Still DEF Keep, Saved
<1> QED
  BY <1>1, <1>3, <1>4 DEF Keep

LEMMA KeepStep ==
    ASSUME ~OutInside, ~FoldersInLists
    PROVE  KeepInv /\ [Next]_vars => KeepInv'
<1> SUFFICES ASSUME TypeInv, ~intruder => Keep, [Next]_vars, ~intruder' PROVE Keep'
  BY TypeStep DEF KeepInv
<1>0. ~intruder /\ Keep
  <2>1. WorkerStep => UNCHANGED intruder
    BY DEF WorkerStep, NextUnit, EndBatch, Scan, PackOne, PackDone, ChooseName, Seal,
       WipeSource, WipeOne, WipeRefused, WipeDone, Clean
  <2>2. \A units, wipe, out : Begin(units, wipe, out) => UNCHANGED intruder
    BY DEF Begin
  <2>3. \A t : OverwriteTemp(t) \/ DeleteTemp(t) => UNCHANGED intruder
    BY DEF OverwriteTemp, DeleteTemp
  <2>4. \A f : AddFile(f) => UNCHANGED intruder
    BY DEF AddFile
  <2>5. RequestCancel \/ Crash \/ Restart => UNCHANGED intruder
    BY DEF RequestCancel, Crash, Restart
  <2>6. UNCHANGED vars => UNCHANGED intruder
    BY DEF vars
  <2>8. \A n : StrangerMakes(n) => UNCHANGED intruder
    BY DEF StrangerMakes
  <2>7. intruder => UNCHANGED intruder
    BY <2>1, <2>2, <2>3, <2>4, <2>5, <2>6, <2>8 DEF Next, StartNormal, StartHidden, OtherStarts
  <2> QED
    BY <2>7
<1>1. ASSUME NEW u \in op.todo, NextUnit(u) PROVE Keep'
  <2>1. /\ op'.pc = "scan" /\ op'.unit = u /\ op'.todo = op.todo \ {u} /\ op'.out = op.out
        /\ alive /\ UNCHANGED <<plain, vaults, alive, late>>
    BY <1>1 DEF NextUnit, TypeInv, TypeOK
  <2>2. UnitsOK'
    BY <1>0, <2>1 DEF Keep, UnitsOK, UnitOK, PlacesFree, PlacesOf, OneFolderOrFiles
  <2> QED
    BY <1>0, <2>1, <2>2, Quiet, Still DEF Keep, DeadIdle
<1>2. ASSUME EndBatch PROVE Keep'
  <2>1. /\ op'.pc = "idle" /\ op'.todo = {}
        /\ UNCHANGED <<plain, vaults, alive, late>>
    BY <1>2 DEF EndBatch, Idle
  <2>2. UnitsOK'
    BY <2>1 DEF UnitsOK
  <2> QED
    BY <1>0, <2>1, <2>2, Quiet, Still DEF Keep, DeadIdle
<1>3. ASSUME Scan PROVE Keep'
  BY <1>0, <1>3, ScanKeeps
<1>4. ASSUME NEW x \in op.list, PackOne(x) PROVE Keep'
  BY <1>0, <1>4, PackOneKeeps
<1>5. ASSUME NEW x \in op.list, WipeOne(x) PROVE Keep'
  BY <1>0, <1>5, WipeOneKeeps
<1>6. ASSUME PackDone PROVE Keep'
  BY <1>0, <1>6, PackDoneKeeps
<1>7. ASSUME NEW p \in Places, ChooseName(p) PROVE Keep'
  BY <1>0, <1>7, ChooseNameKeeps
<1>8. ASSUME Seal PROVE Keep'
  BY <1>0, <1>8, SealKeeps
<1>9. ASSUME NEW s \in op.left, WipeSource(s) PROVE Keep'
  BY <1>0, <1>9, WipeSourceKeeps
<1>10. ASSUME WipeRefused PROVE Keep'
  BY <1>0, <1>10, Still, FailKeeps DEF WipeRefused, Keep
<1>11. ASSUME WipeDone PROVE Keep'
  <2>1. /\ op'.pc = "clean" /\ op'.unit = op.unit /\ op'.todo = op.todo /\ op'.out = op.out
        /\ alive /\ op.pc = "wipe" /\ UNCHANGED <<plain, vaults, alive, late>>
    BY <1>11 DEF WipeDone, TypeInv, TypeOK
  <2>2. UnitsOK'
    BY <1>0, <2>1, SameUnit DEF Keep
  <2> QED
    BY <1>0, <2>1, <2>2, Quiet, Still DEF Keep, DeadIdle
<1>12. ASSUME Clean PROVE Keep'
  <2>1. alive /\ UNCHANGED <<plain, vaults, alive, late>>
    BY <1>12 DEF Clean
  <2>2. UnitsOK' /\ op'.pc \in {"idle", "next"}
    <3>1. CASE op.outcome = "cancelled"
      BY <1>12, <3>1 DEF Clean, Idle, UnitsOK
    <3>2. CASE op.outcome # "cancelled"
      <4>1. /\ op'.pc = "next" /\ op'.unit = op.unit /\ op'.todo = op.todo /\ op'.out = op.out
        BY <1>12, <3>2 DEF Clean, TypeInv, TypeOK
      <4> QED
        BY <1>0, <4>1, SameUnit DEF Keep
    <3> QED
      BY <3>1, <3>2
  <2> QED
    BY <1>0, <2>1, <2>2, Quiet, Still DEF Keep, DeadIdle
<1>13. ASSUME NEW srcs \in SUBSET Sources, NEW wipe \in BOOLEAN,
              NEW out \in Places \cup {"beside"}, StartNormal(srcs, wipe, out)
       PROVE  Keep'
  <2> DEFINE units == {[main |-> {s}, hidden |-> {}] : s \in srcs}
  <2>1. units \in SUBSET Units
    BY DEF Units
  <2>2. \A u \in units : /\ u.main # {}
                         /\ OneFolderOrFiles(u.main) /\ OneFolderOrFiles(u.hidden)
    BY DEF OneFolderOrFiles
  <2>3. Begin(units, wipe, out)
    BY <1>13 DEF StartNormal
  <2> HIDE DEF units
  <2> QED
    BY <1>0, <2>1, <2>2, <2>3, BeginKeeps
<1>14. ASSUME NEW main \in SUBSET Sources, NEW hidden \in SUBSET Sources, NEW wipe \in BOOLEAN,
              NEW out \in Places \cup {"beside"}, StartHidden(main, hidden, wipe, out)
       PROVE  Keep'
  <2> DEFINE units == {[main |-> main, hidden |-> hidden]}
  <2>1. units \in SUBSET Units
    BY DEF Units
  <2>2. \A u \in units : /\ u.main # {}
                         /\ OneFolderOrFiles(u.main) /\ OneFolderOrFiles(u.hidden)
    BY <1>14 DEF StartHidden, OneFolderOrFiles
  <2>3. Begin(units, wipe, out)
    BY <1>14 DEF StartHidden
  <2> HIDE DEF units
  <2> QED
    BY <1>0, <2>1, <2>2, <2>3, BeginKeeps
<1>15. ASSUME RequestCancel PROVE Keep'
  BY <1>0, <1>15, Stutter DEF RequestCancel
<1>16. ASSUME NEW f \in Files, AddFile(f) PROVE Keep'
  BY <1>0, <1>16, AddFileKeeps
<1>17. ~OtherStarts /\ \A t \in Slots : ~OverwriteTemp(t) /\ ~DeleteTemp(t)
  BY <1>0 DEF OtherStarts, OverwriteTemp, DeleteTemp
<1>18. ASSUME Crash \/ Restart PROVE Keep'
  <2>1. /\ (op'.pc = "idle" /\ op'.todo = {}) \/ UNCHANGED op
        /\ op'.pc = "idle" /\ UNCHANGED <<plain, vaults, late>>
    BY <1>0, <1>18 DEF Crash, Restart, Idle, Keep, DeadIdle
  <2>2. UnitsOK'
    BY <1>0, <2>1, SameUnit DEF UnitsOK, Keep
  <2> QED
    BY <1>0, <2>1, <2>2, Quiet, Still DEF Keep, DeadIdle
<1>19. CASE UNCHANGED vars
  BY <1>0, <1>19, Stutter DEF vars
<1>20. ASSUME NEW n \in Names, StrangerMakes(n) PROVE Keep'
  BY <1>0, <1>20, StrangerKeeps
<1> QED
  BY <1>1, <1>2, <1>3, <1>4, <1>5, <1>6, <1>7, <1>8, <1>9, <1>10, <1>11, <1>12, <1>13,
     <1>14, <1>15, <1>16, <1>17, <1>18, <1>19, <1>20 DEF Next, WorkerStep

\* No file that a batch was given is lost, whatever step of packing, sealing and
\* wiping fails, is cancelled or crashes, and however often (the order seal,
\* then wipe; what package_files and package_folder leave out of the decoy zip
\* the hidden zip has).
THEOREM NothingEverLost ==
    ASSUME ~OutInside, ~FoldersInLists
    PROVE  Spec => []NothingLost
<1>1. Init => KeepInv
  <2> SUFFICES ASSUME Init PROVE Keep
    BY TypeInitially DEF KeepInv
  <2>1. op.pc = "idle" /\ op.todo = {} /\ alive /\ \A f \in Files : plain[f] # "wiped"
    BY DEF Init, Idle
  <2> QED
    BY <2>1 DEF Keep, UnitsOK, ZipsWhole, Packed, Saved, NameBeside, DeadIdle, Kept
<1>2. KeepInv => NothingLost
  BY DEF KeepInv, Keep, Kept, NothingLost
<1> QED
  BY <1>1, <1>2, KeepStep, PTL DEF Spec
=============================================================================
