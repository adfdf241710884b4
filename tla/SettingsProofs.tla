---------------------------- MODULE SettingsProofs ----------------------------
(***************************************************************************)
(* The lock of _mutate_cfg is enough inside one process, for every number  *)
(* of threads and processes, every content and every set of changes; and   *)
(* the settings, with all their steps, are one user of that store.         *)
(*                                                                         *)
(* The inductive invariant is Copies: whoever is inside has the lock, and  *)
(* what it has read is still what the file holds.                          *)
(***************************************************************************)
EXTENDS Settings, TLAPS

StoreInv == StoreTypeOK /\ Copies

-----------------------------------------------------------------------------
\* The resting states of a thread are mutations.
LEMMA RestingTypes == Resting \in Mutation /\ Done \in Mutation
<1>1. (CHOOSE m \in Mutators : TRUE) \in Mutators
  BY StoreAssumption
<1>2. Empty \in Config
  BY StoreAssumption
<1> QED
  BY <1>1, <1>2 DEF Resting, Done, Mutation

\* Initially nobody is inside.
LEMMA StoreInitInv == StoreInit => StoreInv
<1> SUFFICES ASSUME StoreInit PROVE StoreInv
  OBVIOUS
<1>1. \A t \in Threads : mutation[t] = Resting
  BY DEF StoreInit
<1>2. Resting.pc = "rest"
  BY DEF Resting
<1>3. StoreTypeOK
  BY RestingTypes DEF StoreInit, StoreTypeOK
<1>4. Copies
  BY <1>1, <1>2 DEF Copies, Holding, InStore
<1> QED
  BY <1>3, <1>4 DEF StoreInv

\* Who holds the lock is inside alone.
LEMMA CopiesExclusive == Copies => Exclusive
  BY DEF Copies, Exclusive

-----------------------------------------------------------------------------
\* Each step of the store preserves the invariant.
LEMMA AskInv ==
    ASSUME StoreInv, NEW t \in Threads, NEW m \in Mutators, Ask(t, m)
    PROVE  StoreInv'
<1> DEFINE new == [Resting EXCEPT !.pc = "ask", !.what = m]
<1>1. new \in Mutation /\ new.pc = "ask"
  BY RestingTypes DEF Mutation
<1>2. mutation \in [Threads -> Mutation] /\ mutation' = [mutation EXCEPT ![t] = new]
  BY DEF StoreInv, StoreTypeOK, Ask
<1> HIDE DEF new
<1>3. StoreTypeOK'
  BY <1>1, <1>2 DEF StoreInv, StoreTypeOK, Ask
<1>4. mutation'[t].pc = "ask" /\ \A u \in Threads \ {t} : mutation'[u] = mutation[u]
  BY <1>1, <1>2
<1>5. Copies'
  BY <1>4 DEF StoreInv, Copies, Holding, InStore, Ask
<1> QED
  BY <1>3, <1>5 DEF StoreInv

LEMMA AcquireInv ==
    ASSUME StoreInv, NEW t \in Threads, Acquire(t)
    PROVE  StoreInv'
<1>1. InstanceOf[t] \in Instances
  BY DEF Instances
<1>2. mutation \in [Threads -> Mutation] /\ lock \in [Instances -> Threads \cup {Nobody}]
  BY DEF StoreInv, StoreTypeOK
<1>3. /\ mutation' \in [Threads -> Mutation]
      /\ mutation'[t].pc = "load"
      /\ \A u \in Threads \ {t} : mutation'[u] = mutation[u]
  BY <1>2 DEF Acquire, Mutation
<1>4. StoreTypeOK'
  BY <1>1, <1>2, <1>3 DEF StoreInv, StoreTypeOK, Acquire
<1>5. \A u \in Threads \ {t} : InstanceOf[u] = InstanceOf[t] => ~Holding(u)
  BY StoreAssumption DEF StoreInv, Copies, Acquire
<1>6. /\ lock'[InstanceOf[t]] = t
      /\ \A u \in Threads : InstanceOf[u] # InstanceOf[t]
                              => lock'[InstanceOf[u]] = lock[InstanceOf[u]]
  BY <1>1, <1>2 DEF Acquire, Instances
<1>7. Copies'
  BY <1>3, <1>5, <1>6 DEF StoreInv, Copies, Holding, InStore, Acquire
<1> QED
  BY <1>4, <1>7 DEF StoreInv

LEMMA LoadInv ==
    ASSUME StoreInv, NEW t \in Threads, Load(t)
    PROVE  StoreInv'
<1>1. PICK blind \in BOOLEAN :
        mutation' = [mutation EXCEPT ![t] =
                       [@ EXCEPT !.pc = "save", !.blind = blind,
                                 !.seen = IF blind THEN Empty ELSE file]]
  BY DEF Load
<1>2. mutation \in [Threads -> Mutation] /\ mutation[t] \in Mutation /\ file \in Config
      /\ Empty \in Config
  BY StoreAssumption DEF StoreInv, StoreTypeOK
<1> DEFINE new == [mutation[t] EXCEPT !.pc = "save", !.blind = blind,
                                      !.seen = IF blind THEN Empty ELSE file]
<1>3. new \in Mutation /\ new.blind = blind /\ (~blind => new.seen = file)
  BY <1>2 DEF Mutation
<1>4. mutation' = [mutation EXCEPT ![t] = new]
  BY <1>1
<1> HIDE DEF new
<1>5. /\ mutation' \in [Threads -> Mutation] /\ mutation'[t] = new
      /\ \A u \in Threads \ {t} : mutation'[u] = mutation[u]
  BY <1>2, <1>3, <1>4
<1>6. StoreTypeOK'
  BY <1>2, <1>5 DEF StoreInv, StoreTypeOK, Load
<1>7. Holding(t)
  BY DEF Load, InStore, Holding
<1>8. Copies'
  BY <1>3, <1>5, <1>7 DEF StoreInv, Copies, Holding, InStore, Load
<1> QED
  BY <1>6, <1>8 DEF StoreInv

LEMMA ReplaceInv ==
    ASSUME StoreInv, NEW t \in Threads, Replace(t)
    PROVE  StoreInv'
<1>1. mutation \in [Threads -> Mutation] /\ file \in Config
  BY DEF StoreInv, StoreTypeOK
<1>2. Effect[mutation[t].what][mutation[t].seen] \in Config
  BY <1>1, StoreAssumption DEF Mutation
<1>3. \A u \in Threads \ {t} : InstanceOf[u] = InstanceOf[t] => ~Holding(u)
  BY CopiesExclusive DEF StoreInv, Exclusive, Holding, Replace, InStore
<1>4. mutation'[t] = Done /\ Done.pc = "release"
  BY DEF Replace, Done, Resting
<1>5. ASSUME NEW u \in Threads \ {t}
      PROVE  /\ mutation'[u] \in Mutation
             /\ mutation'[u].pc = mutation[u].pc
             /\ InStore(u, "save")' => mutation'[u].rival
  <2>1. CASE InstanceOf[u] = InstanceOf[t]
    <3>1. mutation'[u] = mutation[u]
      BY <2>1 DEF Replace
    <3>2. ~InStore(u, "save")
      BY <1>3, <2>1 DEF Holding, InStore
    <3> QED
      BY <1>1, <3>1, <3>2 DEF InStore
  <2>2. CASE InstanceOf[u] # InstanceOf[t]
    <3>1. mutation'[u] = [mutation[u] EXCEPT !.rival = @ \/ InStore(u, "save")]
      BY <2>2 DEF Replace
    <3>2. mutation[u] \in Mutation /\ mutation[u].rival \in BOOLEAN /\ InStore(u, "save") \in BOOLEAN
      BY <1>1 DEF Mutation, InStore
    <3>3. mutation'[u] \in Mutation /\ mutation'[u].pc = mutation[u].pc
          /\ mutation'[u].rival = (mutation[u].rival \/ InStore(u, "save"))
      BY <3>1, <3>2 DEF Mutation
    <3> QED
      BY <3>3 DEF InStore
  <2> QED
    BY <2>1, <2>2
<1>6. mutation' \in [Threads -> Mutation]
  BY <1>4, <1>5, RestingTypes DEF Replace
<1>7. StoreTypeOK'
  BY <1>2, <1>6 DEF StoreInv, StoreTypeOK, Replace
<1>8. Copies'
  BY <1>4, <1>5 DEF StoreInv, Copies, Holding, InStore, Replace
<1> QED
  BY <1>7, <1>8 DEF StoreInv

LEMMA LeaveInv ==
    ASSUME StoreInv, NEW t \in Threads, SaveFails(t) \/ Release(t)
    PROVE  StoreInv'
<1>1. /\ mutation \in [Threads -> Mutation]
      /\ lock \in [Instances -> Threads \cup {Nobody}]
      /\ InstanceOf[t] \in Instances
  BY DEF StoreInv, StoreTypeOK, Instances
<1>2. Resting.pc = "rest" /\ Done.pc = "release"
  BY DEF Resting, Done
<1>3. CASE SaveFails(t)
  <2>1. /\ mutation' \in [Threads -> Mutation] /\ mutation'[t] = Done
        /\ \A u \in Threads \ {t} : mutation'[u] = mutation[u]
    BY <1>1, <1>3, RestingTypes DEF SaveFails
  <2>2. StoreTypeOK'
    BY <2>1, <1>3 DEF StoreInv, StoreTypeOK, SaveFails
  <2>3. Copies'
    BY <2>1, <1>2, <1>3 DEF StoreInv, Copies, Holding, InStore, SaveFails
  <2> QED
    BY <2>2, <2>3 DEF StoreInv
<1>4. CASE Release(t)
  <2>1. /\ mutation' \in [Threads -> Mutation] /\ mutation'[t] = Resting
        /\ \A u \in Threads \ {t} : mutation'[u] = mutation[u]
    BY <1>1, <1>4, RestingTypes DEF Release
  <2>2. lock' = [lock EXCEPT ![InstanceOf[t]] = Nobody]
    BY <1>4 DEF Release
  <2>3. StoreTypeOK'
    BY <1>1, <2>1, <2>2, <1>4 DEF StoreInv, StoreTypeOK, Release
  <2>4. \A u \in Threads \ {t} : InstanceOf[u] = InstanceOf[t] => ~Holding(u)
    BY CopiesExclusive, <1>4 DEF StoreInv, Exclusive, Holding, Release, InStore
  <2>5. \A u \in Threads : InstanceOf[u] # InstanceOf[t]
                             => lock'[InstanceOf[u]] = lock[InstanceOf[u]]
    BY <1>1, <2>2 DEF Instances
  <2>6. Copies'
    BY <2>1, <2>4, <2>5, <1>2, <1>4 DEF StoreInv, Copies, Holding, InStore, Release
  <2> QED
    BY <2>3, <2>6 DEF StoreInv
<1> QED
  BY <1>3, <1>4

LEMMA CrashInv ==
    ASSUME StoreInv, NEW i \in Instances, Crash(i)
    PROVE  StoreInv'
<1>1. mutation \in [Threads -> Mutation] /\ lock \in [Instances -> Threads \cup {Nobody}]
  BY DEF StoreInv, StoreTypeOK
<1>2. Resting.pc = "rest"
  BY DEF Resting
<1>3. \A u \in Threads : mutation'[u] = IF InstanceOf[u] = i THEN Resting ELSE mutation[u]
  BY DEF Crash
<1>4. mutation' \in [Threads -> Mutation]
  BY <1>1, RestingTypes DEF Crash
<1>5. StoreTypeOK'
  BY <1>1, <1>4 DEF StoreInv, StoreTypeOK, Crash
<1>6. \A u \in Threads : InstanceOf[u] # i => lock'[InstanceOf[u]] = lock[InstanceOf[u]]
  BY <1>1 DEF Crash, Instances
<1>7. Copies'
  BY <1>2, <1>3, <1>6 DEF StoreInv, Copies, Holding, InStore, Crash
<1> QED
  BY <1>5, <1>7 DEF StoreInv

\* So does every step, and the one that leaves the store alone.
LEMMA StoreNextInv == StoreInv /\ [StoreNext]_storeVars => StoreInv'
<1> SUFFICES ASSUME StoreInv, [StoreNext]_storeVars PROVE StoreInv'
  OBVIOUS
<1>1. ASSUME NEW t \in Threads, NEW m \in Mutators, Ask(t, m) PROVE StoreInv'
  BY <1>1, AskInv
<1>2. ASSUME NEW t \in Threads, Acquire(t) PROVE StoreInv'
  BY <1>2, AcquireInv
<1>3. ASSUME NEW t \in Threads, Load(t) PROVE StoreInv'
  BY <1>3, LoadInv
<1>4. ASSUME NEW t \in Threads, Replace(t) PROVE StoreInv'
  BY <1>4, ReplaceInv
<1>5. ASSUME NEW t \in Threads, SaveFails(t) \/ Release(t) PROVE StoreInv'
  BY <1>5, LeaveInv
<1>6. ASSUME NEW i \in Instances, Crash(i) PROVE StoreInv'
  BY <1>6, CrashInv
<1>7. CASE UNCHANGED storeVars
  BY <1>7 DEF storeVars, StoreInv, StoreTypeOK, Copies, Holding, InStore
<1> QED
  BY <1>1, <1>2, <1>3, <1>4, <1>5, <1>6, <1>7 DEF StoreNext

\* Every step of the store keeps what others have written.
LEMMA StoreStepKeeps ==
    ASSUME StoreInv, StoreNext, file' # file
    PROVE  \E t \in Threads :
              /\ mutation[t].pc = "save" /\ mutation'[t].pc = "release"
              /\ \/ mutation[t].blind
                 \/ mutation[t].rival
                 \/ file' = Effect[mutation[t].what][file]
<1>1. PICK t \in Threads : Replace(t)
  BY DEF StoreNext, Ask, Acquire, Load, SaveFails, Release, Crash
<1>2. mutation'[t].pc = "release"
  BY <1>1 DEF Replace, Done, Resting
<1>3. mutation[t].pc = "save" /\ file' = Effect[mutation[t].what][mutation[t].seen]
  BY <1>1 DEF Replace, InStore
<1>4. mutation[t].blind \/ mutation[t].rival \/ mutation[t].seen = file
  BY <1>3 DEF StoreInv, Copies, InStore
<1> QED
  BY <1>2, <1>3, <1>4

-----------------------------------------------------------------------------
\* The invariant holds in the store used by anyone.
THEOREM StoreInvariance == StoreSpec => []StoreInv
<1> QED
  BY StoreInitInv, StoreNextInv, PTL DEF StoreSpec

\* _mutate_cfg loses no change, whatever the changes and however many threads
\* and processes: only an unreadable file or another process can spoil it.
THEOREM StoreLosesNothing == StoreSpec => NoLostUpdate
<1>1. StoreInv /\ [StoreNext]_storeVars =>
        [file' # file =>
          \E t \in Threads :
             /\ mutation[t].pc = "save" /\ mutation'[t].pc = "release"
             /\ \/ mutation[t].blind
                \/ mutation[t].rival
                \/ file' = Effect[mutation[t].what][file]]_storeVars
  BY StoreStepKeeps DEF storeVars
<1> QED
  BY <1>1, StoreInvariance, PTL DEF StoreSpec, NoLostUpdate

-----------------------------------------------------------------------------
\* The changes of the settings are changes of the store.
LEMMA SettingsMutatorTypes ==
    /\ \A k \in Keys, v \in Values : Put(k, v) \in Mutators
    /\ \A x \in Traces : Trace(x) \in Mutators
    /\ Normalize \in Mutators /\ SaveProfile \in Mutators
  BY SettingsAssumption DEF SettingsMutators

\* What is left of a change are keys, and its values are values.
Jobs == [kind: JobKinds \cup {"none"}, left: Seq(Keys), values: [Keys -> Values]]
JobOK == job \in Jobs

LEMMA JobTypes == Spec => []JobOK
<1>1. NoJob \in Jobs
  BY SettingsAssumption DEF NoJob, Jobs
<1>2. Init => JobOK
  BY <1>1 DEF Init, JobOK
<1>3. JobOK /\ [Next]_vars => JobOK'
  <2> SUFFICES ASSUME JobOK, [Next]_vars PROVE JobOK'
    OBVIOUS
  <2>1. ASSUME NEW kind \in JobKinds, NEW values \in [Keys -> Values],
               BeginJob(kind, values)
        PROVE  JobOK'
    <3>1. KeysOf(kind) \in Seq(Keys)
      <4>1. <<"memory", "time">> \in Seq(Keys) /\ <<"wipe">> \in Seq(Keys)
            /\ <<"memory", "time", "wipe">> \in Seq(Keys)
        BY DEF Keys
      <4> QED
        BY <4>1 DEF KeysOf, JobKinds
    <3> QED
      BY <2>1, <3>1 DEF BeginJob, JobOK, Jobs
  <2>2. CASE SaveNext
    <3>1. Tail(job.left) \in Seq(Keys) /\ job \in Jobs
      BY <2>2 DEF SaveNext, JobOK, Jobs
    <3> QED
      BY <2>2, <3>1 DEF SaveNext, JobOK, Jobs
  <2>3. CASE Apply \/ Stop
    BY <1>1, <2>3 DEF Apply, Stop, JobOK
  <2>4. CASE UNCHANGED job
    BY <2>4 DEF JobOK
  <2> QED
    BY <2>1, <2>2, <2>3, <2>4
       DEF Next, vars, settingsVars, Start, BuildServices, MakeProfile, WorkerTrace,
           OtherWrites, StoreStep
<1> QED
  BY <1>2, <1>3, PTL DEF Spec

\* The settings use the store: their steps are steps of it, or leave it alone.
THEOREM SettingsUseStore == Spec => StoreSpec
<1>1. Init => StoreInit
  BY DEF Init
<1>2. JobOK /\ [Next]_vars => [StoreNext]_storeVars
  <2> SUFFICES ASSUME JobOK, [Next]_vars PROVE [StoreNext]_storeVars
    OBVIOUS
  <2> USE SettingsMutatorTypes
  <2>1. Ui \in Threads /\ Worker \in Threads /\ Other \in Threads
    BY SettingsAssumption
  <2>2. CASE Start \/ MakeProfile
    BY <2>1, <2>2 DEF Start, MakeProfile, StoreNext
  <2>3. CASE SaveNext
    <3>1. Head(job.left) \in Keys
      BY <2>3 DEF SaveNext, JobOK, Jobs
    <3>2. job.values[Head(job.left)] \in Values
      BY <3>1 DEF JobOK, Jobs
    <3> QED
      BY <2>1, <2>3, <3>1, <3>2 DEF SaveNext, StoreNext
  <2>4. ASSUME NEW x \in Traces, WorkerTrace(x) PROVE StoreNext
    BY <2>1, <2>4 DEF WorkerTrace, StoreNext
  <2>5. ASSUME NEW m \in SettingsMutators, OtherWrites(m) PROVE StoreNext
    BY <2>1, <2>5, SettingsAssumption DEF OtherWrites, StoreNext
  <2>6. ASSUME NEW t \in Threads, StoreStep(t) PROVE StoreNext
    BY <2>6 DEF StoreStep, StoreNext
  <2>7. CASE Stop
    BY <2>1, <2>7 DEF Stop, StoreNext, Instances
  <2>8. CASE UNCHANGED storeVars
    BY <2>8
  <2> QED
    BY <2>2, <2>3, <2>4, <2>5, <2>6, <2>7, <2>8
       DEF Next, vars, BuildServices, BeginJob, Apply
<1> QED
  BY <1>1, <1>2, JobTypes, PTL DEF Spec, StoreSpec

\* Saving settings, profiles, recent paths and fingerprints loses none of them.
THEOREM SettingsLoseNothing == Spec => NoLostUpdate
  BY SettingsUseStore, StoreLosesNothing, PTL

-----------------------------------------------------------------------------
(* What the services work with                                             *)
(*                                                                         *)
(* EngineAsChosen speaks of the time between two changes.  During one, the *)
(* file has the chosen values of all keys but those that are still to be   *)
(* saved, and the services those of all that the change does not save; in  *)
(* both another instance can only disturb the keys it sets.                *)

\* A mutation that has not reached the file.
Pending(t) == mutation[t].pc \in {"ask", "load", "save"}

\* In our instance only the UI thread saves settings and profiles, a profile never
\* during a change.
Users ==
    \A t \in Threads : Pending(t) =>
        \/ t = Other /\ mutation[t].what \in SettingsMutators
        \/ mutation[t].what \in {Normalize} \cup {Trace(x) : x \in Traces}
        \/ t = Ui /\ mutation[t].what = SaveProfile /\ job = NoJob
        \/ /\ t = Ui /\ job # NoJob
           /\ \E k \in Range(KeysOf(job.kind)) : mutation[t].what = Put(k, job.values[k])

\* A change saves what was chosen with it.
JobInv ==
    job # NoJob =>
        /\ up = "up" /\ job.kind \in JobKinds
        /\ Range(job.left) \subseteq Range(KeysOf(job.kind))
        /\ \A k \in Range(KeysOf(job.kind)) : job.values[k] = chosen[k]

\* The keys that the change has still to save.
Unsaved ==
    Range(job.left)
        \cup {k \in Keys : Pending(Ui) /\ \E v \in Values : mutation[Ui].what = Put(k, v)}

FileInv ==
    ~spoilt => \A k \in Keys \ (Unsaved \cup foreign) : OrDefault(file.settings[k]) = chosen[k]

EngineInv ==
    (up = "up" /\ ~spoilt) =>
        \A k \in Keys \ (foreign \cup misread) :
            \/ job # NoJob /\ k \in Range(KeysOf(job.kind))
            \/ engine[k] = chosen[k]

Chosen ==
    /\ engine \in [Keys -> Values] /\ chosen \in [Keys -> Values]
    /\ spoilt \in BOOLEAN

ChosenInv == Chosen /\ Users /\ JobInv /\ FileInv /\ EngineInv

\* What each change makes of a configuration.
LEMMA EffectOf ==
    ASSUME NEW m \in SettingsMutators, NEW c \in Config
    PROVE  Effect[m][c] =
             CASE m[1] = "put" -> [c EXCEPT !.settings[m[2]] = m[3]]
               [] m[1] = "trace" -> [c EXCEPT !.traces = @ \cup {m[2]}]
               [] m[1] = "normalize" -> [c EXCEPT !.settings = Normal(c)]
               [] m[1] = "profile" -> [c EXCEPT !.profile = Normal(c)]
  BY SettingsAssumption DEF SettingsEffect

\* A configuration as a record of functions.
LEMMA ConfigParts ==
    ASSUME NEW c \in Config
    PROVE  /\ c.settings \in [Keys -> Values \cup {Absent}]
           /\ c = [settings |-> c.settings, profile |-> c.profile, traces |-> c.traces]
  BY SettingsAssumption DEF SettingsConfig

\* A value saved is the value of its key, and nothing else changes (save_setting).
LEMMA PutEffect ==
    ASSUME NEW c \in Config, NEW k \in Keys, NEW v \in Values
    PROVE  /\ Effect[Put(k, v)][c].settings = [c.settings EXCEPT ![k] = v]
           /\ Effect[Put(k, v)][c].profile = c.profile
<1>1. Put(k, v) \in SettingsMutators
  BY DEF SettingsMutators
<1>2. Put(k, v)[1] = "put" /\ Put(k, v)[2] = k /\ Put(k, v)[3] = v
  BY DEF Put
<1>3. Effect[Put(k, v)][c] = [c EXCEPT !.settings[k] = v]
  BY <1>1, <1>2, EffectOf
<1> QED
  BY <1>3, ConfigParts

\* Recent paths and fingerprints leave settings and profile alone.
LEMMA TraceEffect ==
    ASSUME NEW c \in Config, NEW x \in Traces
    PROVE  Effect[Trace(x)][c].settings = c.settings /\ Effect[Trace(x)][c].profile = c.profile
<1>1. Trace(x) \in SettingsMutators
  BY DEF SettingsMutators
<1>2. Trace(x)[1] = "trace"
  BY DEF Trace
<1>3. Effect[Trace(x)][c] = [c EXCEPT !.traces = @ \cup {Trace(x)[2]}]
  BY <1>1, <1>2, EffectOf
<1> QED
  BY <1>3, ConfigParts

\* Normalization puts the default where nothing is (normalize_settings).
LEMMA NormalizeEffect ==
    ASSUME NEW c \in Config
    PROVE  Effect[Normalize][c].settings = Normal(c) /\ Effect[Normalize][c].profile = c.profile
<1>1. Normalize \in SettingsMutators
  BY DEF SettingsMutators
<1>2. Normalize[1] = "normalize"
  BY DEF Normalize
<1>3. Effect[Normalize][c] = [c EXCEPT !.settings = Normal(c)]
  BY <1>1, <1>2, EffectOf
<1> QED
  BY <1>3, ConfigParts

\* A profile holds the settings that are in the file (save_profile).
LEMMA ProfileEffect ==
    ASSUME NEW c \in Config
    PROVE  /\ Effect[SaveProfile][c].settings = c.settings
           /\ Effect[SaveProfile][c].profile = Normal(c)
<1>1. SaveProfile \in SettingsMutators
  BY DEF SettingsMutators
<1>2. SaveProfile[1] = "profile"
  BY DEF SaveProfile
<1>3. Effect[SaveProfile][c] = [c EXCEPT !.profile = Normal(c)]
  BY <1>1, <1>2, EffectOf
<1> QED
  BY <1>3, ConfigParts

\* Normal values are values, and stay the same when they are normalized.
LEMMA NormalFacts ==
    ASSUME NEW c \in Config
    PROVE  /\ Normal(c) \in [Keys -> Values]
           /\ \A k \in Keys : Normal(c)[k] = OrDefault(c.settings[k])
           /\ \A k \in Keys : OrDefault(Normal(c)[k]) = OrDefault(c.settings[k])
<1>1. \A k \in Keys : OrDefault(c.settings[k]) \in Values
  BY ConfigParts, SettingsAssumption DEF OrDefault
<1>2. \A v \in Values : OrDefault(v) = v
  BY SettingsAssumption DEF OrDefault
<1> QED
  BY <1>1, <1>2 DEF Normal

\* The changes are told apart by their names.
LEMMA NamesDiffer ==
    ASSUME NEW k, NEW v
    PROVE  /\ Put(k, v) # Normalize /\ Put(k, v) # SaveProfile
           /\ \A x : Put(k, v) # Trace(x)
           /\ \A k2, v2 : Put(k, v) = Put(k2, v2) => k = k2 /\ v = v2
           /\ SaveProfile # Normalize /\ \A x : SaveProfile # Trace(x)
  BY DEF Put, Normalize, SaveProfile, Trace

\* What each change sets: a key that is saved, and nothing otherwise.
LEMMA KeysSaved ==
    /\ \A k \in Keys, v \in Values : Saves(Put(k, v)) = {k}
    /\ \A m : (\A k, v : m # Put(k, v)) => Saves(m) = {}
  BY NamesDiffer DEF Saves

\* The threads differ.
LEMMA UsersDiffer ==
    Ui \in Threads /\ Worker \in Threads /\ Other \in Threads /\ Ui # Other /\ Worker # Other
  BY SettingsAssumption

LEMMA KeysOfKeys ==
    ASSUME NEW kind \in JobKinds
    PROVE  KeysOf(kind) \in Seq(Keys) /\ Range(KeysOf(kind)) \subseteq Keys
<1>1. <<"memory", "time">> \in Seq(Keys) /\ <<"wipe">> \in Seq(Keys)
      /\ <<"memory", "time", "wipe">> \in Seq(Keys)
  BY DEF Keys
<1>2. KeysOf(kind) \in Seq(Keys)
  BY <1>1 DEF KeysOf, JobKinds
<1> QED
  BY <1>2 DEF Range

LEMMA ChosenInitially == Init => ChosenInv
<1> SUFFICES ASSUME Init PROVE ChosenInv
  OBVIOUS
<1>1. \A t \in Threads : mutation[t].pc = "rest"
  BY DEF Init, StoreInit, Resting
<1>2. \A k \in Keys : OrDefault(file.settings[k]) = Default /\ chosen[k] = Default
  BY DEF Init, NoSettings, OrDefault
<1>3. Chosen
  BY SettingsAssumption DEF Init, Chosen
<1>4. Users
  BY <1>1 DEF Users, Pending
<1> QED
  BY <1>2, <1>3, <1>4 DEF Init, ChosenInv, JobInv, FileInv, EngineInv

\* A call of _mutate_cfg: nothing but the thread's own request is new.
LEMMA AskFacts ==
    ASSUME StoreInv, NEW t \in Threads, NEW m \in Mutators, Ask(t, m)
    PROVE  /\ ~Pending(t) /\ Pending(t)' /\ mutation'[t].what = m
           /\ \A u \in Threads \ {t} : mutation'[u] = mutation[u]
           /\ file' = file
<1> DEFINE new == [Resting EXCEPT !.pc = "ask", !.what = m]
<1>1. new.pc = "ask" /\ new.what = m
  BY RestingTypes DEF Mutation
<1>2. /\ mutation \in [Threads -> Mutation] /\ mutation' = [mutation EXCEPT ![t] = new]
      /\ mutation[t].pc = "rest" /\ file' = file
  BY DEF StoreInv, StoreTypeOK, Ask, InStore
<1> HIDE DEF new
<1>3. mutation'[t] = new /\ \A u \in Threads \ {t} : mutation'[u] = mutation[u]
  BY <1>2
<1> QED
  BY <1>1, <1>2, <1>3 DEF Pending

\* A step inside _mutate_cfg asks for nothing new; until it is over, the request
\* is the same.
LEMMA StoreStepFacts ==
    ASSUME StoreInv, spoilt \in BOOLEAN, NEW t \in Threads, StoreStep(t)
    PROVE  /\ UNCHANGED <<up, job, engine, chosen, misread, jobs>>
           /\ spoilt' \in BOOLEAN
           /\ \A u \in Threads : Pending(u)' =>
                 Pending(u) /\ mutation'[u].what = mutation[u].what
           /\ \A u \in Threads \ {t} : Pending(u) => Pending(u)'
           /\ \/ /\ file' = file /\ spoilt' = spoilt /\ foreign' = foreign
                 /\ Pending(t) => Pending(t)'
              \/ file' = file /\ spoilt'
              \/ /\ mutation[t].pc = "save" /\ ~Pending(t)'
                 /\ \/ spoilt'
                    \/ /\ spoilt' = spoilt /\ file' = Effect[mutation[t].what][file]
                       /\ foreign' = IF t = Other THEN foreign \cup Saves(mutation[t].what)
                                                  ELSE foreign \ Saves(mutation[t].what)
<1>1. mutation \in [Threads -> Mutation] /\ mutation[t] \in Mutation
  BY DEF StoreInv, StoreTypeOK
<1>2. UNCHANGED <<up, job, engine, chosen, misread, jobs>>
  BY DEF StoreStep
<1>3. CASE Acquire(t) /\ UNCHANGED <<spoilt, foreign>>
  <2>1. /\ mutation'[t].pc = "load" /\ mutation'[t].what = mutation[t].what
        /\ \A u \in Threads \ {t} : mutation'[u] = mutation[u]
    BY <1>1, <1>3 DEF Acquire, Mutation
  <2>2. mutation[t].pc = "ask" /\ file' = file
    BY <1>3 DEF Acquire, InStore
  <2> QED
    BY <1>2, <1>3, <2>1, <2>2 DEF Pending
<1>4. CASE Release(t) /\ UNCHANGED <<spoilt, foreign>>
  <2>1. /\ mutation'[t] = Resting /\ Resting.pc = "rest"
        /\ \A u \in Threads \ {t} : mutation'[u] = mutation[u]
    BY <1>1, <1>4 DEF Release, Resting
  <2>2. mutation[t].pc = "release" /\ file' = file
    BY <1>4 DEF Release, InStore
  <2> QED
    BY <1>2, <1>4, <2>1, <2>2 DEF Pending
<1>5. CASE Load(t) /\ UNCHANGED <<spoilt, foreign>>
  <2>1. PICK blind \in BOOLEAN :
          mutation' = [mutation EXCEPT ![t] =
                         [@ EXCEPT !.pc = "save", !.blind = blind,
                                   !.seen = IF blind THEN Empty ELSE file]]
    BY <1>5 DEF Load
  <2>2. /\ mutation'[t].pc = "save" /\ mutation'[t].what = mutation[t].what
        /\ \A u \in Threads \ {t} : mutation'[u] = mutation[u]
    BY <1>1, <2>1 DEF Mutation
  <2>3. mutation[t].pc = "load" /\ file' = file
    BY <1>5 DEF Load, InStore
  <2> QED
    BY <1>2, <1>5, <2>2, <2>3 DEF Pending
<1>6. CASE SaveFails(t) /\ spoilt' = TRUE
  <2>1. /\ mutation'[t] = Done /\ Done.pc = "release"
        /\ \A u \in Threads \ {t} : mutation'[u] = mutation[u]
    BY <1>1, <1>6 DEF SaveFails, Done, Resting
  <2>2. file' = file
    BY <1>6 DEF SaveFails
  <2> QED
    BY <1>2, <1>6, <2>1, <2>2 DEF Pending
<1>7. CASE /\ Replace(t)
           /\ spoilt' = (spoilt \/ mutation[t].blind \/ mutation[t].rival)
           /\ foreign' = IF t = Other THEN foreign \cup Saves(mutation[t].what)
                                      ELSE foreign \ Saves(mutation[t].what)
  <2>1. mutation'[t] = Done /\ Done.pc = "release"
    BY <1>7 DEF Replace, Done, Resting
  <2>2. ASSUME NEW u \in Threads \ {t}
        PROVE  mutation'[u].pc = mutation[u].pc /\ mutation'[u].what = mutation[u].what
    <3>1. mutation[u] \in Mutation
      BY <1>1
    <3>2. \/ mutation'[u] = mutation[u]
          \/ mutation'[u] = [mutation[u] EXCEPT !.rival = @ \/ InStore(u, "save")]
      BY <1>7 DEF Replace
    <3> QED
      BY <3>1, <3>2 DEF Mutation
  <2>3. mutation[t].pc = "save" /\ file' = Effect[mutation[t].what][mutation[t].seen]
    BY <1>7 DEF Replace, InStore
  <2>4. mutation[t].blind \/ mutation[t].rival \/ mutation[t].seen = file
    BY <2>3 DEF StoreInv, Copies, InStore
  <2>5. spoilt' \/ (spoilt' = spoilt /\ file' = Effect[mutation[t].what][file])
    <3>1. CASE mutation[t].blind \/ mutation[t].rival
      BY <1>7, <3>1
    <3>2. CASE ~mutation[t].blind /\ ~mutation[t].rival
      BY <1>7, <2>3, <2>4, <3>2
    <3> QED
      BY <3>1, <3>2
  <2>6. spoilt' \in BOOLEAN
    <3>1. mutation[t].blind \in BOOLEAN /\ mutation[t].rival \in BOOLEAN
      BY <1>1 DEF Mutation
    <3> QED
      BY <1>7, <3>1
  <2>7. ~Pending(t)'
    BY <2>1 DEF Pending
  <2>8. \A u \in Threads : Pending(u)' => Pending(u) /\ mutation'[u].what = mutation[u].what
    BY <2>1, <2>2 DEF Pending
  <2>9. \A u \in Threads \ {t} : Pending(u) => Pending(u)'
    BY <2>2 DEF Pending
  <2>10. \/ spoilt'
         \/ /\ spoilt' = spoilt /\ file' = Effect[mutation[t].what][file]
            /\ foreign' = IF t = Other THEN foreign \cup Saves(mutation[t].what)
                                       ELSE foreign \ Saves(mutation[t].what)
    BY <1>7, <2>5
  <2> QED
    BY <1>2, <2>3, <2>6, <2>7, <2>8, <2>9, <2>10
<1> QED
  BY <1>3, <1>4, <1>5, <1>6, <1>7 DEF StoreStep

\* What the file becomes when a request reaches it: only a saved key changes the
\* settings, only a profile is a profile.  Those of another instance are any.
LEMMA WriteFacts ==
    ASSUME StoreInv, JobOK, Users, JobInv, NEW t \in Threads, Pending(t),
           file' = Effect[mutation[t].what][file]
    PROVE  /\ file'.profile # file.profile =>
                 /\ mutation[t].what = SaveProfile /\ file'.profile = Normal(file)
                 /\ t = Other \/ (t = Ui /\ job = NoJob)
           /\ \/ /\ \A k \in Keys : OrDefault(file'.settings[k]) = OrDefault(file.settings[k])
                 /\ \A k, v : mutation[t].what # Put(k, v)
              \/ /\ t = Ui /\ job # NoJob
                 /\ \E k \in Range(KeysOf(job.kind)) :
                       /\ mutation[t].what = Put(k, job.values[k])
                       /\ file'.settings = [file.settings EXCEPT ![k] = job.values[k]]
              \/ /\ t = Other
                 /\ \E k \in Keys, v \in Values :
                       /\ mutation[t].what = Put(k, v)
                       /\ file'.settings = [file.settings EXCEPT ![k] = v]
<1>1. file \in Config
  BY DEF StoreInv, StoreTypeOK
<1>2. CASE mutation[t].what = Normalize
  <2>1. file'.settings = Normal(file) /\ file'.profile = file.profile
    BY <1>1, <1>2, NormalizeEffect
  <2>2. \A k \in Keys : OrDefault(file'.settings[k]) = OrDefault(file.settings[k])
    BY <1>1, <2>1, NormalFacts
  <2>3. \A k, v : mutation[t].what # Put(k, v)
    BY <1>2, NamesDiffer
  <2> QED
    BY <2>1, <2>2, <2>3
<1>3. CASE \E x \in Traces : mutation[t].what = Trace(x)
  BY <1>1, <1>3, TraceEffect, NamesDiffer
<1>4. CASE mutation[t].what = SaveProfile /\ (t = Other \/ (t = Ui /\ job = NoJob))
  BY <1>1, <1>4, ProfileEffect, NamesDiffer
<1>5. CASE /\ t = Ui /\ job # NoJob
           /\ \E k \in Range(KeysOf(job.kind)) : mutation[t].what = Put(k, job.values[k])
  <2>1. PICK k \in Range(KeysOf(job.kind)) : mutation[t].what = Put(k, job.values[k])
    BY <1>5
  <2>2. k \in Keys
    BY <1>5, KeysOfKeys DEF JobInv
  <2>3. job.values[k] \in Values
    BY <2>2 DEF JobOK, Jobs
  <2>4. /\ file'.settings = [file.settings EXCEPT ![k] = job.values[k]]
        /\ file'.profile = file.profile
    BY <1>1, <2>1, <2>2, <2>3, PutEffect
  <2> QED
    BY <1>5, <2>1, <2>4
<1>6. CASE t = Other /\ \E k \in Keys, v \in Values : mutation[t].what = Put(k, v)
  <2>1. PICK k \in Keys, v \in Values : mutation[t].what = Put(k, v)
    BY <1>6
  <2>2. /\ file'.settings = [file.settings EXCEPT ![k] = v]
        /\ file'.profile = file.profile
    BY <1>1, <2>1, PutEffect
  <2> QED
    BY <1>6, <2>1, <2>2
<1>7. ASSUME t = Other, mutation[t].what \in SettingsMutators
      PROVE  \/ mutation[t].what \in {Normalize} \cup {Trace(x) : x \in Traces}
             \/ mutation[t].what = SaveProfile
             \/ \E k \in Keys, v \in Values : mutation[t].what = Put(k, v)
  BY <1>7 DEF SettingsMutators
<1> QED
  BY <1>2, <1>3, <1>4, <1>5, <1>6, <1>7 DEF Users

LEMMA StoreStepChosen ==
    ASSUME StoreInv, JobOK, ChosenInv, NEW t \in Threads, StoreStep(t)
    PROVE  ChosenInv'
<1>1. Chosen /\ Users /\ JobInv /\ FileInv /\ EngineInv
  BY DEF ChosenInv
<1>2. spoilt \in BOOLEAN
  BY <1>1 DEF Chosen
<1>3. /\ UNCHANGED <<up, job, engine, chosen, misread, jobs>>
      /\ spoilt' \in BOOLEAN
      /\ \A u \in Threads : Pending(u)' => Pending(u) /\ mutation'[u].what = mutation[u].what
      /\ \A u \in Threads \ {t} : Pending(u) => Pending(u)'
  BY <1>2, StoreStepFacts
<1>4. Ui \in Threads /\ Other \in Threads /\ Ui # Other
  BY UsersDiffer
<1>6. ~spoilt' => ~spoilt
  BY <1>2, StoreStepFacts
<1>7. Chosen'
  BY <1>1, <1>3 DEF Chosen
<1>8. Users'
  BY <1>1, <1>3 DEF Users
<1>9. JobInv'
  BY <1>1, <1>3 DEF JobInv
<1>5. ASSUME ~spoilt', NEW k \in foreign, k \notin foreign'
      PROVE  job # NoJob /\ k \in Range(KeysOf(job.kind))
  <2>1. /\ Pending(t) /\ t # Other /\ k \in Saves(mutation[t].what)
        /\ file' = Effect[mutation[t].what][file]
    BY <1>2, <1>5, StoreStepFacts DEF Pending
  <2>2. k \in Keys /\ \E v \in Values : mutation[t].what = Put(k, v)
    BY <2>1 DEF Saves
  <2>3. PICK k2 \in Range(KeysOf(job.kind)) :
          job # NoJob /\ mutation[t].what = Put(k2, job.values[k2])
    BY <1>1, <2>1, <2>2, WriteFacts
  <2> QED
    BY <2>2, <2>3, NamesDiffer
<1>11. EngineInv'
  <2> SUFFICES ASSUME up = "up", ~spoilt', NEW k \in Keys, k \notin foreign', k \notin misread
               PROVE  \/ job # NoJob /\ k \in Range(KeysOf(job.kind))
                      \/ engine[k] = chosen[k]
    BY <1>3 DEF EngineInv
  <2> QED
    BY <1>1, <1>5, <1>6 DEF EngineInv
<1>10. FileInv'
  <2> SUFFICES ASSUME ~spoilt', NEW k \in Keys, k \notin Unsaved', k \notin foreign'
               PROVE  OrDefault(file'.settings[k]) = chosen[k]
    BY <1>3 DEF FileInv
  <2>1. k \notin Range(job.left)
    BY <1>3 DEF Unsaved
  <2>2. CASE file' = file /\ foreign' = foreign /\ (Pending(t) => Pending(t)')
    <3>1. Pending(Ui) => Pending(Ui)' /\ mutation'[Ui].what = mutation[Ui].what
      BY <1>3, <1>4, <2>2
    <3>2. k \notin Unsaved
      BY <2>1, <3>1 DEF Unsaved
    <3> QED
      BY <1>1, <1>6, <2>2, <3>2 DEF FileInv
  <2>3. CASE /\ Pending(t) /\ ~Pending(t)' /\ file' = Effect[mutation[t].what][file]
             /\ foreign' = IF t = Other THEN foreign \cup Saves(mutation[t].what)
                                        ELSE foreign \ Saves(mutation[t].what)
    <3>1. CASE /\ \A k2 \in Keys : OrDefault(file'.settings[k2]) = OrDefault(file.settings[k2])
               /\ \A k2, v : mutation[t].what # Put(k2, v)
      <4>1. t # Ui => (Pending(Ui) => Pending(Ui)' /\ mutation'[Ui].what = mutation[Ui].what)
        BY <1>3, <1>4
      <4>2. k \notin Unsaved
        BY <2>1, <3>1, <4>1 DEF Unsaved
      <4>3. k \notin foreign
        BY <2>3, <3>1, KeysSaved
      <4> QED
        BY <1>1, <1>6, <3>1, <4>2, <4>3 DEF FileInv
    <3>2. CASE /\ t = Ui /\ job # NoJob
               /\ \E k2 \in Range(KeysOf(job.kind)) :
                     /\ mutation[t].what = Put(k2, job.values[k2])
                     /\ file'.settings = [file.settings EXCEPT ![k2] = job.values[k2]]
      <4>1. PICK k2 \in Range(KeysOf(job.kind)) :
              /\ mutation[t].what = Put(k2, job.values[k2])
              /\ file'.settings = [file.settings EXCEPT ![k2] = job.values[k2]]
        BY <3>2
      <4>2. k2 \in Keys /\ job.values[k2] = chosen[k2] /\ chosen[k2] \in Values
        BY <1>1, <3>2, KeysOfKeys DEF JobInv, Chosen
      <4>3. file.settings \in [Keys -> Values \cup {Absent}]
        BY ConfigParts DEF StoreInv, StoreTypeOK
      <4>4. CASE k = k2
        <5>1. file'.settings[k] = chosen[k]
          BY <4>1, <4>2, <4>3, <4>4
        <5> QED
          BY <4>2, <4>4, <5>1, SettingsAssumption DEF OrDefault
      <4>5. CASE k # k2
        <5>1. file'.settings[k] = file.settings[k]
          BY <4>1, <4>3, <4>5
        <5>2. k \notin Unsaved
          BY <2>1, <3>2, <4>1, <4>5, NamesDiffer DEF Unsaved
        <5>3. k \notin foreign
          BY <1>4, <2>3, <3>2, <4>1, <4>2, <4>5, KeysSaved
        <5> QED
          BY <1>1, <1>6, <5>1, <5>2, <5>3 DEF FileInv
      <4> QED
        BY <4>4, <4>5
    <3>3. CASE /\ t = Other
               /\ \E k2 \in Keys, v \in Values :
                     /\ mutation[t].what = Put(k2, v)
                     /\ file'.settings = [file.settings EXCEPT ![k2] = v]
      <4>1. PICK k2 \in Keys, v \in Values :
              /\ mutation[t].what = Put(k2, v)
              /\ file'.settings = [file.settings EXCEPT ![k2] = v]
        BY <3>3
      <4>2. k # k2 /\ k \notin foreign
        BY <2>3, <3>3, <4>1, KeysSaved
      <4>3. file.settings \in [Keys -> Values \cup {Absent}]
        BY ConfigParts DEF StoreInv, StoreTypeOK
      <4>4. file'.settings[k] = file.settings[k]
        BY <4>1, <4>2, <4>3
      <4>5. Pending(Ui) => Pending(Ui)' /\ mutation'[Ui].what = mutation[Ui].what
        BY <1>3, <1>4, <3>3
      <4>6. k \notin Unsaved
        BY <2>1, <4>5 DEF Unsaved
      <4> QED
        BY <1>1, <1>6, <4>2, <4>4, <4>6 DEF FileInv
    <3> QED
      BY <1>1, <2>3, <3>1, <3>2, <3>3, WriteFacts
  <2> QED
    BY <1>2, <2>2, <2>3, StoreStepFacts DEF Pending
<1> QED
  BY <1>7, <1>8, <1>9, <1>10, <1>11 DEF ChosenInv

\* What a request does to the invariant that is no saving of a setting, or that of
\* another instance: nothing.
LEMMA OtherRequest ==
    ASSUME StoreInv, ChosenInv, NEW t \in Threads, NEW m \in SettingsMutators,
           \/ t = Other
           \/ m \in {Normalize} \cup {Trace(x) : x \in Traces}
           \/ m = SaveProfile /\ t = Ui /\ job = NoJob,
           Ask(t, m), UNCHANGED <<job, engine, chosen, spoilt, foreign, misread>>,
           up' = up \/ (up' # "up" /\ job = NoJob)
    PROVE  ChosenInv'
<1>1. Chosen /\ Users /\ JobInv /\ FileInv /\ EngineInv
  BY DEF ChosenInv
<1>2. m \in Mutators
  BY SettingsAssumption
<1>3. /\ ~Pending(t) /\ Pending(t)' /\ mutation'[t].what = m
      /\ \A u \in Threads \ {t} : mutation'[u] = mutation[u]
      /\ file' = file
  BY <1>2, AskFacts
<1>4. Ui \in Threads /\ Ui # Other
  BY UsersDiffer
<1>5. Users'
  BY <1>1, <1>3 DEF Users, Pending
<1>6. Chosen' /\ JobInv' /\ EngineInv'
  BY <1>1 DEF Chosen, JobInv, EngineInv
<1>7. t = Ui => \A k, v : m # Put(k, v)
  BY <1>4, NamesDiffer
<1>8. Unsaved' = Unsaved
  <2>1. CASE t = Ui
    BY <1>3, <1>7, <2>1 DEF Unsaved
  <2>2. CASE t # Ui
    BY <1>3, <1>4, <2>2 DEF Unsaved, Pending
  <2> QED
    BY <2>1, <2>2
<1>9. FileInv'
  BY <1>1, <1>3, <1>8 DEF FileInv
<1> QED
  BY <1>5, <1>6, <1>9 DEF ChosenInv

\* While nothing is left to be saved and the UI thread rests, the file has all
\* the chosen values that no other instance has replaced.
LEMMA AllSaved ==
    ASSUME StoreInv, FileInv, ~spoilt, job.left = <<>>, UiRests
    PROVE  \A k \in Keys \ foreign : OrDefault(file.settings[k]) = chosen[k]
<1>1. Range(job.left) = {}
  BY DEF Range
<1>2. ~Pending(Ui)
  BY DEF UiRests, Pending
<1> QED
  BY <1>1, <1>2 DEF FileInv, Unsaved

\* What the services are built from: the file, or defaults where it could not be
\* read, or the values of the change (rebuild_crypto, SecureWiper).
LEMMA BuildFacts ==
    ASSUME StoreInv, engine \in [Keys -> Values],
           NEW fromFile \in SUBSET Keys, NEW direct \in SUBSET Keys, Build(fromFile, direct),
           direct # {} => job.values \in [Keys -> Values]
    PROVE  /\ engine' \in [Keys -> Values]
           /\ \A k \in fromFile : k \in misread' \/ engine'[k] = OrDefault(file.settings[k])
           /\ \A k \in direct \ fromFile : engine'[k] = job.values[k]
           /\ \A k \in Keys \ (fromFile \cup direct) :
                 engine'[k] = engine[k] /\ (k \in misread => k \in misread')
<1>1. PICK blind \in SUBSET fromFile :
        /\ engine' = [k \in Keys |-> IF k \in blind THEN Default
                                    ELSE IF k \in fromFile THEN OrDefault(file.settings[k])
                                    ELSE IF k \in direct THEN job.values[k]
                                    ELSE engine[k]]
        /\ misread' = (misread \ (fromFile \cup direct)) \cup blind
  BY DEF Build
<1>2. \A k \in Keys : OrDefault(file.settings[k]) \in Values
  BY ConfigParts, SettingsAssumption DEF OrDefault, StoreInv, StoreTypeOK
<1>3. \A k \in Keys : engine'[k] = IF k \in blind THEN Default
                                   ELSE IF k \in fromFile THEN OrDefault(file.settings[k])
                                   ELSE IF k \in direct THEN job.values[k]
                                   ELSE engine[k]
  BY <1>1
<1>4. \A k \in Keys : engine'[k] \in Values
  BY <1>2, <1>3, SettingsAssumption
<1>5. engine' = [k \in Keys |-> engine'[k]]
  BY <1>1
<1>6. engine' \in [Keys -> Values]
  BY <1>4, <1>5
<1> QED
  BY <1>1, <1>3, <1>6

\* The services are built from a file that has what was chosen.
LEMMA BuildChosen ==
    ASSUME StoreInv, ChosenInv, BuildServices
    PROVE  ChosenInv'
<1>1. Chosen /\ Users /\ JobInv /\ FileInv /\ EngineInv
  BY DEF ChosenInv
<1>2. /\ up = "starting" /\ UiRests /\ Build(Keys, {}) /\ UNCHANGED <<file, mutation>>
      /\ UNCHANGED <<job, chosen, spoilt, foreign>>
  BY DEF BuildServices, storeVars
<1>3. job = NoJob
  BY <1>1, <1>2 DEF JobInv
<1>4. job.left = <<>>
  BY <1>3 DEF NoJob
<1>5. /\ engine' \in [Keys -> Values]
      /\ \A k \in Keys : k \in misread' \/ engine'[k] = OrDefault(file.settings[k])
  BY <1>1, <1>2, BuildFacts DEF Chosen
<1>6. Chosen'
  BY <1>1, <1>2, <1>5 DEF Chosen
<1>7. Users' /\ JobInv' /\ FileInv'
  BY <1>1, <1>2, <1>3 DEF Users, JobInv, FileInv, Unsaved, Pending
<1>8. EngineInv'
  <2>1. ASSUME ~spoilt, NEW k \in Keys \ foreign PROVE OrDefault(file.settings[k]) = chosen[k]
    BY <1>1, <1>2, <1>4, <2>1, AllSaved
  <2> QED
    BY <1>2, <1>5, <2>1 DEF EngineInv
<1> QED
  BY <1>6, <1>7, <1>8 DEF ChosenInv

\* A change begins: all its keys are still to be saved.
LEMMA BeginChosen ==
    ASSUME StoreInv, ChosenInv, NEW kind \in JobKinds, NEW values \in [Keys -> Values],
           BeginJob(kind, values)
    PROVE  ChosenInv'
<1> DEFINE S == Range(KeysOf(kind))
<1>1. Chosen /\ Users /\ JobInv /\ FileInv /\ EngineInv
  BY DEF ChosenInv
<1>2. /\ up = "up" /\ job = NoJob /\ UiRests
      /\ job' = [kind |-> kind, left |-> KeysOf(kind), values |-> values]
      /\ chosen' = [k \in Keys |-> IF k \in S THEN values[k] ELSE chosen[k]]
      /\ UNCHANGED <<file, mutation>> /\ UNCHANGED <<up, engine, spoilt, foreign, misread>>
  BY DEF BeginJob, storeVars
<1>3. job'.kind = kind /\ job'.left = KeysOf(kind) /\ job'.values = values
  BY <1>2
<1>4. job' # NoJob
  BY <1>3 DEF NoJob, JobKinds
<1>5. S \subseteq Keys
  BY KeysOfKeys
<1>6. job.left = <<>>
  BY <1>2 DEF NoJob
<1> HIDE DEF S
<1>7. Chosen'
  BY <1>1, <1>2 DEF Chosen
<1>8. Users'
  <2>1. ~Pending(Ui)
    BY <1>2 DEF UiRests, Pending
  <2> QED
    BY <1>1, <1>2, <2>1 DEF Users, Pending
<1>9. JobInv'
  BY <1>2, <1>3, <1>5 DEF JobInv, S
<1>10. FileInv'
  <2>1. Unsaved' = S
    <3>1. ~Pending(Ui)'
      BY <1>2 DEF UiRests, Pending
    <3> QED
      BY <1>3, <3>1 DEF Unsaved, S
  <2>2. ASSUME ~spoilt', NEW k \in Keys, k \notin S, k \notin foreign
        PROVE  OrDefault(file'.settings[k]) = chosen'[k]
    BY <1>1, <1>2, <1>6, <2>2, AllSaved
  <2> QED
    BY <1>2, <2>1, <2>2 DEF FileInv
<1>11. EngineInv'
  <2>1. ASSUME ~spoilt', NEW k \in Keys, k \notin S, k \notin foreign \cup misread
        PROVE  engine'[k] = chosen'[k]
    BY <1>1, <1>2, <2>1 DEF EngineInv
  <2> QED
    BY <1>2, <1>3, <1>4, <2>1 DEF EngineInv, S
<1> QED
  BY <1>7, <1>8, <1>9, <1>10, <1>11 DEF ChosenInv

\* A key that is asked to be saved is still unsaved.
LEMMA SaveChosen ==
    ASSUME StoreInv, JobOK, ChosenInv, SaveNext
    PROVE  ChosenInv'
<1> DEFINE key == Head(job.left)
           m == Put(key, job.values[key])
<1>1. Chosen /\ Users /\ JobInv /\ FileInv /\ EngineInv
  BY DEF ChosenInv
<1>2. /\ job.left # <<>> /\ UiRests /\ Ask(Ui, m)
      /\ job' = [job EXCEPT !.left = Tail(@)]
      /\ UNCHANGED <<up, engine, chosen, spoilt, foreign, misread>>
  BY DEF SaveNext, record
<1>3. job \in Jobs /\ job.left \in Seq(Keys) /\ job.values \in [Keys -> Values]
  BY DEF JobOK, Jobs
<1>4. key \in Keys /\ job.values[key] \in Values
  BY <1>2, <1>3
<1>5. /\ key \in Range(job.left)
      /\ Range(Tail(job.left)) \subseteq Range(job.left)
      /\ Range(job.left) \subseteq Range(Tail(job.left)) \cup {key}
  <2> DEFINE s == job.left
  <2>1. Len(s) \in Nat \ {0} /\ DOMAIN s = 1..Len(s) /\ key = s[1]
    BY <1>2, <1>3
  <2>2. DOMAIN Tail(s) = 1..(Len(s) - 1) /\ \A i \in 1..(Len(s) - 1) : Tail(s)[i] = s[i + 1]
    BY <1>2, <1>3
  <2> HIDE DEF s, key
  <2>3. s[1] \in Range(s)
    BY <2>1 DEF Range
  <2>4. \A i \in 1..(Len(s) - 1) : Tail(s)[i] \in Range(s)
    BY <2>1, <2>2 DEF Range
  <2>5. ASSUME NEW i \in 1..Len(s), i # 1 PROVE s[i] \in Range(Tail(s))
    <3>1. i - 1 \in 1..(Len(s) - 1) /\ (i - 1) + 1 = i
      BY <2>1, <2>5
    <3>2. Tail(s)[i - 1] = s[i]
      BY <2>2, <3>1
    <3> QED
      BY <2>2, <3>1, <3>2 DEF Range
  <2>6. Range(Tail(s)) \subseteq Range(s)
    BY <2>2, <2>4 DEF Range
  <2>7. Range(s) \subseteq Range(Tail(s)) \cup {s[1]}
    BY <2>1, <2>5 DEF Range
  <2> QED
    BY <2>1, <2>3, <2>6, <2>7 DEF s
<1>6. /\ job'.kind = job.kind /\ job'.left = Tail(job.left) /\ job'.values = job.values
  BY <1>2, <1>3 DEF Jobs
<1>7. m \in Mutators /\ Ui \in Threads
  BY <1>4, SettingsMutatorTypes, UsersDiffer
<1>8. job # NoJob /\ job.kind # "none"
  <2>1. job # NoJob
    BY <1>2 DEF NoJob
  <2> QED
    BY <1>1, <2>1 DEF JobInv, JobKinds
<1>9. job' # NoJob
  BY <1>6, <1>8 DEF NoJob
<1>10. /\ Pending(Ui)' /\ mutation'[Ui].what = m
       /\ \A u \in Threads \ {Ui} : mutation'[u] = mutation[u]
       /\ file' = file
  BY <1>2, <1>7, AskFacts
<1>11. key \in Range(KeysOf(job.kind))
  BY <1>1, <1>5, <1>8 DEF JobInv
<1>12. Users'
  <2>1. ASSUME NEW u \in Threads \ {Ui}, Pending(u)'
        PROVE  \/ mutation'[u].what \in {Normalize} \cup {Trace(x) : x \in Traces}
               \/ u = Other /\ mutation'[u].what \in SettingsMutators
    BY <1>1, <1>10, <2>1 DEF Users, Pending
  <2>2. \E k \in Range(KeysOf(job'.kind)) : mutation'[Ui].what = Put(k, job'.values[k])
    BY <1>6, <1>10, <1>11
  <2> QED
    BY <1>9, <2>1, <2>2 DEF Users
<1>13. JobInv'
  BY <1>1, <1>2, <1>5, <1>6, <1>8 DEF JobInv
<1>14. FileInv'
  <2>1. key \in Unsaved'
    BY <1>4, <1>10 DEF Unsaved
  <2>2. Range(job.left) \subseteq Unsaved'
    BY <1>5, <1>6, <2>1 DEF Unsaved
  <2>3. Unsaved \subseteq Unsaved'
    BY <1>2, <2>2 DEF Unsaved, UiRests, Pending
  <2> QED
    BY <1>1, <1>2, <1>10, <2>3 DEF FileInv
<1>15. EngineInv' /\ Chosen'
  BY <1>1, <1>2, <1>6, <1>9 DEF EngineInv, Chosen
<1> QED
  BY <1>12, <1>13, <1>14, <1>15 DEF ChosenInv

\* The change is over when all its keys are saved.
LEMMA ApplyChosen ==
    ASSUME StoreInv, JobOK, ChosenInv, Apply
    PROVE  ChosenInv'
<1> DEFINE S == Range(KeysOf(job.kind))
<1>1. Chosen /\ Users /\ JobInv /\ FileInv /\ EngineInv
  BY DEF ChosenInv
<1>2. /\ job # NoJob /\ job.left = <<>> /\ UiRests /\ job' = NoJob
      /\ Build(S \cap FromFile, S \ FromFile)
      /\ UNCHANGED <<file, mutation>> /\ UNCHANGED <<up, chosen, spoilt, foreign>>
  BY DEF Apply, storeVars
<1>3. S \subseteq Keys
  BY <1>1, <1>2, KeysOfKeys DEF JobInv
<1> HIDE DEF S
<1>4. job.values \in [Keys -> Values]
  BY DEF JobOK, Jobs
<1>5. /\ engine' \in [Keys -> Values]
      /\ \A k \in S \cap FromFile : k \in misread' \/ engine'[k] = OrDefault(file.settings[k])
      /\ \A k \in S \ FromFile : engine'[k] = job.values[k]
      /\ \A k \in Keys \ S : engine'[k] = engine[k] /\ (k \in misread => k \in misread')
  <2>1. S \cap FromFile \in SUBSET Keys /\ S \ FromFile \in SUBSET Keys
        /\ (S \cap FromFile) \cup (S \ FromFile) = S
        /\ (S \ FromFile) \ (S \cap FromFile) = S \ FromFile
    BY <1>3
  <2>2. engine \in [Keys -> Values]
    BY <1>1 DEF Chosen
  <2> QED
    BY <1>2, <1>4, <2>1, <2>2, BuildFacts
<1>6. Chosen'
  BY <1>1, <1>2, <1>5 DEF Chosen
<1>7. ~Pending(Ui) /\ ~Pending(Ui)'
  BY <1>2 DEF UiRests, Pending
<1>8. Users' /\ JobInv'
  BY <1>1, <1>2, <1>7 DEF Users, JobInv, Pending
<1>9. FileInv'
  <2>1. Unsaved' = {} /\ Unsaved = {}
    BY <1>2, <1>7 DEF Unsaved, Range, NoJob
  <2> QED
    BY <1>1, <1>2, <2>1 DEF FileInv
<1>10. EngineInv'
  <2> SUFFICES ASSUME ~spoilt, up = "up", NEW k \in Keys, k \notin foreign, k \notin misread'
               PROVE  engine'[k] = chosen[k]
    BY <1>2 DEF EngineInv
  <2>1. CASE k \in S
    <3>1. job.values[k] = chosen[k]
      BY <1>1, <1>2, <2>1 DEF JobInv, S
    <3>2. OrDefault(file.settings[k]) = chosen[k]
      BY <1>1, <1>2, AllSaved
    <3> QED
      BY <1>5, <2>1, <3>1, <3>2
  <2>2. CASE k \notin S
    BY <1>1, <1>5, <2>2 DEF EngineInv, S
  <2> QED
    BY <2>1, <2>2
<1> QED
  BY <1>6, <1>8, <1>9, <1>10 DEF ChosenInv

\* The instance ends; a change that was cut off is on record.
LEMMA StopChosen ==
    ASSUME StoreInv, ChosenInv, Stop
    PROVE  ChosenInv'
<1>1. Chosen /\ Users /\ JobInv /\ FileInv /\ EngineInv
  BY DEF ChosenInv
<1>2. /\ file' = file /\ up' = "down" /\ job' = NoJob
      /\ spoilt' = (spoilt \/ job # NoJob)
      /\ UNCHANGED <<chosen, foreign>> /\ engine' = [k \in Keys |-> Default]
      /\ \A u \in Threads : mutation'[u] = mutation[u] \/ mutation'[u] = Resting
      /\ mutation'[Ui] = Resting
  BY SettingsAssumption DEF Stop, Crash
<1>3. Resting.pc = "rest"
  BY DEF Resting
<1>4. \A u \in Threads : Pending(u)' => Pending(u) /\ mutation'[u] = mutation[u] /\ u # Ui
  BY <1>2, <1>3 DEF Pending
<1>5. Users'
  BY <1>1, <1>4 DEF Users
<1>6. Chosen' /\ JobInv' /\ EngineInv'
  BY <1>1, <1>2, SettingsAssumption DEF Chosen, JobInv, EngineInv
<1>7. FileInv'
  <2> SUFFICES ASSUME ~spoilt'
               PROVE  \A k \in Keys \ foreign : OrDefault(file.settings[k]) = chosen[k]
    BY <1>2 DEF FileInv
  <2>1. ~spoilt /\ job = NoJob
    BY <1>1, <1>2 DEF Chosen
  <2>2. Unsaved = {}
    <3>1. Range(job.left) = {}
      BY <2>1 DEF NoJob, Range
    <3>2. ASSUME Pending(Ui), NEW k, NEW v PROVE mutation[Ui].what # Put(k, v)
      BY <1>1, <2>1, <3>2, UsersDiffer, NamesDiffer DEF Users
    <3> QED
      BY <3>1, <3>2 DEF Unsaved
  <2> QED
    BY <1>1, <2>1, <2>2 DEF FileInv
<1> QED
  BY <1>5, <1>6, <1>7 DEF ChosenInv

\* Every step preserves the invariant.
LEMMA ChosenStep ==
    ASSUME StoreInv, JobOK, ChosenInv, [Next]_vars
    PROVE  ChosenInv'
<1>1. Chosen /\ Users /\ JobInv /\ FileInv /\ EngineInv
  BY DEF ChosenInv
<1>2. /\ Ui \in Threads /\ Worker \in Threads /\ Other \in Threads
      /\ {Normalize, SaveProfile} \cup {Trace(x) : x \in Traces} \subseteq SettingsMutators
  BY UsersDiffer DEF SettingsMutators
<1>3. CASE Start
  <2>1. up = "down" /\ up' = "starting" /\ Ask(Ui, Normalize)
        /\ UNCHANGED <<job, engine, chosen, spoilt, foreign, misread>>
    BY <1>3 DEF Start, record
  <2>2. job = NoJob
    BY <1>1, <2>1 DEF JobInv
  <2> QED
    BY <1>2, <2>1, <2>2, OtherRequest
<1>4. CASE MakeProfile
  <2>1. job = NoJob /\ up' = up /\ Ask(Ui, SaveProfile)
        /\ UNCHANGED <<job, engine, chosen, spoilt, foreign, misread>>
    BY <1>4 DEF MakeProfile
  <2> QED
    BY <1>2, <2>1, OtherRequest
<1>5. ASSUME NEW x \in Traces, WorkerTrace(x) PROVE ChosenInv'
  <2>1. /\ up' = up /\ Ask(Worker, Trace(x))
        /\ UNCHANGED <<job, engine, chosen, spoilt, foreign, misread>>
    BY <1>5 DEF WorkerTrace, settingsVars
  <2> QED
    BY <1>2, <2>1, OtherRequest
<1>6. ASSUME NEW m \in SettingsMutators, OtherWrites(m) PROVE ChosenInv'
  <2>1. /\ up' = up /\ Ask(Other, m)
        /\ UNCHANGED <<job, engine, chosen, spoilt, foreign, misread>>
    BY <1>6 DEF OtherWrites
  <2> QED
    BY <1>2, <2>1, OtherRequest
<1>7. ASSUME NEW t \in Threads, StoreStep(t) PROVE ChosenInv'
  BY <1>7, StoreStepChosen
<1>8. ASSUME NEW kind \in JobKinds, NEW values \in [Keys -> Values], BeginJob(kind, values)
      PROVE  ChosenInv'
  BY <1>8, BeginChosen
<1>9. CASE BuildServices
  BY <1>9, BuildChosen
<1>10. CASE SaveNext
  BY <1>10, SaveChosen
<1>11. CASE Apply
  BY <1>11, ApplyChosen
<1>12. CASE Stop
  BY <1>12, StopChosen
<1>13. CASE UNCHANGED vars
  <2>1. UNCHANGED <<up, job, engine, chosen, spoilt, foreign, misread, file, mutation>>
    BY <1>13 DEF vars, storeVars, settingsVars
  <2> QED
    BY <1>1, <2>1
       DEF ChosenInv, Chosen, Users, JobInv, FileInv, EngineInv, Unsaved, Pending
<1> QED
  BY <1>3, <1>4, <1>5, <1>6, <1>7, <1>8, <1>9, <1>10, <1>11, <1>12, <1>13 DEF Next

\* What the file, the services and a change under way have to do with each other
\* at each point of a change (save_kdf_settings, apply_profile), while another
\* instance writes anything into the file.
THEOREM ChosenInvariance == Spec => [](StoreInv /\ JobOK /\ ChosenInv)
<1>1. Spec => []StoreInv
  BY SettingsUseStore, StoreInvariance, PTL
<1>2. Spec => []ChosenInv
  <2>1. StoreInv /\ JobOK /\ ChosenInv /\ [Next]_vars => ChosenInv'
    BY ChosenStep
  <2> QED
    BY <1>1, <2>1, ChosenInitially, JobTypes, PTL DEF Spec
<1> QED
  BY <1>1, <1>2, JobTypes, PTL

\* Outside a change nothing is left to be saved.
LEMMA NothingUnsaved ==
    ASSUME Users, job = NoJob
    PROVE  Unsaved = {}
<1>1. Range(job.left) = {}
  BY DEF NoJob, Range
<1>2. ASSUME Pending(Ui), NEW k, NEW v PROVE mutation[Ui].what # Put(k, v)
  BY <1>2, UsersDiffer, NamesDiffer DEF Users
<1> QED
  BY <1>1, <1>2 DEF Unsaved

\* Between two changes each service works with what was chosen, and the file has
\* it for the next start, whatever the worker and another instance, its user
\* too, write into the file meanwhile; but for the keys which that instance sets
\* and the services built when the file could not be read, and until the file
\* fails, the other instance writes back an old copy, or a change is cut off
\* (save_kdf_settings, apply_profile, rebuild_crypto).
THEOREM ServicesAsChosen == Spec => []EngineAsChosen
<1>1. StoreInv /\ JobOK /\ ChosenInv => EngineAsChosen
  <2> SUFFICES ASSUME StoreInv, ChosenInv, up = "up", job = NoJob, ~spoilt,
                      NEW k \in Keys, k \notin foreign
               PROVE  /\ OrDefault(file.settings[k]) = chosen[k]
                      /\ k \in misread \/ engine[k] = chosen[k]
    BY DEF EngineAsChosen
  <2>1. Users /\ FileInv /\ EngineInv
    BY DEF ChosenInv
  <2>2. k \in misread \/ engine[k] = chosen[k]
    BY <2>1 DEF EngineInv
  <2>3. Unsaved = {}
    BY <2>1, NothingUnsaved
  <2>4. OrDefault(file.settings[k]) = chosen[k]
    BY <2>1, <2>3 DEF FileInv
  <2> QED
    BY <2>2, <2>4
<1> QED
  BY <1>1, ChosenInvariance, PTL

\* A profile holds values that were chosen together, whichever instance makes it:
\* ours never makes one while a change is half saved, the other one only of the
\* keys of that change (save_profile).
THEOREM ProfilesAsChosen == Spec => ProfileWasChosen
<1>1. StoreInv /\ JobOK /\ ChosenInv /\ [Next]_vars =>
        [(file'.profile # file.profile /\ ~spoilt') =>
            \A k \in Keys \ foreign :
               \/ file'.profile[k] = chosen[k]
               \/ mutation[Other].pc = "save" /\ k \in Range(KeysOf(job.kind))]_vars
  <2> SUFFICES ASSUME StoreInv, JobOK, ChosenInv, Next,
                      file'.profile # file.profile, ~spoilt', NEW k \in Keys, k \notin foreign
               PROVE  \/ file'.profile[k] = chosen[k]
                      \/ mutation[Other].pc = "save" /\ k \in Range(KeysOf(job.kind))
    OBVIOUS
  <2>1. Chosen /\ Users /\ JobInv /\ FileInv
    BY DEF ChosenInv
  <2>2. PICK t \in Threads : StoreStep(t)
    BY DEF Next, Start, BuildServices, BeginJob, SaveNext, Apply, MakeProfile, WorkerTrace,
           OtherWrites, Stop, Ask, Crash, storeVars
  <2>3. spoilt \in BOOLEAN
    BY <2>1 DEF Chosen
  <2>4. /\ mutation[t].pc = "save" /\ spoilt' = spoilt
        /\ file' = Effect[mutation[t].what][file]
    BY <2>2, <2>3, StoreStepFacts
  <2>5. /\ mutation[t].what = SaveProfile /\ file'.profile = Normal(file)
        /\ t = Other \/ (t = Ui /\ job = NoJob)
    BY <2>1, <2>4, WriteFacts DEF Pending
  <2>6. file'.profile[k] = OrDefault(file.settings[k])
    BY <2>5, NormalFacts DEF StoreInv, StoreTypeOK
  <2>7. CASE k \notin Unsaved
    BY <2>1, <2>4, <2>6, <2>7 DEF FileInv
  <2>8. CASE k \in Unsaved
    <3>1. job # NoJob
      BY <2>1, <2>8, NothingUnsaved
    <3>2. t = Other
      BY <2>5, <3>1
    <3>3. k \in Range(KeysOf(job.kind))
      <4>1. CASE k \in Range(job.left)
        BY <2>1, <3>1, <4>1 DEF JobInv
      <4>2. CASE Pending(Ui) /\ \E v \in Values : mutation[Ui].what = Put(k, v)
        BY <2>1, <4>2, UsersDiffer, NamesDiffer DEF Users
      <4> QED
        BY <2>8, <4>1, <4>2 DEF Unsaved
    <3> QED
      BY <2>4, <3>2, <3>3
  <2> QED
    BY <2>7, <2>8
<1> QED
  BY <1>1, ChosenInvariance, PTL DEF Spec, ProfileWasChosen
=============================================================================
