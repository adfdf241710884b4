------------------------------- MODULE Settings -------------------------------
(***************************************************************************)
(* The settings and the services they are for.                             *)
(*                                                                         *)
(* A change of the settings is several _mutate_cfg in a row, on the UI     *)
(* thread, one for each key; then the service is built anew, either from   *)
(* what the file holds by now (crypto engine, version manager) or from the *)
(* value chosen (wiper, activity log).  Worker threads write recent paths  *)
(* and fingerprints into the same file meanwhile; a second instance does   *)
(* that too, and changes settings and profiles in its own window.  A start *)
(* puts valid values in the place of missing ones and builds the services  *)
(* from the file, or from defaults where it cannot read it.                *)
(***************************************************************************)
EXTENDS ConfigStore, Naturals, Sequences, Functions

CONSTANTS
    Values,       \* choices a setting has
    Choices,      \* bound: combinations of them that the user chooses
    Absent,       \* the key is not there
    Default,
    Traces,       \* recent paths and fingerprints
    Ui, Worker,   \* threads of the instance we follow
    Other,        \* a thread of another instance
    MaxJobs,      \* bound: changes of the settings
    MaxMishaps    \* bound: failures of the file, ends of our instance, and
                  \* writes of the other, together

VARIABLES
    up,       \* our instance: down, starting or up
    job,      \* the change of settings in progress
    engine,   \* the values the services work with
    chosen,   \* the values the user has chosen last
    spoilt,   \* a file was not written or from an old copy, or a job was cut off
    foreign,  \* keys whose value in the file another instance has chosen
    misread,  \* keys whose service was built when the file could not be read
    jobs,     \* changes begun, for the bound
    mishaps   \* for the bound

settingsVars == <<up, job, engine, chosen, spoilt, foreign, misread, jobs, mishaps>>
vars == <<storeVars, settingsVars>>

-----------------------------------------------------------------------------
\* The keys each change saves, in their order: two stand for the three of the
\* key derivation and for the four of the versions, which are saved the same way.
KeysOf(kind) ==
    CASE kind = "none" -> <<>>
      [] kind = "kdf" -> <<"memory", "time">>
      [] kind = "wipe" -> <<"wipe">>
      [] kind = "profile" -> <<"memory", "time", "wipe">>

JobKinds == {"kdf", "wipe", "profile"}
Keys == {"memory", "time", "wipe"}

\* Services built from the file; the others take the chosen value.
FromFile == {"memory", "time"}

SettingsConfig ==
    [settings: [Keys -> Values \cup {Absent}],
     profile: [Keys -> Values] \cup {Absent},
     traces: SUBSET Traces]

NoSettings == [settings |-> [k \in Keys |-> Absent], profile |-> Absent, traces |-> {}]

Put(k, v) == <<"put", k, v>>
Trace(x) == <<"trace", x, Default>>
Normalize == <<"normalize", "all", Default>>
SaveProfile == <<"profile", "all", Default>>

SettingsMutators ==
    {Put(k, v) : k \in Keys, v \in Values} \cup {Trace(x) : x \in Traces}
        \cup {Normalize, SaveProfile}

\* normalize_settings, get_setting: a default for what is not there.
OrDefault(v) == IF v = Absent THEN Default ELSE v
Normal(c) == [k \in Keys |-> OrDefault(c.settings[k])]

SettingsEffect ==
    [m \in SettingsMutators |-> [c \in SettingsConfig |->
        CASE m[1] = "put" -> [c EXCEPT !.settings[m[2]] = m[3]]
          [] m[1] = "trace" -> [c EXCEPT !.traces = @ \cup {m[2]}]
          [] m[1] = "normalize" -> [c EXCEPT !.settings = Normal(c)]
          [] m[1] = "profile" -> [c EXCEPT !.profile = Normal(c)]]]

ASSUME SettingsAssumption ==
    /\ Config = SettingsConfig /\ Empty = NoSettings
    /\ Mutators = SettingsMutators /\ Effect = SettingsEffect
    /\ Default \in Values /\ Absent \notin Values
    /\ Absent \notin [Keys -> Values] /\ Choices \subseteq [Keys -> Values]
    /\ {Ui, Worker, Other} = Threads
    /\ InstanceOf[Ui] = InstanceOf[Worker] /\ InstanceOf[Other] # InstanceOf[Ui]
    /\ {MaxJobs, MaxMishaps} \subseteq Nat

NoJob == [kind |-> "none", left |-> <<>>, values |-> [k \in Keys |-> Default]]

Init ==
    /\ StoreInit
    /\ file = NoSettings
    /\ up = "down" /\ job = NoJob
    /\ engine = [k \in Keys |-> Default] /\ chosen = engine
    /\ spoilt = FALSE /\ foreign = {} /\ misread = {} /\ jobs = 0 /\ mishaps = 0

UiRests == mutation[Ui].pc = "rest"

\* What happened, for the properties and the bounds.
record == <<spoilt, foreign, misread, jobs, mishaps>>

\* The keys that a change of the file sets.
Saves(m) == {k \in Keys : \E v \in Values : m = Put(k, v)}

Mishap == mishaps < MaxMishaps /\ mishaps' = mishaps + 1

\* Services are built anew: those of some keys from the file, with get_setting and
\* the default where it cannot be read, those of others with the chosen value.
Build(fromFile, direct) ==
    \E blind \in SUBSET fromFile :
        /\ IF blind = {} THEN UNCHANGED mishaps ELSE Mishap
        /\ engine' = [k \in Keys |-> IF k \in blind THEN Default
                                    ELSE IF k \in fromFile THEN OrDefault(file.settings[k])
                                    ELSE IF k \in direct THEN job.values[k]
                                    ELSE engine[k]]
        /\ misread' = (misread \ (fromFile \cup direct)) \cup blind

-----------------------------------------------------------------------------
\* AppServices.__init__: ensure_modern_settings_defaults ...
Start ==
    /\ up = "down"
    /\ Ask(Ui, Normalize)
    /\ up' = "starting"
    /\ UNCHANGED <<job, engine, chosen, record>>

\* ... then the services.
BuildServices ==
    /\ up = "starting" /\ UiRests
    /\ up' = "up" /\ Build(Keys, {})
    /\ UNCHANGED <<storeVars, job, chosen, spoilt, foreign, jobs>>

\* save_kdf_settings (which the screen offers only between operations),
\* save_wipe_passes; a profile's values come from the file.
BeginJob(kind, values) ==
    /\ up = "up" /\ job = NoJob /\ UiRests
    /\ jobs < MaxJobs /\ jobs' = jobs + 1
    /\ IF kind = "profile" THEN values = file.profile ELSE values \in Choices
    /\ job' = [kind |-> kind, left |-> KeysOf(kind), values |-> values]
    /\ chosen' = [k \in Keys |-> IF k \in Range(KeysOf(kind)) THEN values[k] ELSE chosen[k]]
    /\ UNCHANGED <<storeVars, up, engine, spoilt, foreign, misread, mishaps>>

\* Mutant: save_kdf_settings saves the first of its values only.
SaveFirst ==
    /\ job.left # <<>> /\ UiRests
    /\ Ask(Ui, Put(Head(job.left), job.values[Head(job.left)]))
    /\ job' = [job EXCEPT !.left = <<>>]
    /\ UNCHANGED <<up, engine, chosen, record>>

\* save_setting, one key after another.
SaveNext ==
    /\ job.left # <<>> /\ UiRests
    /\ Ask(Ui, Put(Head(job.left), job.values[Head(job.left)]))
    /\ job' = [job EXCEPT !.left = Tail(@)]
    /\ UNCHANGED <<up, engine, chosen, record>>

\* Mutant: the crypto engine is not built anew.
ApplyDirectOnly ==
    /\ job # NoJob /\ job.left = <<>> /\ UiRests
    /\ Build({}, Range(KeysOf(job.kind)) \ FromFile)
    /\ job' = NoJob
    /\ UNCHANGED <<storeVars, up, chosen, spoilt, foreign, jobs>>

\* rebuild_crypto and _build_versioner read the file; SecureWiper(passes) and
\* logger.enabled take the value, whether it could be saved or not.
Apply ==
    /\ job # NoJob /\ job.left = <<>> /\ UiRests
    /\ LET keys == Range(KeysOf(job.kind)) IN Build(keys \cap FromFile, keys \ FromFile)
    /\ job' = NoJob
    /\ UNCHANGED <<storeVars, up, chosen, spoilt, foreign, jobs>>

\* save_profile: the settings are read under the lock.
MakeProfile ==
    /\ up = "up" /\ job = NoJob
    /\ jobs < MaxJobs /\ jobs' = jobs + 1
    /\ Ask(Ui, SaveProfile)
    /\ UNCHANGED <<up, job, engine, chosen, spoilt, foreign, misread, mishaps>>

\* push_recent and _save_fingerprint, on a worker thread (one that is there
\* already would only move to the front).
WorkerTrace(x) ==
    /\ up = "up" /\ x \notin file.traces
    /\ Ask(Worker, Trace(x))
    /\ UNCHANGED settingsVars

\* Another instance does the same, normalizes the file when it starts, and its
\* user changes settings and profiles, one key after another, of which each may
\* be the last.
OtherWrites(m) ==
    /\ Mishap
    /\ Ask(Other, m)
    /\ UNCHANGED <<up, job, engine, chosen, spoilt, foreign, misread, jobs>>

-----------------------------------------------------------------------------
\* What goes on inside _mutate_cfg.
StoreStep(t) ==
    /\ \/ /\ Acquire(t) \/ Release(t)
          /\ UNCHANGED <<spoilt, foreign, mishaps>>
       \/ /\ Load(t)
          /\ IF mutation'[t].blind THEN Mishap ELSE UNCHANGED mishaps
          /\ UNCHANGED <<spoilt, foreign>>
       \/ /\ Replace(t)
          /\ spoilt' = (spoilt \/ mutation[t].blind \/ mutation[t].rival)
          /\ foreign' = IF t = Other THEN foreign \cup Saves(mutation[t].what)
                                     ELSE foreign \ Saves(mutation[t].what)
          /\ UNCHANGED mishaps
       \/ SaveFails(t) /\ Mishap /\ spoilt' = TRUE /\ UNCHANGED foreign
    /\ UNCHANGED <<up, job, engine, chosen, misread, jobs>>

\* Our instance ends, orderly or not, and its services with it; when a job is cut
\* off the file has part of it.
Stop ==
    /\ up # "down"
    /\ Mishap
    /\ Crash(InstanceOf[Ui])
    /\ up' = "down" /\ job' = NoJob
    /\ spoilt' = (spoilt \/ job # NoJob)
    /\ engine' = [k \in Keys |-> Default] /\ misread' = {}
    /\ UNCHANGED <<chosen, foreign, jobs>>

Next ==
    \/ Start
    \/ BuildServices
    \/ \E kind \in JobKinds, values \in [Keys -> Values] : BeginJob(kind, values)
    \/ SaveNext
    \/ Apply
    \/ MakeProfile
    \/ \E x \in Traces : WorkerTrace(x)
    \/ \E m \in SettingsMutators : OtherWrites(m)
    \/ \E t \in Threads : StoreStep(t)
    \/ Stop

Spec == Init /\ [][Next]_vars

-----------------------------------------------------------------------------
(* Properties *)

\* Between two changes each service works with the value the user has chosen
\* last, and the file holds it for the next start: no combination of old and new
\* values, and no worker that writes an old copy back over them
\* (save_kdf_settings, apply_profile, rebuild_crypto).  Excepted are a file that
\* failed or was overwritten with an old copy by another instance, a change cut
\* off, keys that another instance has set since, and services built when the
\* file could not be read.
EngineAsChosen ==
    (up = "up" /\ job = NoJob /\ ~spoilt) =>
        \A k \in Keys \ foreign :
            /\ OrDefault(file.settings[k]) = chosen[k]
            /\ k \in misread \/ engine[k] = chosen[k]

\* A profile holds of each key the value chosen last, whichever instance makes
\* it, and not some of an earlier choice (save_profile); but for keys that
\* another instance has set, and those of a change under way, which only the
\* other instance can catch halfway.
ProfileWasChosen ==
    [][(file'.profile # file.profile /\ ~spoilt') =>
          \A k \in Keys \ foreign :
              \/ file'.profile[k] = chosen[k]
              \/ mutation[Other].pc = "save" /\ k \in Range(KeysOf(job.kind))]_vars
=============================================================================
