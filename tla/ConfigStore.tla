----------------------------- MODULE ConfigStore -----------------------------
(***************************************************************************)
(* The configuration file, which holds the settings, the profiles, the     *)
(* recent paths, the fingerprints and the monitored directories.           *)
(*                                                                         *)
(* _mutate_cfg reads the whole file, changes the copy and writes all of it *)
(* back, under a lock of the process.  Reading never fails: a file that    *)
(* cannot be read counts as an empty one.  Writing never fails either, as  *)
(* far as the caller can see: the error is logged.  A second instance of   *)
(* the application has a lock of its own.                                  *)
(***************************************************************************)
CONSTANTS
    Config,      \* contents of the file
    Empty,       \* {}
    Mutators,    \* the changes the application makes
    Effect,      \* mutator -> what it makes of each content
    Threads,
    Nobody,
    InstanceOf   \* thread -> the process it belongs to

ASSUME StoreAssumption ==
    /\ Empty \in Config
    /\ Mutators # {}
    /\ Effect \in [Mutators -> [Config -> Config]]
    /\ Nobody \notin Threads

VARIABLES
    file,
    lock,     \* _CONFIG_LOCK of each process
    mutation  \* the _mutate_cfg of each thread

storeVars == <<file, lock, mutation>>

-----------------------------------------------------------------------------
Instances == {InstanceOf[t] : t \in Threads}

\* seen is the copy; blind: the file could not be read; rival: another process
\* has replaced the file since it was read.
Mutation == [pc: {"rest", "ask", "load", "save", "release"}, what: Mutators,
             seen: Config, blind: BOOLEAN, rival: BOOLEAN]

Resting == [pc |-> "rest", what |-> CHOOSE m \in Mutators : TRUE,
            seen |-> Empty, blind |-> FALSE, rival |-> FALSE]

Done == [Resting EXCEPT !.pc = "release"]

InStore(t, pc) == mutation[t].pc = pc

\* The lock is held from Acquire to Release.
Holding(t) == mutation[t].pc \in {"load", "save", "release"}

StoreInit ==
    /\ file \in Config
    /\ lock = [i \in Instances |-> Nobody]
    /\ mutation = [t \in Threads |-> Resting]

-----------------------------------------------------------------------------
\* _mutate_cfg is called.
Ask(t, m) ==
    /\ InStore(t, "rest")
    /\ mutation' = [mutation EXCEPT ![t] = [Resting EXCEPT !.pc = "ask", !.what = m]]
    /\ UNCHANGED <<file, lock>>

\* Mutant: no lock.
AcquireAnyway(t) ==
    /\ InStore(t, "ask")
    /\ lock' = [lock EXCEPT ![InstanceOf[t]] = t]
    /\ mutation' = [mutation EXCEPT ![t].pc = "load"]
    /\ UNCHANGED file

Acquire(t) ==
    /\ InStore(t, "ask") /\ lock[InstanceOf[t]] = Nobody
    /\ lock' = [lock EXCEPT ![InstanceOf[t]] = t]
    /\ mutation' = [mutation EXCEPT ![t].pc = "load"]
    /\ UNCHANGED file

\* _load_cfg.
Load(t) ==
    /\ InStore(t, "load")
    /\ \E blind \in BOOLEAN :
          mutation' = [mutation EXCEPT ![t] =
                         [@ EXCEPT !.pc = "save", !.blind = blind,
                                   !.seen = IF blind THEN Empty ELSE file]]
    /\ UNCHANGED <<file, lock>>

\* The mutator, and _save_cfg: a complete new file takes the place of the old.
Replace(t) ==
    /\ InStore(t, "save")
    /\ file' = Effect[mutation[t].what][mutation[t].seen]
    /\ mutation' = [u \in Threads |->
          IF u = t THEN Done
          ELSE IF InstanceOf[u] = InstanceOf[t] THEN mutation[u]
          ELSE [mutation[u] EXCEPT !.rival = @ \/ InStore(u, "save")]]
    /\ UNCHANGED lock

\* Writing fails, or the mutator raises.
SaveFails(t) ==
    /\ InStore(t, "save")
    /\ mutation' = [mutation EXCEPT ![t] = Done]
    /\ UNCHANGED <<file, lock>>

Release(t) ==
    /\ InStore(t, "release")
    /\ lock' = [lock EXCEPT ![InstanceOf[t]] = Nobody]
    /\ mutation' = [mutation EXCEPT ![t] = Resting]
    /\ UNCHANGED file

\* A process ends; what it was writing stays a temporary file.
Crash(i) ==
    /\ lock' = [lock EXCEPT ![i] = Nobody]
    /\ mutation' = [t \in Threads |-> IF InstanceOf[t] = i THEN Resting ELSE mutation[t]]
    /\ UNCHANGED file

StoreNext ==
    \/ \E t \in Threads :
          \/ \E m \in Mutators : Ask(t, m)
          \/ Acquire(t) \/ Load(t) \/ Replace(t) \/ SaveFails(t) \/ Release(t)
    \/ \E i \in Instances : Crash(i)

StoreSpec == StoreInit /\ [][StoreNext]_storeVars

-----------------------------------------------------------------------------
(* Properties *)

\* Types of the variables.
StoreTypeOK ==
    /\ file \in Config
    /\ lock \in [Instances -> Threads \cup {Nobody}]
    /\ mutation \in [Threads -> Mutation]

\* One thread of a process at a time (with _CONFIG_LOCK).
Exclusive ==
    \A t, u \in Threads :
        (t # u /\ InstanceOf[t] = InstanceOf[u]) => ~(Holding(t) /\ Holding(u))

\* No change is lost: whoever replaces the file replaces what it holds now by
\* the effect of one mutator on it (_mutate_cfg).  Excepted are changes by
\* another process, and the file that could not be read.
NoLostUpdate ==
    [][file' # file =>
          \E t \in Threads :
             /\ mutation[t].pc = "save" /\ mutation'[t].pc = "release"
             /\ \/ mutation[t].blind
                \/ mutation[t].rival
                \/ file' = Effect[mutation[t].what][file]]_storeVars

\* Why: the copy is up to date, and the lock is with the thread that works.
Copies ==
    \A t \in Threads :
        /\ Holding(t) => lock[InstanceOf[t]] = t
        /\ (InStore(t, "save") /\ ~mutation[t].blind /\ ~mutation[t].rival)
              => mutation[t].seen = file
=============================================================================
