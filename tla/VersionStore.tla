----------------------------- MODULE VersionStore -----------------------------
(***************************************************************************)
(* The version history: copies of vaults made before they are overwritten, *)
(* and the pruning that keeps their number and their total size in bounds. *)
(*                                                                         *)
(* Two threads prune: the worker of a re-key, after each copy it makes,    *)
(* and once, at the start of the application, prune_all.  They take no     *)
(* lock; each works through lists of the directories it read earlier.  A   *)
(* version file carries the modification time of the vault it copies.      *)
(***************************************************************************)
EXTENDS Naturals, FiniteSets, FiniteSetsExt

CONSTANTS
    Vaults,          \* vault files under version control
    SizeOf,          \* size of each vault
    MaxPerVault,     \* max_versions_per_vault
    MaxTotalSize,    \* max_total_size_bytes
    Past,            \* versions of earlier sessions: stamps 0..Past-1
    MaxTime,         \* bound of the clock, so of the saves
    StartupPrune,    \* prune_all runs beside the worker
    MtimeRepeats,    \* a re-key may fail after its copy, a version be put back
    UnlinkMayFail    \* the file system may refuse to delete a file

ASSUME StoreAssumption ==
    /\ IsFiniteSet(Vaults) /\ Vaults # {}
    /\ MaxPerVault \in Nat \ {0}
    /\ MaxTotalSize \in Nat
    /\ SizeOf \in [Vaults -> 1..MaxTotalSize]
    /\ Past \in Nat /\ MaxTime \in Nat /\ Past < MaxTime
    /\ {StartupPrune, MtimeRepeats, UnlinkMayFail} \subseteq BOOLEAN

VARIABLES
    now,       \* the clock
    mtime,     \* modification time of each vault
    dirs,      \* vaults whose versions directory exists
    store,     \* version file -> its modification time
    worker,    \* the re-key worker
    pruner     \* the prune of each thread

vars == <<now, mtime, dirs, store, worker, pruner>>

-----------------------------------------------------------------------------
Times == 0..MaxTime

\* A version file is named after its vault and the second it was made in.
Paths == Vaults \X Times

Threads == {"rekey", "startup"}

Existing == DOMAIN store
FilesIn(v) == {p \in Existing : p[1] = v}
SizeOfAll(S) == MapThenSumSet(LAMBDA p : SizeOf[p[1]], S)

\* alone: the start-up prune was over when this save began.
Idle == [pc |-> "idle", vault |-> CHOOSE v \in Vaults : TRUE, stamp |-> 0, alone |-> TRUE]

File == <<worker.vault, worker.stamp>>

\* A prune that has not begun, or has returned; left are the vault directories
\* it still has to visit, seen the modification times it has read.
Resting(pc) == [pc |-> pc, dir |-> Idle.vault, left |-> {},
                seen |-> [p \in {} |-> 0], total |-> 0]

Starting(vs) == [Resting("visit") EXCEPT !.left = vs]

Seen(t) == DOMAIN pruner[t].seen

\* The first files of a list sorted by the modification times read.
IsOldest(seen, p) == \A q \in DOMAIN seen : seen[p] <= seen[q]

Without(f, p) == [q \in DOMAIN f \ {p} |-> f[q]]

Set(t, rec) == pruner' = [pruner EXCEPT ![t] = rec]

Init ==
    \E kept \in SUBSET (Vaults \X (0..(Past - 1))) :
        /\ now = Past + 1
        /\ mtime = [v \in Vaults |-> Past]
        /\ store = [p \in kept |-> p[2]]
        /\ dirs = {p[1] : p \in kept}
        /\ worker = Idle
        /\ pruner = [t \in Threads |->
                        IF t = "startup" /\ StartupPrune THEN Starting(dirs)
                                                         ELSE Resting("rest")]

-----------------------------------------------------------------------------
(* save_version, on the worker thread *)

\* mkdir(parents=True, exist_ok=True), and a name of its own.
MakeDir(v) ==
    /\ worker.pc = "idle" /\ now < MaxTime
    /\ dirs' = dirs \cup {v}
    /\ worker' = [pc |-> "create", vault |-> v, stamp |-> now,
                   alone |-> pruner["startup"].pc \in {"rest", "raised"}]
    /\ now' = now + 1
    /\ UNCHANGED <<mtime, store, pruner>>

\* The first half of copy2: the file is there, its time is the present.  There
\* is no such file when the directory has been removed meanwhile.
CreateCopy ==
    /\ worker.pc = "create"
    /\ \/ /\ worker.vault \in dirs
          /\ store' = [p \in Existing \cup {File} |-> IF p = File THEN now ELSE store[p]]
          /\ worker' = [worker EXCEPT !.pc = "stamp"]
       \/ /\ worker.vault \notin dirs
          /\ worker' = [worker EXCEPT !.pc = "unsaved"]
          /\ UNCHANGED store
    /\ UNCHANGED <<now, mtime, dirs, pruner>>

\* The second half: the modification time of the vault.  Then the prune, unless
\* the file is gone already.
StampCopy ==
    /\ worker.pc = "stamp"
    /\ \/ /\ File \in Existing
          /\ store' = [store EXCEPT ![File] = mtime[worker.vault]]
          /\ worker' = [worker EXCEPT !.pc = "prune"]
          /\ Set("rekey", Starting({worker.vault}))
       \/ /\ File \notin Existing
          /\ worker' = [worker EXCEPT !.pc = "unsaved"]
          /\ UNCHANGED <<store, pruner>>
    /\ UNCHANGED <<now, mtime, dirs>>

\* save_version returns the path, or None when the prune raised.
ReturnPath ==
    /\ worker.pc = "prune"
    /\ \/ pruner["rekey"].pc = "rest" /\ worker' = [worker EXCEPT !.pc = "saved"]
       \/ pruner["rekey"].pc = "raised" /\ worker' = [worker EXCEPT !.pc = "unsaved"]
    /\ UNCHANGED <<now, mtime, dirs, store, pruner>>

\* The re-key replaces the vault, saved version or not.
Overwrite ==
    /\ worker.pc \in {"saved", "unsaved"}
    /\ mtime' = [mtime EXCEPT ![worker.vault] = now]
    /\ worker' = Idle
    /\ UNCHANGED <<now, dirs, store, pruner>>

\* The re-key fails or is cancelled: the vault stays as it is.
KeepVault ==
    /\ MtimeRepeats
    /\ worker.pc \in {"saved", "unsaved"}
    /\ worker' = Idle
    /\ UNCHANGED <<now, mtime, dirs, store, pruner>>

\* replace_current: copy2 gives the vault the old modification time.
ReplaceCurrent(p) ==
    /\ MtimeRepeats
    /\ worker.pc = "idle" /\ p \in Existing
    /\ mtime' = [mtime EXCEPT ![p[1]] = store[p]]
    /\ UNCHANGED <<now, dirs, store, worker, pruner>>

\* A file goes, and its directory with it when it was the last one.
Unlink(p) ==
    /\ p \in Existing
    /\ store' = Without(store, p)

LeavesEmpty(p) == FilesIn(p[1]) = {p}

DeleteVersion(p) ==
    /\ worker.pc = "idle"
    /\ Unlink(p)
    /\ dirs' = IF LeavesEmpty(p) THEN dirs \ {p[1]} ELSE dirs
    /\ UNCHANGED <<now, mtime, worker, pruner>>

-----------------------------------------------------------------------------
(* Pruning, on thread t *)

\* The number of versions: prune_all goes through all vault directories, the
\* worker looks at one.  iterdir raises when the directory is gone; the worker
\* may have noticed that before.
Visit(t) ==
    /\ pruner[t].pc = "visit"
    /\ \/ \E v \in pruner[t].left :
            LET rest == pruner[t].left \ {v} IN
            \/ /\ v \in dirs
               /\ Set(t, [pruner[t] EXCEPT !.pc = "stat", !.dir = v, !.left = rest,
                                           !.seen = [p \in FilesIn(v) |-> 0]])
            \/ v \notin dirs /\ Set(t, Resting("raised"))
            \/ v \notin dirs /\ t = "rekey" /\ Set(t, [pruner[t] EXCEPT !.left = rest])
       \/ pruner[t].left = {} /\ Set(t, [Starting(dirs) EXCEPT !.pc = "scan"])
    /\ UNCHANGED <<now, mtime, dirs, store, worker>>

\* Mutant: one version too many stays.
ExcessTooSmall(n) == IF n > MaxPerVault THEN n - MaxPerVault - 1 ELSE 0

Excess(n) == IF n > MaxPerVault THEN n - MaxPerVault ELSE 0

\* Mutant: sorted the other way round.
AreNewest(victims, all) == \A p \in victims, q \in all \ victims : store[p] >= store[q]

\* files[:excess] of the sorted list; the order among equal times is open.
AreOldest(victims, all) == \A p \in victims, q \in all \ victims : store[p] <= store[q]

\* The sort looks at every file of the list; one that is gone raises.  The
\* excess is kept for deletion.
Stat(t) ==
    /\ pruner[t].pc = "stat"
    /\ \/ /\ Seen(t) \subseteq Existing
          /\ \E victims \in kSubset(Excess(Cardinality(Seen(t))), Seen(t)) :
                /\ AreOldest(victims, Seen(t))
                /\ Set(t, [pruner[t] EXCEPT !.pc = "count",
                                            !.seen = [p \in victims |-> store[p]]])
       \/ ~(Seen(t) \subseteq Existing) /\ Set(t, Resting("raised"))
    /\ UNCHANGED <<now, mtime, dirs, store, worker>>

\* One deletion, or a warning that it failed.
PruneCount(t) ==
    /\ pruner[t].pc = "count"
    /\ \/ \E p \in Seen(t) :
            /\ IsOldest(pruner[t].seen, p)
            /\ Set(t, [pruner[t] EXCEPT !.seen = Without(@, p)])
            /\ \/ Unlink(p)
               \/ (p \notin Existing \/ UnlinkMayFail) /\ UNCHANGED store
       \/ Seen(t) = {} /\ Set(t, [pruner[t] EXCEPT !.pc = "visit"]) /\ UNCHANGED store
    /\ UNCHANGED <<now, mtime, dirs, worker>>

\* The size: every directory is read in turn; one that is gone ends the prune.
ScanDir(t) ==
    /\ pruner[t].pc = "scan"
    /\ \/ \E v \in pruner[t].left :
            \/ /\ v \in dirs
               /\ Set(t, [pruner[t] EXCEPT
                      !.left = @ \ {v},
                      !.total = @ + SizeOfAll(FilesIn(v)),
                      !.seen = [p \in DOMAIN @ \cup FilesIn(v) |->
                                   IF p \in FilesIn(v) THEN store[p] ELSE @[p]]])
            \/ v \notin dirs /\ Set(t, Resting("rest"))
       \/ pruner[t].left = {} /\ Set(t, [pruner[t] EXCEPT !.pc = "shrink"])
    /\ UNCHANGED <<now, mtime, dirs, store, worker>>

\* Mutant: the loop stops one file early.
FitsAlmost(total) == total <= MaxTotalSize + 1

\* Mutant: a store that just fits is made smaller.
FitsStrictly(total) == total < MaxTotalSize

Fits(total) == total <= MaxTotalSize

\* Delete the oldest until the total fits.  Only a deletion that succeeds
\* lowers the total.
Shrink(t) ==
    /\ pruner[t].pc = "shrink"
    /\ \/ \E p \in Seen(t) :
            /\ ~Fits(pruner[t].total)
            /\ IsOldest(pruner[t].seen, p)
            /\ \/ /\ Unlink(p)
                  /\ dirs' = IF LeavesEmpty(p) THEN dirs \ {p[1]} ELSE dirs
                  /\ Set(t, [pruner[t] EXCEPT !.seen = Without(@, p),
                                              !.total = @ - SizeOf[p[1]]])
               \/ /\ p \notin Existing \/ UnlinkMayFail
                  /\ Set(t, [pruner[t] EXCEPT !.seen = Without(@, p)])
                  /\ UNCHANGED <<store, dirs>>
       \/ /\ Fits(pruner[t].total) \/ Seen(t) = {}
          /\ Set(t, Resting("rest"))
          /\ UNCHANGED <<store, dirs>>
    /\ UNCHANGED <<now, mtime, worker>>

PruneStep(t) == Visit(t) \/ Stat(t) \/ PruneCount(t) \/ ScanDir(t) \/ Shrink(t)

WorkerStep == CreateCopy \/ StampCopy \/ ReturnPath

Next ==
    \/ \E v \in Vaults : MakeDir(v)
    \/ WorkerStep
    \/ Overwrite
    \/ KeepVault
    \/ \E p \in Existing : ReplaceCurrent(p) \/ DeleteVersion(p)
    \/ \E t \in Threads : PruneStep(t)

Spec == Init /\ [][Next]_vars

-----------------------------------------------------------------------------
(* Properties *)

\* Types of the variables.
TypeOK ==
    /\ now \in Times
    /\ mtime \in [Vaults -> Times]
    /\ dirs \subseteq Vaults
    /\ Existing \subseteq Paths /\ \A p \in Existing : store[p] \in Times /\ p[1] \in dirs
    /\ worker.pc \in {"idle", "create", "stamp", "prune", "saved", "unsaved"}
    /\ worker.vault \in Vaults /\ worker.stamp \in Times
    /\ \A t \in Threads :
          /\ pruner[t].pc \in {"rest", "raised", "visit", "stat", "count", "scan", "shrink"}
          /\ pruner[t].dir \in Vaults /\ pruner[t].left \subseteq Vaults
          /\ Seen(t) \subseteq Paths /\ pruner[t].total \in Nat

\* A save leaves its vault within max_versions_per_vault, whatever prune_all
\* does meanwhile (prune, _prune_per_vault_by_dir).
CountKept == worker.pc = "saved" => Cardinality(FilesIn(worker.vault)) <= MaxPerVault

\* A save that does not overlap with prune_all leaves the whole store within
\* max_total_size_bytes (_prune_global_size).
SizeKept ==
    (worker.pc = "saved" /\ worker.alone) => SizeOfAll(Existing) <= MaxTotalSize

\* The path save_version returns is that of a file: the state before the
\* re-key can be gone back to (return value of save_version).
SavedIsThere == worker.pc = "saved" => File \in Existing

\* The version just saved is pruned at once only if the vault was older than
\* all its versions that stay: nothing newer goes before something older.
SavedUnlessOlder ==
    (worker.pc = "saved" /\ File \notin Existing) =>
        \A p \in FilesIn(worker.vault) : mtime[worker.vault] <= store[p]

\* Pruning for size deletes no version of a store that fits, unless prune_all
\* has made room behind its back (_prune_global_size).
NoNeedlessLoss ==
    [][(worker.alone /\ pruner["rekey"].pc = "shrink" /\ store' # store)
          => SizeOfAll(Existing) > MaxTotalSize]_vars

\* The docstring of VaultVersionManager: a race leaves "a harmless extra file
\* ... on disk at most".  No prune deletes for size from a store that fits.
HarmlessRaces ==
    [][\A t \in Threads :
          (Shrink(t) /\ store' # store) => SizeOfAll(Existing) > MaxTotalSize]_vars
=============================================================================
