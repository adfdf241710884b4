------------------------------ MODULE LocalTraces ------------------------------
(***************************************************************************)
(* What the application remembers about its use on this computer: the      *)
(* activity log, the library's cache in memory and on disk, and the recent *)
(* paths and fingerprints in the configuration; the scans that fill the    *)
(* cache, and the command that clears all of it.                           *)
(*                                                                         *)
(* A scan runs on a thread of its own and shares the cache with the window *)
(* without a lock; clearing goes through the stores one after another on   *)
(* the window's thread, and looks at no running scan.  Errors of the log   *)
(* and of the configuration are swallowed where they occur.  A change of   *)
(* the configuration is one step here: ConfigStore shows why.              *)
(***************************************************************************)
EXTENDS Integers, FiniteSets

CONSTANTS
    Vaults,       \* places a vault may be in
    Dirs,         \* directories that may be monitored
    DirOf,        \* the directory of each place
    Prefixed,     \* dir -> the dirs whose path begins with its path
    Scanners,     \* threads that scan
    Guarded,      \* a scan waits for the flag (the Flet shell; the Tk window does not)
    MayFail,      \* the stores may refuse to be written
    Damaged,      \* contents that are no vault: their header cannot be read
    Changing,     \* bound: places and directories that come and go
    MaxStamp      \* bound: contents, so modification times, of a vault

ASSUME TracesAssumption ==
    /\ DirOf \in [Vaults -> Dirs]
    /\ Prefixed \in [Dirs -> SUBSET Dirs] /\ \A d \in Dirs : d \in Prefixed[d]
    /\ Changing \subseteq Vaults \cup Dirs
    /\ {Guarded, MayFail} \subseteq BOOLEAN
    /\ Damaged \subseteq Nat /\ MaxStamp \in Nat

VARIABLES
    disk,        \* vault -> its modification time; not positive when it is gone
    dirs,        \* configuration: library_dirs
    older,       \* of the activity database and the configuration, those that
                 \* hold an entry from before the last clearing
    cache,       \* VaultScanner.cache
    cacheFile,   \* the library file; an unreadable one is as good as none
    scan,        \* each scan
    clearing,    \* where clear_local_traces is
    excuse       \* of the last clearing: whether a scan overlapped, which stores refused

clearVars == <<older, clearing, excuse>>
vars == <<disk, dirs, cache, cacheFile, scan, clearVars>>

-----------------------------------------------------------------------------
\* An entry has the modification time it is valid for; old: it was made before
\* the last clearing.
Aged(f) == [v \in DOMAIN f |-> [f[v] EXCEPT !.old = TRUE]]
NoEntries == [v \in {} |-> 0]
Without(f, v) == [u \in DOMAIN f \ {v} |-> f[u]]
With(f, v, e) == [u \in DOMAIN f \cup {v} |-> IF u = v THEN e ELSE f[u]]

There(v) == disk[v] > 0
OnDisk == {v \in Vaults : There(v)}

\* moved: the disk has changed since the scan began; alone: no other scan and
\* no clearing has been at work since.
Rest == [pc |-> "rest", dirs |-> {}, left |-> {}, seen |-> {}, hits |-> {}, at |-> {},
         entry |-> [stamp |-> 1, old |-> FALSE], doomed |-> {}, changed |-> FALSE,
         moved |-> FALSE, alone |-> TRUE]

At(s, pc) == scan[s].pc = pc
Set(s, rec) == scan' = [scan EXCEPT ![s] = rec]
Others(s) == Scanners \ {s}

\* Reads and writes the cache.
AtWork(s) == scan[s].pc \in {"walk", "read", "keep", "drop", "save", "dump"}
Busy == \E s \in Scanners : ~At(s, "rest")

UiFree == clearing = "rest"

Init ==
    /\ disk \in [Vaults -> {0, 1}]
    /\ dirs \in SUBSET Dirs
    /\ older = {}
    /\ cache = NoEntries /\ cacheFile = NoEntries
    /\ scan = [s \in Scanners |-> Rest]
    /\ clearing = "rest"
    /\ excuse = [overlap |-> FALSE, refused |-> {}]

-----------------------------------------------------------------------------
(* The disk, the directories, the log *)

\* A vault is made, replaced or deleted.
Touch(v) ==
    /\ \/ There(v) /\ disk' = [disk EXCEPT ![v] = -@]
       \/ ~There(v) /\ disk' = [disk EXCEPT ![v] = 1 - @]
       \/ There(v) /\ disk' = [disk EXCEPT ![v] = 1 + @]
    /\ disk'[v] <= MaxStamp
    /\ scan' = [s \in Scanners |-> IF At(s, "rest") THEN Rest
                                   ELSE [scan[s] EXCEPT !.moved = TRUE]]
    /\ UNCHANGED <<dirs, cache, cacheFile, clearVars>>

\* add_dir, remove_dir: allowed during a scan.
ChangeDirs(d) ==
    /\ UiFree
    /\ dirs' = IF d \in dirs THEN dirs \ {d} ELSE dirs \cup {d}
    /\ UNCHANGED <<disk, cache, cacheFile, scan, clearVars>>

\* Clear of the activity screen.
ClearLog ==
    /\ UiFree /\ "log" \in older
    /\ older' = older \ {"log"}
    /\ UNCHANGED <<disk, dirs, cache, cacheFile, scan, clearing, excuse>>

-----------------------------------------------------------------------------
(* VaultScanner.scan_directories, on thread s *)

\* _scan_library: the flag is looked at and raised, in the Flet shell.
StartScan(s) ==
    /\ UiFree /\ dirs # {} /\ At(s, "rest")
    /\ Guarded => ~Busy
    /\ scan' = [t \in Scanners |->
          IF t = s THEN [Rest EXCEPT !.pc = "walk", !.dirs = dirs,
                             !.left = {v \in Vaults : DirOf[v] \in dirs},
                             !.alone = ~\E u \in Others(s) : AtWork(u)]
          ELSE IF AtWork(t) THEN [scan[t] EXCEPT !.alone = FALSE] ELSE scan[t]]
    /\ UNCHANGED <<disk, dirs, cache, cacheFile, clearVars>>

\* Mutant: an entry is good whatever the modification time.
CachedAtAll(v) == v \in DOMAIN cache

Cached(v) == v \in DOMAIN cache /\ cache[v].stamp = disk[v]

\* One place: nothing there, a cache hit, or a file to be read.
Visit(s, v) ==
    LET rest == [scan[s] EXCEPT !.left = @ \ {v}, !.seen = @ \cup ({v} \cap OnDisk)] IN
    /\ At(s, "walk") /\ v \in scan[s].left
    /\ \/ ~There(v) /\ Set(s, rest)
       \/ /\ There(v) /\ Cached(v)
          /\ Set(s, [rest EXCEPT !.hits = @ \cup {<<v, cache[v].stamp>>}])
       \/ /\ There(v) /\ ~Cached(v)
          /\ Set(s, [rest EXCEPT !.pc = "read", !.at = {v}, !.entry.stamp = disk[v]])
    /\ UNCHANGED <<disk, dirs, cache, cacheFile, clearVars>>

\* _extract_metadata: a file that is gone or no vault is skipped.
Extract(s) ==
    /\ At(s, "read")
    /\ \E v \in scan[s].at :
          \/ /\ There(v) /\ disk[v] \notin Damaged
             /\ Set(s, [scan[s] EXCEPT !.pc = "keep"])
          \/ /\ ~There(v) \/ disk[v] \in Damaged
             /\ Set(s, [scan[s] EXCEPT !.pc = "walk", !.at = {},
                                       !.entry = Rest.entry])
    /\ UNCHANGED <<disk, dirs, cache, cacheFile, clearVars>>

Keep(s) ==
    /\ At(s, "keep")
    /\ \E v \in scan[s].at :
          /\ cache' = With(cache, v, scan[s].entry)
          /\ Set(s, [scan[s] EXCEPT !.pc = "walk", !.at = {}, !.entry = Rest.entry,
                                    !.changed = TRUE,
                                    !.hits = @ \cup {<<v, scan[s].entry.stamp>>}])
    /\ UNCHANGED <<disk, dirs, cacheFile, clearVars>>

\* Mutant: whatever was not seen, cached or not.
OutdatedUncached(s) ==
    {v \in Vaults \ scan[s].seen : \E d \in scan[s].dirs : DirOf[v] \in Prefixed[d]}

\* keys_to_remove: by the beginning of the path.
Outdated(s) ==
    {v \in DOMAIN cache \ scan[s].seen : \E d \in scan[s].dirs : DirOf[v] \in Prefixed[d]}

Raise(s) == Set(s, [Rest EXCEPT !.pc = "failed", !.alone = scan[s].alone])

\* The keys are listed; a second scan that adds or deletes one makes that fail.
Prune(s) ==
    /\ At(s, "walk") /\ scan[s].left = {}
    /\ \/ Set(s, [scan[s] EXCEPT !.pc = "drop", !.doomed = Outdated(s), !.seen = {}])
       \/ (\E t \in Others(s) : AtWork(t)) /\ Raise(s)
    /\ UNCHANGED <<disk, dirs, cache, cacheFile, clearVars>>

\* del self.cache[k]: self.cache may be another dictionary by now.
Drop(s) ==
    /\ At(s, "drop")
    /\ \/ \E v \in scan[s].doomed :
            \/ /\ v \in DOMAIN cache
               /\ cache' = Without(cache, v)
               /\ Set(s, [scan[s] EXCEPT !.doomed = @ \ {v}, !.changed = TRUE])
            \/ v \notin DOMAIN cache /\ Raise(s) /\ UNCHANGED cache
       \/ /\ scan[s].doomed = {}
          /\ Set(s, [scan[s] EXCEPT !.pc = IF scan[s].changed THEN "save" ELSE "posted",
                                       !.changed = FALSE])
          /\ UNCHANGED cache
    /\ UNCHANGED <<disk, dirs, cacheFile, clearVars>>

\* _save_cache: open(CACHE_FILE, "w") empties the file ...
Open(s) ==
    /\ At(s, "save")
    /\ \/ /\ cacheFile' = NoEntries
          /\ Set(s, [scan[s] EXCEPT !.pc = "dump"])
       \/ MayFail /\ Set(s, [scan[s] EXCEPT !.pc = "posted"]) /\ UNCHANGED cacheFile
    /\ UNCHANGED <<disk, dirs, cache, clearVars>>

\* ... and json.dump fills it; not to the end if an error intervenes, nor into
\* the right file if it has been unlinked or another scan writes it too.
Dump(s) ==
    /\ At(s, "dump")
    /\ \/ scan[s].at = {} /\ cacheFile' = cache
       \/ /\ scan[s].at # {} \/ MayFail \/ \E t \in Others(s) : AtWork(t)
          /\ cacheFile' \in {NoEntries, cacheFile}
    /\ Set(s, [scan[s] EXCEPT !.pc = "posted", !.at = {}])
    /\ UNCHANGED <<disk, dirs, cache, clearVars>>

\* on_library_results: only what is in a directory still monitored.
Shown(s) == {h \in scan[s].hits : DirOf[h[1]] \in dirs}

OnLibraryResults(s) ==
    /\ scan[s].pc \in {"posted", "failed"} /\ UiFree
    /\ Set(s, Rest)
    /\ UNCHANGED <<disk, dirs, cache, cacheFile, clearVars>>

ScanStep(s) ==
    \/ \E v \in Vaults : Visit(s, v)
    \/ Extract(s) \/ Keep(s) \/ Prune(s) \/ Drop(s) \/ Open(s) \/ Dump(s)

-----------------------------------------------------------------------------
(* clear_local_traces, on the window's thread *)

\* Everything remembered so far is old now.  clear_logs swallows its error.
ClearBegins ==
    /\ UiFree
    /\ clearing' = "unlink"
    /\ cache' = Aged(cache) /\ cacheFile' = Aged(cacheFile)
    /\ scan' = [s \in Scanners |->
          IF At(s, "rest") THEN Rest
          ELSE [scan[s] EXCEPT !.alone = FALSE, !.entry.old = At(s, "keep")]]
    /\ \/ older' = {"config"} /\ excuse' = [overlap |-> Busy, refused |-> {}]
       \/ /\ MayFail
          /\ older' = {"config", "log"} /\ excuse' = [overlap |-> Busy, refused |-> {"log"}]
    /\ UNCHANGED <<disk, dirs>>

\* A scan that has the file open writes into what is no file any more.
ClearUnlinks ==
    /\ clearing = "unlink" /\ clearing' = "memory"
    /\ \/ /\ cacheFile' = NoEntries
          /\ scan' = [s \in Scanners |-> IF At(s, "dump") THEN [scan[s] EXCEPT !.at = Vaults]
                                         ELSE scan[s]]
          /\ UNCHANGED excuse
       \/ /\ MayFail /\ excuse' = [excuse EXCEPT !.refused = @ \cup {"cache"}]
          /\ UNCHANGED <<cacheFile, scan>>
    /\ UNCHANGED <<disk, dirs, cache, older>>

\* Mutant: the cache in memory is forgotten.
ClearMemoryForgets ==
    /\ clearing = "memory" /\ clearing' = "config"
    /\ UNCHANGED <<disk, dirs, cache, cacheFile, scan, older, excuse>>

ClearMemory ==
    /\ clearing = "memory" /\ clearing' = "config"
    /\ cache' = NoEntries
    /\ UNCHANGED <<disk, dirs, cacheFile, scan, older, excuse>>

\* The monitored directories stay.
ClearConfig ==
    /\ clearing = "config" /\ clearing' = "rest"
    /\ \/ older' = older \ {"config"} /\ UNCHANGED excuse
       \/ /\ MayFail /\ excuse' = [excuse EXCEPT !.refused = @ \cup {"config"}]
          /\ UNCHANGED older
    /\ UNCHANGED <<disk, dirs, cache, cacheFile, scan>>

\* The application ends, at any point, and starts again: the cache is
\* read from its file.
Restart ==
    /\ scan' = [s \in Scanners |-> Rest]
    /\ cache' = cacheFile
    /\ clearing' = "rest"
    /\ excuse' = [excuse EXCEPT !.refused = @ \cup
                     CASE clearing = "rest" -> {}
                       [] clearing = "unlink" -> {"cache", "config"}
                       [] OTHER -> {"config"}]
    /\ UNCHANGED <<disk, dirs, cacheFile, older>>

Next ==
    \/ \E v \in Vaults \cap Changing : Touch(v)
    \/ \E d \in Dirs \cap Changing : ChangeDirs(d)
    \/ ClearLog
    \/ \E s \in Scanners : StartScan(s) \/ ScanStep(s) \/ OnLibraryResults(s)
    \/ ClearBegins \/ ClearUnlinks \/ ClearMemory \/ ClearConfig
    \/ Restart

Spec == Init /\ [][Next]_vars

-----------------------------------------------------------------------------
(* Properties *)

Old(entries) == {v \in DOMAIN entries : entries[v].old}

\* What was remembered before a clearing is in no store after it, nor in one
\* that a later start reads, whichever other store refused (clear_local_traces).
\* The cache is excepted when a scan was running.
ClearForgets ==
    UiFree =>
        /\ older \subseteq excuse.refused
        /\ \/ "cache" \in excuse.refused \/ excuse.overlap
           \/ Old(cache) = {} /\ Old(cacheFile) = {}

\* A scan shows the vaults of the directories still monitored, each with the
\* data of the file as it is, whatever the cache held (scan_directories,
\* _filter_current_dir_results).  Unless the disk changed meanwhile.
ScanExact ==
    \A s \in Scanners : (At(s, "posted") /\ ~scan[s].moved) =>
        Shown(s) = {<<v, disk[v]>> : v \in
                      {u \in OnDisk : /\ DirOf[u] \in scan[s].dirs \cap dirs
                                      /\ disk[u] \notin Damaged}}

\* A scan fails only where another one, or a clearing, takes the cache from
\* under it (keys_to_remove, del self.cache[k]).
ScanFailsNotAlone == \A s \in Scanners : At(s, "failed") => ~scan[s].alone
=============================================================================
