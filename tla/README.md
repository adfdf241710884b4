# TLA+ models of RPM Encrypter

RPM Encrypter is a desktop program that seals files and folders in `.vault`
files, brings them back, changes passwords, and keeps older versions of vaults.
This directory holds TLA+ models of its core, TLC configurations that check them
on small instances, and TLAPS proofs of what matters most. Paths are relative to
the repository (`src/`).

## 1. The system

| Part | Source | State it keeps | Operations |
|---|---|---|---|
| Shell and session | `ui_flet/app.py`, `shell.py`, `services.py`, `events.py` | `is_processing`, `cancel_requested`, message queue (1000), `busy_control`, screen cache, crypto engine | start operation, poll queue, dispatch message, navigate, rebuild, close |
| Screens | `ui_flet/screens/*` | form fields, dialogs, the inspected vault with its password | validate, open dialogs and pickers, start a controller |
| Controllers | `ui_flet/controllers/*` | one worker thread per operation | encrypt, decrypt, inspect, extract, diff, re-key, versions, notes, library, settings |
| Vault format | `crypto_core.py` | the vault file: cleartext header (KDF, envelopes, sizes), sealed metadata, payload, hidden compartment, padding | create, open, verify, re-key |
| Files | `file_handler.py` | temporary archives and siblings | package, extract, secure wipe, atomic output |
| Version store | `versioning.py` | directory of older copies of each vault | save, list, restore, replace, delete, prune |
| Attempt limiter | `app_state.py` | failures, start of lockout | is_locked, record_failure, record_success |
| Configuration | `app_config.py`, `settings_controller.py` | one JSON file in the home directory: settings, profiles, recent paths, fingerprints, directories | load-modify-save under a lock, settings key by key, profiles, clearing |
| Activity log | `activity_log.py` | a database in the home directory | append, rotate, clear |
| Library scanner | `vault_scanner.py` | cache of headers, in memory and on disk | scan |
| Tk window | `gui_app.py`, `views/*` | its own flag, buttons, dialogs, timers, queue, list of temporary files | the same operations, in the older interface |

**Interaction.** A screen looks at `services.is_processing`, raises it, disables
its button and starts a controller's daemon thread. The thread puts dictionaries
on a bounded queue; a coroutine of the UI thread takes them off every 100 ms and
dispatches them to the shell, which forwards results to a screen. Who lowers the
flag depends on the operation: the shell on `batch_done`, the screen on its
result, or the worker before it posts `batch_done`. Workers share the services
object, the configuration file, the version directory and the system's temporary
directory; a second instance of the program shares the last three.

**What is hard.** Workers, dialogs, pickers, the poll loop and a start-up prune
thread interleave without locks; files are written in several steps, and the
process may die between any two; the order of plaintext, tag check and wipe
decides whether data is lost or exposed; a hidden compartment has no index and
must be found where a hash says, in a file whose size depends on its own header;
`put` gives up when the queue is full; cleanup matches temporary files by name
whoever owns them. The Tk window shares the lower layers but has rules of its own:
four of its operations raise the flag without looking at it, timers clear forms
behind dialogs, and closing wipes what workers may be using. `PROJECT.json` lists these hazards at their lines.

**What makes the parts correct.**
- re-key and rollback: the vault is at all times a complete one, changes
  atomically, and stays open to the hidden password and the recovery phrase;
- session: one operation at a time, the flag always comes down, a result is
  paired with its own path and password, no button stays disabled;
- encryption: no original disappears unless a vault holds it, no vault takes the
  place of another file; decryption: nothing unverified reaches the user, a failure
  leaves no half-restored folder, nothing else is touched; both: no plaintext
  archive that can be removed outlives the operation, or its crash and the next start;
- version store: limits hold when it is at rest, nothing goes without need, and
  what is reported as saved is there;
- limiter: wrong passwords are throttled whatever falls between them;
- configuration: no change is lost, the services work with what was chosen, a
  profile is one that was in force;
- traces: a clearing forgets everything, in every store and over the next start; a
  scan shows the disk as it is, whatever was cached;
- Tk window: originals and vault survive overlapping operations and closing, the
  flag has an owner, the listed archives are clean when it has closed;
- format: parts do not overlap, the reader finds what the writer placed, sizes
  give nothing away.

## 2. Modules

| Module | Models | Notes |
|---|---|---|
| `RekeyVault` | `RekeyController._rekey_worker` and `_replace_current_worker`, `RekeyMixin.rekey_vault`, `save_version`, `replace_current`, close, crash, restart | Names point to inodes, so that two workers with the same temporary name write the same file. A file is a header and a number of body chunks. A snapshot may break off under its final name; `cut` follows such copies through rollbacks and further snapshots. |
| `CredentialRegister` | the abstract promise: a password register with an archive, changed by atomic requests; who is told "failed" knows nothing | `RekeyVault!RegisterSpec` is the refinement. |
| `Session` | flag, queue, poll loop, busy control, prompts, rebuild of screens | One action per handler; kinds of operation differ in how they take and release the flag. `hurried` records that one began before the last was over, `lost` that an outcome reached nobody. |
| `EncryptPipeline` | `EncryptController` workers, `FolderPackager`, `atomic_output`, `SecureWiper`, start-up cleanup | Files have a home folder, archives a set of captured files. `late`, `intruder` and `raced` record what came from outside (files added, a second instance, a file made under the name just chosen), `stuck` that a zip could not be removed, so that the properties can say what they except. |
| `DecryptPipeline` | `DecryptController._worker`, selective extraction | Vaults are good, locked or damaged; all names collide; a selection may name files that the archive does not have (`Absent`). `intruder` and `stuck` as above; `torn` are the folders that a crash left half-filled, or that could not be taken back. |
| `VersionStore` | `VaultVersionManager` with concurrent savers, prunes, rollbacks | A version is an identity with a modification time and a size; a prune works from its listing. |
| `AttemptLimiter` | `AttemptLimiter` and its callers | Time is discrete; `wrong` keeps the times of the wrong passwords since the last success, which the program does not. |
| `SizeLadder` | `_calculate_container_size`, the loop as steps | Variables and steps only; `VaultLayout` says when it is asked. |
| `VaultLayout` | places and sizes in `encrypt_stream`, `encrypt_hidden_vault`, `_derive_hidden_offset`; extends `SizeLadder` | Everything before the padding is one number, plus the digits of the container size. |
| `ConfigStore` | `_mutate_cfg`, `_load_cfg`, `_save_cfg` by any number of threads in several processes | The abstract store: contents and changes are constants, `Effect[change][content]`. |
| `Settings` | `SettingsController`'s changes and profiles, `AppServices.__init__`, writes by workers and by a second instance; extends `ConfigStore` | Gives contents and changes their meaning and the store its users. The second instance has a user who changes settings and profiles too: `foreign` are the keys set there last, `misread` those whose service was built when the file could not be read, `spoilt` says that an old copy was written, nothing was, or a change was cut off. |
| `LocalTraces` | `VaultScanner`, `LibraryController`, `clear_local_traces` and the clearing of the log | An entry knows the modification time it is valid for and whether it is older than the last clearing. |
| `LegacyWindow` | `RPMEncrypterApp` and its encryption, hidden, re-key, decryption and extraction workers | One action per handler and per stretch of a worker; `mixed` and `lost` record what the properties except; `rests` is plaintext no worker will come back to, `failed` and `halfway` why there is any. |
| `VaultProofs` | theorems about `RekeyVault`, and about `SizeLadder` and `VaultLayout` | section 5 |
| `SessionProofs` | theorems about `Session` and `AttemptLimiter` | section 5 |
| `SettingsProofs` | theorems about `ConfigStore` and `Settings` | section 5 |
| `EncryptProofs`, `DecryptProofs`, `VersionProofs`, `TracesProofs`, `LegacyProofs` | theorems about the module each extends | section 5 |
| `MC*` | constants for TLC | |

A `pc` in a record names the point of the code a worker has come to; the fields
beside it are the worker's local variables. An action is one stretch of code
between two points where something else may happen: a file-system call, a check
of the cancel flag, a message, a lock. Alternatives of an action are the code's
branches, its exceptions included. Definitions named `...` after "Mutant:" in a
comment are plausible bugs of the definition that follows; no specification uses
them, they serve to show that the properties notice.

## 3. Runs

Passing runs:

| Run | Instance | Shows |
|---|---|---|
| `rekey` | one worker, two passwords and a hidden one, two chunks, two versions, of which one may be a copy that broke off | the vault stays whole through errors, cancellation, crash and restart, the bookkeeping after the replacement included; it refines `CredentialRegister` |
| `session` | encrypt, decrypt, inspect, extract and note over two vaults; two threads, a queue of two; theme changes and dropped messages included | one operation, matching context, buttons come back, the flag comes down |
| `encrypt` | a folder with a file, and a file; a batch of up to two units; files added and vault names taken meanwhile, zips that cannot be removed, a second instance | nothing is lost, no vault is replaced, plaintext goes, the batch ends |
| `decrypt` | a good, a locked and a damaged vault of two files, and a third that only their lists name; two operations; removals that fail; a second instance | verified, whole or nothing, others kept, success means restored, plaintext goes |
| `versions` | two vaults, two versions each, five ticks, a tight size limit, start-up prune, rollbacks | both limits, nothing newer goes before something older, no needless loss |
| `limiter` | two attempts, lockout of three, nine seconds, six tries | throttling |
| `layout` | ladder from 8 with steps of 12 beyond 120, all sizes 3..110 | padding is bounded; places and sizes in normal and hidden vaults |
| `legacy` | a file and a hidden file, two threads, two operations of any kind, dropped messages, wipes that fail, closing, kill, restart | nothing lost, vault whole, the flag has an owner, no empty hidden password, no listed archive with plaintext at exit, nothing of an operation left that a later start removes |
| `settings` | three keys of two values, a recent path, two changes, a worker, a second instance with a user of its own, a file that fails to be read or written, stops and starts | no lost update, services as chosen, profiles as chosen |
| `traces` | a vault that comes, changes and goes, a directory whose path begins another's, two scans without a guard, a contents that is no vault, stores that refuse, restarts | clearing forgets, a scan is exact, a scan alone does not fail |

Two runs find a disagreement of the code with what its comments and screens say
(also under "findings" in `PROJECT.json`):
- `encrypt_hidden_folders` violates `NothingLost`, because a hidden vault of several
  sources does not pack the folders among them, and wipes them;
- `version_race` violates `HarmlessRaces`. The docstring of `VaultVersionManager`
  (`versioning.py:68`) says of its pruning that "any race results in a harmless
  extra file being left on disk at most". But `_prune_global_size` subtracts from a
  total it has summed before: what another prune has deleted meanwhile is still in
  it, and versions go from a store that fits.

**Circumstances.** Some constants are switches for what the program does not
prevent. A passing run with one of them off shows what holds as long as the
circumstance does not arise; these are the switches and what TLC finds with them
the other way:

| Switch | Circumstance | Then fails |
|---|---|---|
| `Exclusive = FALSE` (`RekeyVault`) | two workers for one vault: a second instance, or the flag lowered early (below) | `VaultWhole`: both write `<vault>.tmp`, and one installs the other's half |
| `HiddenPw = p2` (`RekeyVault`) | the decoy is re-keyed to the password of its hidden compartment, which only creation refuses | `CompartmentsSurvive`, although `crypto_core.py:1727` says "Re-key is now SAFE for hidden-bearing vaults" |
| `OutInside = TRUE` | the vault is written into the folder that is then wiped | `NothingLost` |
| `FoldersInLists = TRUE` | a hidden vault of several sources, folders among them | `NothingLost` |
| `UnlinkMayFail = TRUE` (`VersionStore`) | a version cannot be deleted | `CountKept`, `SizeKept`, `SavedUnlessOlder`: a prune passes over the file, and deletes newer ones or none |
| `MtimeRepeats = TRUE` | a vault whose modification time was put back, as the run `versions` has it | `SavedIsThere`, which no run asks for that reason: the next snapshot is pruned by the call that made it and whose result names it. What remains true is `SavedUnlessOlder` |

Other exceptions are written into properties, because there the model can say what
interfered. The runs have the interference; a property says which histories it excepts:
- `VaultWhole`, `CompartmentsSurvive` and `VersionsWhole` except what goes back to a
  snapshot that broke off (`cut`): `save_version` copies straight onto the final name, so
  that a full disk leaves half a vault among the versions, which a rollback installs.
  `VaultChangesOnlyByCommit` and `RegisterSpec` have no exception. A re-key whose
  bookkeeping raises after the replacement is reported as failed; the register's
  "failed" leaves open whether the change took place.
- `OneOperation`, `ContextMatches` and `ButtonsComeBack` hold until an operation begins
  before the last one is over (`hurried`). The flag does not prevent that in two cases.
  The workers of encrypt, decrypt and extract lower it before they post `batch_done`,
  and the shell lowers it once more when it handles the message, perhaps under the
  operation started in between; so a third can start beside the second, an inspection
  beside another can pair the path of one with the password of the other, and the late
  `batch_done` enables the other's button. A dialog or a picker (extract, note) looks at
  the flag when it opens, not when it is confirmed. `GuardedNeverHurry` (section 5) says
  that re-key, inspection and library alone never get there.
- `ButtonsComeBack` and `FlagComesDown` except outcomes that reach nobody (`lost`): the
  queue was full for as long as the last `put` waits, or a change of theme has thrown the
  screen away that would have lowered the flag.
- `NothingLost` of `EncryptPipeline` excepts files that appear in a folder while its
  batch runs (the wipe walks the folder anew, and takes them too), and holds until a
  second instance starts, whose start-up cleanup matches the archives of a running
  one and overwrites them. `SuccessMeansRestored` holds beside a second instance for
  decryptions; a selective extraction skips files that are gone and still reports
  success, as it does for files that its list names and the archive lacks.
- `TempsGone` and `PlaintextGone` of the two pipelines except what could be removed
  neither by wiping nor by `unlink` or `rmtree`, errors the code swallows (`stuck`).
- `NoVaultReplaced` excepts a file that another program makes after the name was chosen
  (`raced`), and only that file: `exists()` and `os.replace` are far apart.
- `WholeOrNothing` excepts the folders in `torn`. The folder being filled is
  no temporary one: a crash leaves it half-filled, and no start looks for it;
  `_wipe_extract_dir` ends in `rmtree(ignore_errors=True)`.
- `SizeKept` and `NoNeedlessLoss` speak of a save that `prune_all` does not overlap
  (`worker.alone`): two prunes with different listings delete too much, or count
  too little. The first is what `version_race` shows.
- `NothingLost`, `VaultWhole` and `ExitClean` of `LegacyWindow` end when an operation
  has been started beside another (`mixed`): the other's `batch_done` lowers the flag,
  closing then asks nothing and wipes the archive under a worker that was not told,
  and a second re-key opens the `.rekey.tmp` of the first. `FlagOwned` excepts a
  dropped message (`lost`).
- `ExitClean` speaks of the archives the closing window has listed, which are those of
  normal encryptions, decryptions and extractions; the zips of a hidden vault and the folders
  files are extracted into are not listed, and what is in them when the window closes stays
  to the next start. `TempsGone` says what is left then: what could not be removed (`failed`),
  and the output folder a decryption was filling when its process was closed or killed
  (`halfway`), which `_cleanup_orphaned_temp_files` does not look for.
- `EngineAsChosen` and `ProfileWasChosen` hold until the file could not be written, another
  instance writes back an old copy, or the program ends in the middle of a change
  (`spoilt`). Of the keys that another instance has set since (`foreign`) they say
  nothing, of the others all they said before. A service built when the file could not be
  read works with defaults (`misread`). A profile that the other instance makes
  may catch a change of ours halfway, in the keys of that change; our own never does.
- `ClearForgets` excepts the cache when a scan was running at the clearing. The comment
  at `gui_app.py:648` gives "so it is not re-saved" as the purpose of emptying the copy in
  memory; that holds for a scan that begins later, while one that has the old copy in
  hand may still write it. It also excepts a store that refused to be written; as
  `clear_logs` and `_save_cfg` swallow their errors, the window may then report
  success.
- `ScanExact` speaks of a disk that stays as it is during the scan, `ScanFailsNotAlone`
  of a scan beside no other and no clearing.

**Bounds.** Every counter bound is a constant with "bound" in its comment
(`MaxBatches`, `MaxTime`, `MaxTries`, `MaxOps`, `MaxJobs`, `MaxStamp`, `MaxCut`, `MaxMishaps`, `MayGoOn`,
`Choices`), or a limit of the code made small (`Copies`,
the version limits, the rounds of the writers). Two passwords allow re-key chains
back and forth; one worker is what the flag admits as long as none of the
circumstances above lowers it early (`OneOperation` of `Session`), and a second
would only start where the first has ended. One version that broke off, beside one
that is whole, lets a rollback install either. `MayGoOn = FALSE` ends the exploration of
new operations after a hurried one, about which the safety properties say nothing any
more; the theorems have no such bound. The `session` run leaves out library and re-key,
which take and lower the flag as inspect and note do, for its size (1.7 million
states); the theorems are about all seven. A batch of two units
lets one pack the vault the other has made; one mishap is enough for a zip that stays, a
file under the chosen name or a second instance, each of which breaks what it breaks by
itself; two decryptions let one meet what the
other left. Two
operations in the Tk window are what it takes to mix them, or to meet what a killed
one has left; two changes of the settings let a profile be made and applied, or one
change follow another, beside writes by a worker and one other instance; two mishaps let that
instance write twice, or once beside a failure. The user chooses all keys alike
(`Choices`), which tells old from new. One vault and a second
directory suffice for the cache, whose entries do not depend on each other except
through the prefix of a path; two contents, one of them no vault, let it be replaced
by either kind. Two chunks separate a started copy from a finished one. Two vaults
and two saves are what the races of prunes need. The ladder of the `layout` run is
small so that gaining a digit, meeting the fixed steps and missing the hidden
place all happen.

**Deadlock** is checked except where a system stops by itself: the clock bound in
`VersionStore` and `AttemptLimiter`, the one vault that `VaultLayout` writes, and the bounds
on operations in `LegacyWindow` and on changes and mishaps in `Settings`. Threads are
interchangeable in `LegacyWindow` and `LocalTraces`, whose runs use symmetry; neither
checks liveness.

**Fairness.** A worker thread is scheduled until it returns, so each
`WorkerStep` (or what ends a worker in `Session`) is weakly fair; so is `Poll`,
which is a coroutine with a timer. Nothing is assumed of the user, of a second
instance, of crashes or restarts; no strong fairness is used. A worker's last
message waits for room in the queue (`put` with a timeout of a second, against a
poll every 100 ms); `session` also lets it give up, which `FlagComesDown` excepts (`lost`).
Only `session` and `encrypt` check liveness, and only their specifications
(`FairSpec`) state fairness.

## 4. Correspondence

`map` in `PROJECT.json` gives the lines behind each definition. Abstractions:
cryptography is ideal (a password opens what was sealed with it; a changed byte
fails the tag); a payload is a set of files or a number of chunks; names that may
collide do collide; logs, statistics and texts are left out, but for the
statements that may raise at a point where this changes what happens next.
External, modelled from use: process death, the clock, other writers of a folder.

In particular:
- `Session` does not model the crypto engine. `save_kdf_settings` refuses while an operation
  runs, `apply_profile` replaces the engine at any time; but an encryption keeps the engine
  it began with, a re-key asks for one once, and each vault's header carries its own
  settings, so no state the models keep can tell (hazard at `settings_controller.py:373`).
- `EncryptPipeline`: a zip that stays is not met again by the batch, since `mkstemp` names
  are new each time; slot and name of the next unit's zip are those of the model only.
- `Settings`: the keys `memory` and `time` stand for those whose service is built from
  the file after saving (key derivation, versions), `wipe` for those whose service
  takes the chosen value (wiper, activity log, theme). Start-up runs
  `ensure_modern_settings_defaults` as one change of the store.
- `LegacyWindow`: sources are plain files (what packing makes of folders is in
  `EncryptPipeline`), the lockout is in `AttemptLimiter`, the snapshot before a re-key in
  `VersionStore` and `RekeyVault`; of two forms with a timer only the encryption form
  has one, as only its values are read after a dialog; comparison and notes are
  the kind `other`, which only takes the flag and posts.
- `LocalTraces`: two scanners without a guard are the Tk window, where a scan looks at
  no flag; the Flet shell, which looks (`Guarded`), allows fewer behaviours. A change of
  the configuration is one step, which `ConfigStore` justifies. Reading a header and the
  modification time before it are two steps; a modification time that goes back to
  that of a cached entry, as after a rollback, is left out. Entries under a directory
  that is no longer monitored stay in the cache, here as in the code. The activity
  log and the configuration are reduced to whether they hold something from before the
  last clearing.

## 5. Proofs

Every safety property of the passing runs is proved for all values of the constants, and
so is the refinement `RegisterSpec`. Each theorem has a comment that says what it means
for the code; here are the arguments. An invariant that a run checks is seldom
inductive; the ones below are, and were checked by TLC on the instances of the runs
before they were proved.

### Assumptions

| Assumption | In | What it says of the program |
|---|---|---|
| `Exclusive` | re-key, but not its types | one worker at a time for a vault |
| `HiddenPw \notin Passwords` | `CompartmentsStay` only | nobody re-keys to the hidden password |
| `FewDigits` | `SizeIsAdvertised` only | numbers are short enough for the writer's eight rounds (below) |
| `Guarded` | `GuardedNeverHurry` only | the operations are those that look at the flag when they raise it and lower it with their outcome: re-key, inspection, library |
| `~OutInside`, `~FoldersInLists` | `NothingEverLost` only | no vault is put into a folder packed with it; a hidden vault's list is one folder, or files only |
| `~UnlinkMayFail` | limits of the version store | files can be deleted; a prune goes on after a failure |

All but `FewDigits` are switches or choices of constants whose other setting makes TLC find
a violation of what is assumed to need them (section 3). The rest of the theorems assume
nothing but the `...Assumption` of their module, which says what kind of thing each
constant is; that of `VersionStore` also says that there are finitely many vaults and
that each file fits into the store by itself. A property that excepts
histories (`cut`, `hurried`, `lost`, `late`, `intruder`, `raced`, `stuck`, `torn`, `mixed`, `failed`,
`halfway`, `spoilt`, `foreign`, `misread`, `excuse`, `alone`) is
proved as the run checks it, exception included.

### `VaultProofs`: re-key

`TypeCorrect`; `VaultStaysWhole`, `CompartmentsStay`, `VersionsStayWhole`,
`VaultChangesByCommit`; `VaultIsARegister`. `VaultWhole` is not inductive: the commit
renames whatever the temporary name points to. The invariant is
`SafeInv == TypeInv /\ OneWorker /\ Stage /\ Content`. `OneWorker` says only one worker is
away from idle; `Stage` says what the temporary file holds at each point of the worker
(header only, header and n chunks, complete), and that it is not the vault's inode;
`Content` says vault and versions are whole with the header length and hidden salt of
the original, unless they go back to a copy that broke off. A rollback takes the history
with it: `Stage` says of the version in a worker's hands that it is whole or marked.

`VaultIsARegister` proves `Spec => RegisterSpec`: initial states map to initial states and
every step of `RekeyVault` is a step of `CredentialRegister` or none. The mapping reads
the register's password from the header of the vault and its archive from the versions;
a request is pending until its worker has its result. `SafeInv` supplies the fact that
the header a worker commits differs from the one in force only in the main password,
and that the password it had authenticated is still the one in force. That holds of a vault
that goes back to a broken copy too, whose re-key copies what there is. The request is
granted by the replacement, before the bookkeeping that decides what is reported.

### `VaultProofs`: layout

From `LadderAssumption` and `LayoutAssumption` (sizes are numbers, and a mini-header is
shorter than the lowest rung and than a step), for every ladder and all sizes and hashes:
- `PaddingStaysBounded`, from the lemmas `WholeStepsBounds` (rounding to steps) and
  `AscendLow` (a rung below the target is at most a quarter of it below the next);
- `LayoutTypeCorrect`, `CompartmentsApart` and `ReaderFindsHidden`. What the reader
  needs is that the file is exactly as long as the container size the place was
  computed for, although the decoy was written several times for smaller sizes.
  Neither property is inductive: they speak of the finished file only. The invariant
  `LayoutInv == LayoutTypeOK /\ LadderInv /\ PlaceInv /\ RoundInv` says at each stage of the
  writer how long the file can be (`PlaceInv`: no longer than the header of the
  current round needs), and that every size asked for is larger than the last; the
  lemma `DigitsGrow` shows that a larger size never makes the header shorter.
- `SizeIsAdvertised`: the header names the container size, so its own length depends on
  what it says, and the writer repeats until an answer of the ladder fits the header that
  names it, eight times at most. `SizeInv` says that after each round but the first the
  header has gained a digit. So the rounds suffice if few powers of ten lie above the
  lowest rung: `FewDigits` counts them. It needs, too, that the ladder's answers do not
  fall when the target grows. They may fall where the rungs end and whole steps begin
  (section 7, model 4), so `FewDigits` also asks that no power of ten lies there. In bytes
  both hold for vaults below a terabyte: five powers of ten from 10 MB to 100 GB and three
  rounds make eight, and there is none between 10 GiB and 12.5 GiB. `Rungs` is the least set
  that holds the lowest rung and is closed under `NextRung`, which replaces recursion: a
  fact about all rungs follows by giving a set closed in the same way.

### `SessionProofs`: session and attempt limiter

`TypeCorrect`, `OneOperationAtATime`, `ContextAlwaysMatches` and `ButtonsAlwaysComeBack` hold for
every choice of kinds, numbers of threads and vaults and size of the queue, until somebody
starts an operation before the last is over. What is invariant till then is `Orderly`:
`OnePlace` says that an operation is in one place, the recovery dialog, a thread or the
queue; `FlagUp` that the flag is up while it is there, or its worker has
lowered it; `NothingStuck` that, unless an outcome was lost, the flag is up and a button disabled
only for an operation that is somewhere; `AuthMatches` ties the password set aside to the vault
under inspection, wherever that inspection is. `Begin` is the lemma behind it: an
operation that does not begin in a hurry begins when nothing is under way.
`GuardedNeverHurry` says which kinds leave no gap to begin in.

`LimiterTypeCorrect` and `ThrottledAlways` need no assumption. `Throttled` looks back over
the times of all wrong passwords, while the program keeps a counter and the start of
the lockout. `Recent` relates the two: while it is not locked, all wrong passwords but as
many as the counter says are at least one lockout old, with regard to now and to each
later one.

### `EncryptProofs`

`TypeCorrect`, `TempsAlwaysGone` and `NoVaultEverReplaced` follow from `TypeInv`: `NoZips` between
units unless one could not be removed, `NameFree` from the choice of a name to the replacement
unless another program has taken it. `NothingEverLost` says of a wiped file that a
vault holds it, which several stages earlier must be known of each
file that will be wiped: `Packed` says for every object of a unit that its content is in a
zip or still on the list to be packed, `ZipsWhole` that sealing starts with complete zips,
`Saved` that what is left to be wiped is in the vault just made, and that the vault itself is not
among it. `UnitsOK` carries the two assumptions. A vault may itself be packed and wiped, so
`Capture` follows what it holds.

### `DecryptProofs`

`TypeCorrect`, `OnlyVerifiedComesOut`, `NoHalfRestoredFolder`, `SuccessIsHonest`, `OthersAreKept`
need no assumption. `Placed` says whose the folder under work is (none, free, the operation's
own), `Checked` that nothing is unpacked that was not verified, `Whole` that members not yet
in the folder are still to come, `Once` that a vault is not done twice, `Restoring` that what
is done is in a folder. A folder that a crash or a failed undoing leaves half-filled joins
`torn` in that step, and its name is never chosen again, as it is not free.
`PlaintextAlwaysGone` adds that between vaults no temporary
file is left but what could not be removed, and that a dead process is idle.

### `LegacyProofs`

`FlagIsOwned`, `HiddenPasswordSet`, `TempsAreGone`, `RekeyedVaultWhole`, `OriginalsKept`,
`ExitIsClean`, with no assumption. The steps of all workers are put in one form first (`Moves`:
a worker goes on along `Edge`, ends or leaves), so that most conjuncts are shown for a
form and not for twenty actions. `Alone` is what an unmixed history buys: one worker
or one message, and the flag up for it. `Carried` follows the originals through zip and
sealing, `RekeyTmp` says that the temporary file of a re-key is whole when it is
installed, although another worker may still be about to remove it, and `Listed` which
archives the closing window knows. `Tidy` says that a worker between two sources has no
plaintext, `Spared` that what nobody will come back to is there for one of its two
reasons. `Passwords` shows why the timer is harmless: it clears
the queue with the password.

### `SettingsProofs`

From `StoreAssumption` and `SettingsAssumption`, for any contents, changes, threads and processes:
- `StoreInvariance`: `StoreInv == StoreTypeOK /\ Copies`. `Copies` says that the lock is
  with the thread that is inside `_mutate_cfg`, and that the copy of a thread about to
  save is the file, unless it was unreadable or another process has replaced it.
  `StoreLosesNothing` is `NoLostUpdate` for whoever uses the store;
- `SettingsUseStore`: every step of `Settings` is a step of the store or leaves it alone,
  so `Settings` implements `StoreSpec`; `SettingsLoseNothing` is the consequence;
- `ChosenInvariance`, `ServicesAsChosen`, `ProfilesAsChosen`: a change is saved key by
  key, so in the midst of one the file has some keys of the old and some of the new
  choice. `Unsaved` names those still to be saved, on the list or in a thread's hands; `FileInv`
  says that the file agrees with the choice on all others that no other instance has set
  since, `EngineInv` that the services do on the keys no change concerns, and `Users` what
  the threads of the store are writing. The other instance may write anything at any
  time; that it disturbs only the keys it sets needs that its copy is not an old one, which
  is what `Copies` and `spoilt` are about. Our own profiles are made only while no change is
  under way; one that the other makes is right but for the keys of ours.

### `VersionProofs`

`TypeCorrect` and `NothingGoesNeedlessly` need no assumption; `SizeIsKept`, `CountIsKept`,
`OldestGoesFirst` need files that can be deleted. The store is a sum over a set of files whose
order `CHOOSE` picks, so the module first shows that a sum by that fold exists and
does not depend on the order (`SumRemove`, `SumUnion`), by an induction over finite
sets stated with a set of sets, `SetsInduction`. The prune for size keeps a running
total: `Measured` says that in a save beside which nothing else prunes, this is the total
of the files there are, `Fitting` that it may stop only when the store fits.
`Counted` follows one vault through the count prune; it asks nothing of the second
thread, as deleting only makes fewer. `Ranked` relates
what a prune has listed to what there is now: either a newer file is still on its list, or
it is not older than the one that was just saved. `Dated` says time stamps are in the past,
so a new name is new.

### `TracesProofs`

`TypeCorrect`, `ClearingForgets`, `FailsNotAlone`, `ScansAreExact`, with no assumption.
`Cleared` says at each point of a clearing which stores hold nothing old; `NewInHand` that no
scan carries anything old, unless one was running at the clearing. `Company` says that a
scan which is alone is so in fact, and `Doomed` that the keys it will delete are then still in
the dictionary. For `ScansAreExact`, `Caches` says that every entry, in memory and on disk, is
right for the modification time it is valid for, `InHand` that a
header just read is of the file as it was at the time noted or later, and `Finding` that what a scan has
shown, and has yet to look at, is all there is.

### Only model-checked

Liveness, `FlagComesDown` and `BatchEnds`, which needs fairness and ENABLED; and, by their nature,
the violations that `encrypt_hidden_folders` and `version_race` find.

The type invariants of the modules document the state; each is proved to be an invariant,
as part of the inductive invariant of its module. No run spends its time on them.

## 6. Not modelled

- The bytes of the format and its primitives; manifests and their comparison.
- Entries, rotation and counters of the activity log and the session statistics.
- Deletion of profiles and the health check.
- `restore_as_copy`, which only reads the store and writes a new name.
- The password generator and its word list, updater, theme, texts and log redaction,
  which keep no state to speak of.
- Layout, widgets, drag and drop and the password view of the Tk window.
- Launcher, packaging and tests.

## 7. Plan

Done: `RekeyVault`, `CredentialRegister`, `Session`, `EncryptPipeline`, `VersionStore`,
`DecryptPipeline`, `AttemptLimiter`, `SizeLadder`, `VaultLayout`, `ConfigStore`, `Settings`,
`LocalTraces`, `LegacyWindow`, with the proofs above.

Next, proofs:
1. What the session still promises after a hurried start: at most one more operation for
   each early lowering of the flag.
2. `NothingLost` of `EncryptPipeline` with lists that hold folders, for the files that are
   in no such folder.
3. That `VersionStore` implements a store with the two limits and atomic saves, while
   `prune_all` does not run.
4. An abstract vault folder (files move between disk and vault at once) that
   `EncryptPipeline` and `DecryptPipeline` refine.

Next, models:
1. `VaultKeys`: which credentials open a vault through creation, re-keys with other
   KDF settings, rollback and hidden compartments, as an abstract algebra that
   `RekeyVault` refines; limits of metadata when writing and when reading.
2. Manifests cut to 100 entries and their comparison; distinct archive names for all
   inputs.
3. An external user who makes folders between the steps of `DecryptPipeline`.
4. In `SizeLadder`, the promise of `_calculate_container_size` to answer its own
   answers: between 9.2 and 10 GiB it answers about 11.5 GiB, and asked about that
   12 GiB.
