----------------------------- MODULE RekeyVault -----------------------------
(***************************************************************************)
(* One vault file, the re-key worker that replaces its main envelope, and  *)
(* the version-history actions that put an older copy back.                *)
(*                                                                         *)
(* The model keeps every file-system step of RekeyController and of        *)
(* RekeyMixin.rekey_vault: the version copy, the temp sibling with its     *)
(* fixed name, the header and the chunk-by-chunk body, the atomic replace, *)
(* the finally clause.  A file is a header and the number of body chunks   *)
(* it holds; names point at inodes, because two workers that open the same *)
(* temp name write to the same inode.  The process may die anywhere.       *)
(*                                                                         *)
(* A version copy is written straight under its final name, so one that    *)
(* fails part-way stays in the version list as if it were a vault.  The    *)
(* history `cut' follows such copies: it says of a version, and of the     *)
(* vault, that its content goes back to a copy that was not finished.      *)
(***************************************************************************)
EXTENDS Naturals, FiniteSets

CONSTANTS
    Passwords,    \* main passwords the user may type
    HiddenPw,     \* password of the hidden compartment
    NoPw,         \* "no password": the header of an empty file
    Workers,      \* worker threads
    Inodes,       \* file-system objects; 0 stands for none
    Chunks,       \* body length, in read/write chunks of CHUNK_SIZE
    HdrLen,       \* length of the vault's header JSON
    MaxVersions,  \* max_versions_per_vault
    MaxCut,       \* bound: a save fails part-way while there are fewer cut copies
    Exclusive     \* the screens' is_processing guard admits one worker

ASSUME RekeyAssumption ==
    /\ NoPw \notin Passwords
    /\ HiddenPw # NoPw
    /\ 0 \notin Inodes
    /\ Chunks \in Nat \ {0}
    /\ HdrLen \in Nat \ {0}
    /\ MaxVersions \in Nat
    /\ MaxCut \in Nat
    /\ Exclusive \in BOOLEAN

VARIABLES
    dir,       \* file name -> inode, 0 when the name does not exist
    disk,      \* inode -> file content
    worker,    \* control state and local variables of each worker
    versions,  \* version files of this vault, see Version
    versioning,\* VaultVersionManager.enabled
    closing,   \* shutdown_requested and cancel_requested, raised together
    alive,     \* the process runs
    cut        \* history: the vault goes back to an unfinished version copy

vars == <<dir, disk, worker, versions, versioning, closing, alive, cut>>

-----------------------------------------------------------------------------
(* Files *)

Salts == {"own", "none"}      \* the hidden salt the vault was made with, or not

Header == [main: Passwords \cup {NoPw}, hidden_salt: Salts,
           recovery_envelope: BOOLEAN, len: Nat]

File == [hdr: Header, body: 0..Chunks]

NoHeader == [main |-> NoPw, hidden_salt |-> "none",
             recovery_envelope |-> FALSE, len |-> 0]

Empty == [hdr |-> NoHeader, body |-> 0]

\* A version file: its content, and the history of its making.
Version == [file: File, cut: BOOLEAN]

\* What a copy of f that stops part-way leaves under the new name: some of
\* the body is missing, or the header too is incomplete and unreadable.
CutShort(f) == {Empty} \cup {[f EXCEPT !.body = n] : n \in {k \in 0..Chunks : k < f.body}}

\* A vault as encrypt_hidden_vault leaves it.
NewVault(pw) ==
    [hdr |-> [main |-> pw, hidden_salt |-> "own",
              recovery_envelope |-> TRUE, len |-> HdrLen],
     body |-> Chunks]

\* Header, metadata block, payload, tag and padding are all there, and the
\* body starts at the offset the compartments were laid out for.
Whole(f) ==
    /\ f.hdr.main \in Passwords
    /\ f.hdr.len = HdrLen
    /\ f.body = Chunks

\* _open_hidden_vault: the mini-header lies where the password and the file's
\* size say, under a key drawn from the salt of the outer header; both must be
\* as they were when the compartment was made.
HiddenOpens(f, pw) ==
    /\ pw = HiddenPw
    /\ f.hdr.hidden_salt = "own"
    /\ f.hdr.len = HdrLen /\ f.body = Chunks

\* What decrypt_stream gives for a password: the main envelope is tried first,
\* the hidden compartment only when that fails.
Unlock(f, pw) ==
    CASE f.hdr.main = pw -> IF f.body = Chunks THEN "main" ELSE "damaged"
      [] f.hdr.main # pw /\ HiddenOpens(f, pw) -> "hidden"
      [] OTHER -> "refused"

Recoverable(f) == f.hdr.recovery_envelope /\ f.body = Chunks

VaultFile == disk[dir["vault"]]

-----------------------------------------------------------------------------
(* Workers *)

Stages == {"idle", "save", "auth", "open", "copy", "commit", "record",
           "cleanup", "restore", "install", "report"}

Results == {"none", "complete", "wrong", "cancelled", "failed", "replaced"}

Idle(res) ==
    [pc |-> "idle", old |-> NoPw, new |-> NoPw, src |-> 0, hdr |-> NoHeader,
     size |-> 0, dst |-> 0, pos |-> 0, ver |-> [file |-> Empty, cut |-> TRUE],
     result |-> res]

WorkerRec ==
    [pc: Stages, old: Passwords \cup {NoPw}, new: Passwords \cup {NoPw},
     src: Inodes \cup {0}, hdr: Header, size: 0..Chunks, dst: Inodes \cup {0},
     pos: 0..Chunks, ver: Version, result: Results]

\* Workers whose outcome has not been posted.  _rekey_worker posts it before
\* its finally clause runs, so the next operation may already be under way
\* while an earlier worker has its clean-up still to do.
Busy == {w \in Workers : worker[w].pc \notin {"idle", "cleanup"}}

\* Inodes a name or an open handle still refers to.
Used == {dir[n] : n \in DOMAIN dir}
          \cup {worker[w].src : w \in Workers} \cup {worker[w].dst : w \in Workers}

MayStart(w) ==
    /\ alive /\ ~closing
    /\ worker[w].pc = "idle"
    /\ Exclusive => Busy = {}

Go(w, rec) == worker' = [worker EXCEPT ![w] = rec]

Finish(w, res) ==
    Go(w, [worker[w] EXCEPT !.pc = "cleanup", !.result = res])

-----------------------------------------------------------------------------
\* encrypt_hidden_vault refuses equal main and hidden passwords.
Init ==
    \E p \in Passwords \ {HiddenPw}, i \in Inodes :
        /\ dir = [vault |-> i, tmp |-> 0]
        /\ disk = [j \in Inodes |-> IF j = i THEN NewVault(p) ELSE Empty]
        /\ worker = [w \in Workers |-> Idle("none")]
        /\ versions = {}
        /\ versioning \in BOOLEAN
        /\ closing = FALSE
        /\ alive = TRUE
        /\ cut = FALSE

\* RekeyScreen._do_rekey: both passwords given, and different.
StartRekey(w, old, new) ==
    /\ MayStart(w)
    /\ old # new
    /\ Go(w, [Idle("none") EXCEPT !.pc = "save", !.old = old, !.new = new])
    /\ UNCHANGED <<dir, disk, versions, versioning, closing, alive, cut>>

\* save_version copies straight onto the final version name and then prunes.
\* Which versions the prune keeps is VersionStore's subject: any may go, the
\* new one too.  An error ends the save without a prune and is not fatal: it
\* leaves nothing, when no file could be made, or the part that was copied.
SaveVersion(w) ==
    /\ alive
    /\ worker[w].pc = "save"
    /\ Go(w, [worker[w] EXCEPT !.pc = "auth"])
    /\ \/ UNCHANGED versions
       \/ /\ versioning
          /\ \E keep \in SUBSET (versions \cup {[file |-> VaultFile, cut |-> cut]}) :
                /\ Cardinality(keep) <= MaxVersions
                /\ versions' = keep
       \/ /\ versioning
          /\ Cardinality({v \in versions : v.cut}) < MaxCut
          /\ \E f \in CutShort(VaultFile) :
                versions' = versions \cup {[file |-> f, cut |-> TRUE]}
    /\ UNCHANGED <<dir, disk, versioning, closing, alive, cut>>

\* Mutant: the old password is taken on trust.
AuthenticateNobody(w) ==
    /\ alive
    /\ worker[w].pc = "auth"
    /\ Go(w, [worker[w] EXCEPT !.pc = "open", !.src = dir["vault"], !.hdr = VaultFile.hdr])
    /\ UNCHANGED <<dir, disk, versions, versioning, closing, alive, cut>>

\* rekey_vault reads the header and tries the old password on the main
\* envelope only; an unreadable or out-of-policy header fails earlier.
Authenticate(w) ==
    /\ alive
    /\ worker[w].pc = "auth"
    /\ LET hdr == VaultFile.hdr IN
         \/ /\ hdr.main = worker[w].old
            /\ Go(w, [worker[w] EXCEPT !.pc = "open", !.src = dir["vault"], !.hdr = hdr])
         \/ hdr.main # NoPw /\ hdr.main # worker[w].old /\ Finish(w, "wrong")
         \/ Finish(w, "failed")
    /\ UNCHANGED <<dir, disk, versions, versioning, closing, alive, cut>>

\* Mutant: hidden_salt is left at its default.
RekeyedHeaderNoSalt(hdr, new, jsonLen) ==
    [main |-> new, hidden_salt |-> "none",
     recovery_envelope |-> hdr.recovery_envelope,
     len |-> IF jsonLen < hdr.len THEN hdr.len ELSE jsonLen]

\* The new header: salt and main envelope are fresh, everything else is kept,
\* and its JSON, of length jsonLen, is padded to the old length.
RekeyedHeader(hdr, new, jsonLen) ==
    [main |-> new, hidden_salt |-> hdr.hidden_salt,
     recovery_envelope |-> hdr.recovery_envelope,
     len |-> IF jsonLen < hdr.len THEN hdr.len ELSE jsonLen]

\* Mutant: a longer header is accepted.
FitsAnyHeader(hdr, jsonLen) == TRUE

FitsOldHeader(hdr, jsonLen) == jsonLen <= hdr.len

\* total_size - payload_offset, in chunks.
PayloadSize(i) == disk[i].body

\* open(output_path, 'wb') truncates whatever the temp name points at, or
\* makes a new file; the size of the input was taken just before.
OpenTmp(w, jsonLen) ==
    /\ alive
    /\ worker[w].pc = "open"
    /\ \/ /\ ~FitsOldHeader(worker[w].hdr, jsonLen)
          /\ Finish(w, "failed")
          /\ UNCHANGED <<dir, disk>>
       \/ /\ FitsOldHeader(worker[w].hdr, jsonLen)
          /\ \E i \in Inodes :
                /\ IF dir["tmp"] = 0 THEN i \notin Used ELSE i = dir["tmp"]
                /\ dir' = [dir EXCEPT !["tmp"] = i]
                /\ disk' = [disk EXCEPT ![i] =
                       [hdr |-> RekeyedHeader(worker[w].hdr, worker[w].new, jsonLen),
                        body |-> 0]]
                /\ Go(w, [worker[w] EXCEPT !.pc = "copy", !.dst = i, !.pos = 0,
                                           !.size = PayloadSize(worker[w].src)])
    /\ UNCHANGED <<versions, versioning, closing, alive, cut>>

\* Mutant: cancelling leaves the copy loop as the end of the input does.
CopyChunkBreakOnCancel(w) ==
    /\ alive
    /\ worker[w].pc = "copy"
    /\ worker[w].pos < worker[w].size
    /\ IF closing
         THEN Go(w, [worker[w] EXCEPT !.pc = "commit"]) /\ UNCHANGED disk
         ELSE /\ disk' = [disk EXCEPT ![worker[w].dst].body = worker[w].pos + 1]
              /\ Go(w, [worker[w] EXCEPT !.pos = @ + 1])
    /\ UNCHANGED <<dir, versions, versioning, closing, alive, cut>>

\* One turn of the copy loop.  An early end of the input leaves the loop as a
\* finished copy does; a write error or the cancel flag raises.
CopyChunk(w) ==
    /\ alive
    /\ worker[w].pc = "copy"
    /\ worker[w].pos < worker[w].size
    /\ LET pos == worker[w].pos IN
         \/ /\ closing
            /\ Finish(w, "cancelled")
            /\ UNCHANGED disk
         \/ /\ ~closing
            /\ pos < disk[worker[w].src].body
            /\ disk' = [disk EXCEPT ![worker[w].dst].body = IF @ > pos THEN @ ELSE pos + 1]
            /\ Go(w, [worker[w] EXCEPT !.pos = pos + 1])
         \/ /\ ~closing
            /\ pos >= disk[worker[w].src].body
            /\ Go(w, [worker[w] EXCEPT !.pc = "commit"])
            /\ UNCHANGED disk
         \/ /\ ~closing
            /\ Finish(w, "failed")
            /\ UNCHANGED disk
    /\ UNCHANGED <<dir, versions, versioning, closing, alive, cut>>

CopyDone(w) ==
    /\ alive
    /\ worker[w].pc = "copy"
    /\ worker[w].pos = worker[w].size
    /\ Go(w, [worker[w] EXCEPT !.pc = "commit"])
    /\ UNCHANGED <<dir, disk, versions, versioning, closing, alive, cut>>

\* tmp.replace(vault): atomic, and refused when the temp name is gone or the
\* file system says no.
Commit(w) ==
    /\ alive
    /\ worker[w].pc = "commit"
    /\ \/ /\ dir["tmp"] # 0
          /\ dir' = [vault |-> dir["tmp"], tmp |-> 0]
          /\ Go(w, [worker[w] EXCEPT !.pc = "record"])
       \/ Finish(w, "failed") /\ UNCHANGED dir
    /\ UNCHANGED <<disk, versions, versioning, closing, alive, cut>>

\* Statistics, activity log, recent list, version list and the outcome.
\* push_recent can raise (a configuration whose list is no list): the handler
\* then reports a failed re-key, of a vault that has been replaced.
Record(w) ==
    /\ alive
    /\ worker[w].pc = "record"
    /\ Finish(w, "complete") \/ Finish(w, "failed")
    /\ UNCHANGED <<dir, disk, versions, versioning, closing, alive, cut>>

\* The finally clause: the temp sibling goes, an unlink error is swallowed.
Cleanup(w) ==
    /\ alive
    /\ worker[w].pc = "cleanup"
    /\ dir' \in {dir, [dir EXCEPT !["tmp"] = 0]}
    /\ Go(w, Idle(worker[w].result))
    /\ UNCHANGED <<disk, versions, versioning, closing, alive, cut>>

-----------------------------------------------------------------------------
(* Version history *)

\* RekeyScreen._replace_current_confirmed, with an entry of the version list.
StartReplaceCurrent(w, v) ==
    /\ MayStart(w)
    /\ v \in versions
    /\ Go(w, [Idle("none") EXCEPT !.pc = "restore", !.ver = v])
    /\ UNCHANGED <<dir, disk, versions, versioning, closing, alive, cut>>

\* replace_current: copy the version to a temp file of its own.  It fails when
\* the entry has gone meanwhile or the copy does, and removes its temp file.
CopyVersion(w) ==
    /\ alive
    /\ worker[w].pc = "restore"
    /\ \/ /\ worker[w].ver \in versions
          /\ \E i \in Inodes \ Used :
                /\ disk' = [disk EXCEPT ![i] = worker[w].ver.file]
                /\ Go(w, [worker[w] EXCEPT !.pc = "install", !.dst = i])
       \/ Go(w, Idle("failed")) /\ UNCHANGED disk
    /\ UNCHANGED <<dir, versions, versioning, closing, alive, cut>>

InstallVersion(w) ==
    /\ alive
    /\ worker[w].pc = "install"
    /\ \/ /\ dir' = [dir EXCEPT !["vault"] = worker[w].dst]
          /\ cut' = worker[w].ver.cut
          /\ Go(w, [worker[w] EXCEPT !.pc = "report"])
       \/ Go(w, Idle("failed")) /\ UNCHANGED <<dir, cut>>
    /\ UNCHANGED <<disk, versions, versioning, closing, alive>>

\* The activity log and the outcome; nothing here raises.
Report(w) ==
    /\ alive
    /\ worker[w].pc = "report"
    /\ Go(w, Idle("replaced"))
    /\ UNCHANGED <<dir, disk, versions, versioning, closing, alive, cut>>

\* delete_version on a selected entry, and the startup prune.
DropVersion(v) ==
    /\ alive
    /\ v \in versions
    /\ versions' = versions \ {v}
    /\ UNCHANGED <<dir, disk, worker, versioning, closing, alive, cut>>

\* SettingsController.save_versioning rebuilds the version manager.
ToggleVersioning ==
    /\ alive /\ ~closing
    /\ versioning' = ~versioning
    /\ UNCHANGED <<dir, disk, worker, versions, closing, alive, cut>>

-----------------------------------------------------------------------------
(* Process *)

RequestClose ==
    /\ alive /\ ~closing
    /\ closing' = TRUE
    /\ UNCHANGED <<dir, disk, worker, versions, versioning, alive, cut>>

Crash ==
    /\ alive
    /\ alive' = FALSE
    /\ closing' = FALSE
    /\ worker' = [w \in Workers |-> Idle("none")]
    /\ UNCHANGED <<dir, disk, versions, versioning, cut>>

Restart ==
    /\ ~alive
    /\ alive' = TRUE
    /\ UNCHANGED <<dir, disk, worker, versions, versioning, closing, cut>>

WorkerStep(w) ==
    \/ SaveVersion(w)
    \/ Authenticate(w)
    \/ \E jsonLen \in {HdrLen - 1, HdrLen, HdrLen + 1} : OpenTmp(w, jsonLen)
    \/ CopyChunk(w)
    \/ CopyDone(w)
    \/ Commit(w)
    \/ Record(w)
    \/ Cleanup(w)
    \/ CopyVersion(w)
    \/ InstallVersion(w)
    \/ Report(w)

Next ==
    \/ \E w \in Workers : WorkerStep(w)
    \/ \E w \in Workers, old, new \in Passwords : StartRekey(w, old, new)
    \/ \E w \in Workers, v \in versions : StartReplaceCurrent(w, v)
    \/ \E v \in versions : DropVersion(v)
    \/ ToggleVersioning
    \/ RequestClose
    \/ Crash
    \/ Restart

Spec == Init /\ [][Next]_vars

-----------------------------------------------------------------------------
(* Properties *)

\* Types of the variables.
TypeOK ==
    /\ dir \in [{"vault", "tmp"} -> Inodes \cup {0}]
    /\ dir["vault"] # 0
    /\ disk \in [Inodes -> File]
    /\ worker \in [Workers -> WorkerRec]
    /\ versions \subseteq Version
    /\ versioning \in BOOLEAN
    /\ closing \in BOOLEAN
    /\ alive \in BOOLEAN
    /\ cut \in BOOLEAN

\* Whatever step a re-key or a restore is in, and wherever the process dies,
\* the vault's name holds a complete file that its main password opens (temp
\* sibling, copy loop, atomic replace; docstring of replace_current).  Only a
\* vault rolled back to a copy that had been cut short is excepted.
VaultWhole ==
    ~cut => Whole(VaultFile) /\ Unlock(VaultFile, VaultFile.hdr.main) = "main"

\* Re-keying never costs the owner the other two ways in: the hidden password
\* still reaches the hidden compartment and the recovery phrase still works
\* (rekey_vault carries hidden_salt, recovery_envelope and the header length).
CompartmentsSurvive ==
    ~cut => Unlock(VaultFile, HiddenPw) = "hidden" /\ Recoverable(VaultFile)

\* A version that is not a whole vault goes back to a copy that broke off:
\* every copy that was finished, of a vault that does not itself go back to a
\* broken one, gives a rollback that opens, with its recovery envelope
\* (save_version, replace_current).
VersionsWhole == \A v \in versions : ~v.cut => Whole(v.file) /\ Recoverable(v.file)

\* The step that changes the vault.
ChangeIsCommit ==
    VaultFile' # VaultFile =>
        \E w \in Workers :
           \/ /\ worker[w].pc = "commit" /\ worker'[w].pc = "record"
              /\ VaultFile.hdr.main = worker[w].old
              /\ VaultFile' = [VaultFile EXCEPT !.hdr.main = worker[w].new]
           \/ /\ worker[w].pc = "install" /\ worker'[w].pc = "report"
              /\ VaultFile' = worker[w].ver.file

\* The vault changes in the one step of a worker that replaces it; a wrong
\* password, a cancellation, a crash, an error up to that step, and whatever
\* comes after it, the bookkeeping and its errors, leave it as it is.  A
\* re-key replaces nothing but the password, and only the one it was given as
\* the old password (_rekey_worker, rekey_vault).
VaultChangesOnlyByCommit == [][ChangeIsCommit]_vars

\* The vault implements the one-password register: every re-key and every
\* rollback is one atomic request to it, granted when the file is replaced.
Request(w) ==
    LET r == worker[w] IN
    IF r.pc \in {"save", "auth", "open", "copy", "commit", "record"}
      THEN [op |-> "rekey", old |-> r.old, new |-> r.new,
            status |-> IF r.pc = "record" THEN "granted" ELSE "open"]
    ELSE IF r.pc \in {"restore", "install", "report"}
      THEN [op |-> "rollback", old |-> NoPw, new |-> r.ver.file.hdr.main,
            status |-> IF r.pc = "report" THEN "granted" ELSE "open"]
    ELSE [op |-> "none", old |-> NoPw, new |-> NoPw, status |-> "open"]

Answer(w) ==
    CASE worker[w].result \in {"complete", "replaced"} -> "done"
      [] worker[w].result \in {"wrong", "cancelled"} -> "refused"
      [] OTHER -> worker[w].result

Register == INSTANCE CredentialRegister WITH
    Clients <- Workers,
    password <- VaultFile.hdr.main,
    archive <- {v.file.hdr.main : v \in versions},
    asked <- [w \in Workers |-> Request(w)],
    answer <- [w \in Workers |-> Answer(w)]

\* Refinement: see CredentialRegister.
RegisterSpec == Register!Spec
=============================================================================
