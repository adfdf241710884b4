----------------------------- MODULE LegacyWindow -----------------------------
(***************************************************************************)
(* The older window of the application (gui_app.py and views/), which      *)
(* still comes with it.                                                    *)
(*                                                                         *)
(* Clicks, the poll loop and timers run on one thread, each operation on a *)
(* thread of its own.  Encryption and re-key look at is_processing before  *)
(* they raise it; decryption, selective extraction, the comparison of two  *)
(* vaults and the notes raise it unseen, so that operations may overlap,   *)
(* and the first batch_done lowers the flag for all of them.  Closing the  *)
(* window asks if the flag is up, waits three seconds for worker_thread,   *)
(* and wipes the listed temporary files; the threads die with the process. *)
(* What packing makes of folders is the subject of EncryptPipeline: here   *)
(* sources are plain files.                                                *)
(***************************************************************************)
EXTENDS Naturals, Sequences

CONSTANTS
    Files,         \* files the user puts into the encryption queue
    Hidden,        \* files in the list of hidden sources
    Workers,       \* threads
    Kinds,         \* operations the user makes use of
    Copies,        \* numbers the vault-name loop tries, 1..Copies
    MaxOps,        \* bound: operations started
    MayDrop,       \* the queue may stay full while a put waits
    WipeMayFail    \* a file may refuse to be wiped and to be removed

AllKinds == {"encrypt", "hide", "rekey", "decrypt", "extract", "other"}

ASSUME LegacyAssumption ==
    /\ Files \cap Hidden = {}
    /\ Kinds \subseteq AllKinds
    /\ {Copies, MaxOps} \subseteq Nat
    /\ {MayDrop, WipeMayFail} \subseteq BOOLEAN

VARIABLES
    is_processing,
    cancel,      \* _cancel_requested
    thread,      \* worker_thread, a set of one worker or none
    disabled,    \* buttons
    dialog,      \* the recovery-phrase dialog: closed, or the mode it is for
    form,        \* the encryption form: batch_queue, and are passwords typed in
    timers,      \* forms to be cleared in two seconds
    msg_queue,   \* texts of the batch_done messages
    worker,
    temp,        \* plaintext of each worker: its zip, and a second zip, a temporary
                 \* folder or the output folder it is filling
    tracked,     \* _active_temp_files: workers whose zip is listed
    plain,       \* files that are still there
    vaults,      \* vault name -> what can be got back, with which hidden password
    vault,       \* the vault being re-keyed, and its .rekey.tmp
    app,         \* open, joining, wiping, closed or killed
    doomed,      \* listed files the closing window has still to wipe
    cleared,     \* those it has wiped
    ops,         \* operations started, for the bound
    mixed,       \* an operation was started before another's batch_done was read
    lost,        \* a batch_done was never queued
    rests,       \* plaintext on the disk that no worker will come back to
    failed,      \* something of it could not be removed when its turn came
    halfway      \* the process ended while an output folder was being filled

appVars == <<app, doomed, cleared>>
uiVars == <<is_processing, disabled, dialog, form, timers>>
files == <<temp, tracked, plain, vaults, vault>>
left == <<rests, failed, halfway>>
marks == <<ops, mixed, lost, left>>
vars == <<is_processing, cancel, thread, disabled, dialog, form, timers, msg_queue,
          worker, temp, tracked, plain, vaults, vault, app, doomed, cleared,
          ops, mixed, lost, rests, failed, halfway>>

-----------------------------------------------------------------------------
Names == (Files \cup Hidden) \X (1..Copies)

Idle == [pc |-> "none", kind |-> "other", todo |-> {}, unit |-> {}, wipe |-> FALSE,
         pw |-> "set", good |-> TRUE, cancelled |-> FALSE, name |-> <<>>]

NoTemp == [zip |-> "none", second |-> "none"]

\* What is on the disk of it: zips, an .rpm_extract_dir_, an output folder.
OnDisk(t) == (IF t.zip = "none" THEN {} ELSE {"zip"}) \cup ({t.second} \ {"none"})

Free(w) == worker[w] = Idle /\ temp[w] = NoTemp

\* A worker that has posted its batch_done may still have to return.
Busy == {w \in Workers : worker[w].pc \notin {"none", "unlink"}}

\* Texts, as _handle_message tells them apart: it looks for the words encrypt
\* and decrypt, and takes no text with fail or error in it.
Texts == {"encrypt", "decrypt", "plain"}

Init ==
    /\ is_processing = FALSE /\ cancel = FALSE /\ thread = {} /\ disabled = {}
    /\ dialog = "closed" /\ form = [queue |-> {}, typed |-> FALSE] /\ timers = {}
    /\ msg_queue = <<>>
    /\ worker = [w \in Workers |-> Idle]
    /\ temp = [w \in Workers |-> NoTemp] /\ tracked = {}
    /\ plain = Files \cup Hidden
    /\ vaults = [n \in {} |-> {}]
    /\ vault = [now |-> "whole", tmp |-> "none"]
    /\ app = "open" /\ doomed = {} /\ cleared = {}
    /\ ops = 0 /\ mixed = FALSE /\ lost = FALSE
    /\ rests = {} /\ failed = FALSE /\ halfway = FALSE

-----------------------------------------------------------------------------
(* The window: clicks, poll loop, timers *)

Clickable == app = "open" /\ dialog = "closed"

\* _add_encrypt_source: it must exist, and not be in the queue.
AddSource(f) ==
    /\ Clickable /\ f \in plain \cap Files
    /\ form' = [form EXCEPT !.queue = @ \cup {f}]
    /\ UNCHANGED <<is_processing, cancel, thread, disabled, dialog, timers, msg_queue,
                   worker, files, appVars, marks>>

TypePasswords ==
    /\ Clickable
    /\ form' = [form EXCEPT !.typed = TRUE]
    /\ UNCHANGED <<is_processing, cancel, thread, disabled, dialog, timers, msg_queue,
                   worker, files, appVars, marks>>

\* _process_batch up to the dialog, whose own event loop then runs.
ClickEncrypt(k) ==
    /\ Clickable /\ k \in Kinds \cap {"encrypt", "hide"} /\ "encrypt" \notin disabled
    /\ ops < MaxOps
    /\ ~is_processing
    /\ form.queue # {} /\ form.typed
    /\ k = "hide" => Hidden # {}
    /\ is_processing' = TRUE /\ cancel' = FALSE
    /\ dialog' = k
    /\ UNCHANGED <<thread, disabled, form, timers, msg_queue, worker, files, appVars, marks>>

\* Without the phrase confirmed, nothing happens.
DialogCancelled ==
    /\ app = "open" /\ dialog # "closed"
    /\ dialog' = "closed" /\ is_processing' = FALSE
    /\ UNCHANGED <<cancel, thread, disabled, form, timers, msg_queue, worker, files,
                   appVars, marks>>

\* A thread is started.  Is another at work, or its batch_done still to come?
Begin(w, rec) ==
    /\ Free(w)
    /\ worker' = [worker EXCEPT ![w] = rec]
    /\ mixed' = (mixed \/ Busy # {} \/ msg_queue # <<>>)
    /\ ops' = ops + 1
    /\ UNCHANGED <<lost, left>>

\* The rest of _process_batch: the queue and the hidden password are read now,
\* the decoy password was read before the dialog.
DialogConfirmed(w, wipe) ==
    /\ app = "open" /\ dialog # "closed"
    /\ dialog' = "closed"
    /\ disabled' = disabled \cup {"encrypt"}
    /\ thread' = {w}
    /\ Begin(w, [Idle EXCEPT !.pc = IF dialog = "hide" THEN "pack" ELSE "next",
                             !.kind = dialog, !.todo = form.queue, !.wipe = wipe,
                             !.unit = IF dialog = "hide" THEN form.queue \cup Hidden ELSE {},
                             !.pw = IF form.typed THEN "set" ELSE "empty"])
    /\ UNCHANGED <<is_processing, cancel, form, timers, msg_queue, files, appVars>>

\* _do_rekey.
DoRekey(w) ==
    /\ Clickable /\ "rekey" \in Kinds /\ "rekey" \notin disabled
    /\ ops < MaxOps
    /\ ~is_processing
    /\ is_processing' = TRUE /\ cancel' = FALSE
    /\ disabled' = disabled \cup {"rekey"}
    /\ thread' = {w}
    /\ Begin(w, [Idle EXCEPT !.kind = "rekey", !.pc = "open"])
    /\ UNCHANGED <<dialog, form, timers, msg_queue, files, appVars>>

\* _do_decrypt: the flag is raised whether it was up or not.
DoDecrypt(w) ==
    /\ Clickable /\ "decrypt" \in Kinds /\ "decrypt" \notin disabled
    /\ ops < MaxOps
    /\ is_processing' = TRUE /\ cancel' = FALSE
    /\ disabled' = disabled \cup {"decrypt"}
    /\ thread' = {w}
    /\ Begin(w, [Idle EXCEPT !.kind = "decrypt", !.pc = "next", !.todo = {"vault"}])
    /\ UNCHANGED <<dialog, form, timers, msg_queue, files, appVars>>

\* do_extract, do_diff, _save_note and _load_note: the same, but the thread is
\* not remembered, the cancel flag not reset and no button disabled.
DoUnguarded(w, k) ==
    /\ Clickable /\ k \in Kinds \cap {"extract", "other"}
    /\ ops < MaxOps
    /\ is_processing' = TRUE
    /\ Begin(w, [Idle EXCEPT !.kind = k, !.pc = IF k = "extract" THEN "next" ELSE "report",
                             !.todo = IF k = "extract" THEN {"vault"} ELSE {}])
    /\ UNCHANGED <<cancel, thread, disabled, dialog, form, timers, msg_queue, files, appVars>>

\* _handle_message for batch_done: every button is enabled again.
PollBatchDone ==
    /\ app = "open" /\ msg_queue # <<>>
    /\ is_processing' = FALSE /\ disabled' = {}
    /\ timers' = timers \cup (IF Head(msg_queue) = "encrypt" THEN {"encrypt"} ELSE {})
    /\ msg_queue' = Tail(msg_queue)
    /\ UNCHANGED <<cancel, thread, dialog, form, worker, files, appVars, marks>>

\* Mutant: the passwords are forgotten, the queue stays.
ClearPasswordsOnly ==
    /\ app = "open" /\ "encrypt" \in timers
    /\ timers' = timers \ {"encrypt"}
    /\ form' = [form EXCEPT !.typed = FALSE]
    /\ UNCHANGED <<is_processing, cancel, thread, disabled, dialog, msg_queue, worker,
                   files, appVars, marks>>

\* _clear_batch, two seconds after the message, dialog or not.
ClearBatch ==
    /\ app = "open" /\ "encrypt" \in timers
    /\ timers' = timers \ {"encrypt"}
    /\ form' = [queue |-> {}, typed |-> FALSE]
    /\ UNCHANGED <<is_processing, cancel, thread, disabled, dialog, msg_queue, worker,
                   files, appVars, marks>>

-----------------------------------------------------------------------------
(* The workers *)

Alive(w, pc) == app \in {"open", "joining", "wiping"} /\ worker[w].pc = pc

Encrypts(w) == worker[w].kind \in {"encrypt", "hide"}

SetWorker(w, rec) == worker' = [worker EXCEPT ![w] = rec]
GoTo(w, pc) == SetWorker(w, [worker[w] EXCEPT !.pc = pc])

\* What no worker changes.
ByUI == <<is_processing, cancel, thread, disabled, dialog, form, timers, appVars, ops, mixed>>

\* An exception, of which a cancellation is one: the finally clause is next.
Fail(w) == GoTo(w, "untrack")
Cancelled(w) == SetWorker(w, [worker[w] EXCEPT !.pc = "untrack", !.cancelled = TRUE])

\* The loop over the sources.
NextSource(w) ==
    /\ Alive(w, "next")
    /\ IF worker[w].todo = {} \/ (cancel /\ worker[w].kind # "extract") \/ worker[w].cancelled
         THEN /\ SetWorker(w, [worker[w] EXCEPT !.pc = "report", !.cancelled = @ \/ cancel])
              /\ UNCHANGED <<temp, tracked>>
         ELSE \E s \in worker[w].todo :
                IF Encrypts(w)
                  THEN /\ SetWorker(w, [worker[w] EXCEPT !.pc = "pack", !.unit = {s},
                                                         !.todo = @ \ {s}])
                       /\ UNCHANGED <<temp, tracked>>
                  ELSE /\ SetWorker(w, [worker[w] EXCEPT !.pc = "open", !.todo = @ \ {s}])
                       /\ temp' = [temp EXCEPT ![w].zip = "empty"]
                       /\ tracked' = tracked \cup {w}
    /\ UNCHANGED <<ByUI, msg_queue, plain, vaults, vault, lost, left>>

\* What cannot be removed stays, and nobody of this process tries again.
Stays(what) ==
    /\ WipeMayFail /\ what # {}
    /\ rests' = rests \cup what /\ failed' = TRUE /\ UNCHANGED halfway

\* package_files makes the zip; a source that is gone, or an empty list, is
\* an error.
Pack(w) ==
    /\ Alive(w, "pack")
    /\ \/ /\ worker[w].kind = "encrypt" \/ worker[w].todo # {}
          /\ worker[w].unit \subseteq plain
          /\ temp' = [temp EXCEPT ![w].zip = "plain"]
          /\ GoTo(w, "packing")
       \/ Fail(w) /\ UNCHANGED temp
    /\ UNCHANGED <<ByUI, msg_queue, tracked, plain, vaults, vault, lost, left>>

\* An error, or the flag, while a zip is made: package_files removes it, or
\* leaves it to the next start.
PackingStops(w) ==
    /\ (cancel /\ Cancelled(w)) \/ Fail(w)
    /\ UNCHANGED left \/ Stays({"zip"})

\* The zip is complete: only now, and only in a normal batch, is it listed.
\* A hidden vault needs a second one.
Packed(w) ==
    /\ Alive(w, "packing")
    /\ \/ /\ PackingStops(w)
          /\ temp' = [temp EXCEPT ![w].zip = "none"] /\ UNCHANGED tracked
       \/ /\ worker[w].kind = "encrypt" /\ GoTo(w, "name")
          /\ tracked' = tracked \cup {w} /\ UNCHANGED <<temp, left>>
       \/ /\ worker[w].kind = "hide" /\ GoTo(w, "packing2")
          /\ temp' = [temp EXCEPT ![w].second = "zip"] /\ UNCHANGED <<tracked, left>>
    /\ UNCHANGED <<ByUI, msg_queue, plain, vaults, vault, lost>>

PackedHidden(w) ==
    /\ Alive(w, "packing2")
    /\ \/ PackingStops(w) /\ temp' = [temp EXCEPT ![w].second = "none"]
       \/ GoTo(w, "name") /\ UNCHANGED <<temp, left>>
    /\ UNCHANGED <<ByUI, msg_queue, tracked, plain, vaults, vault, lost>>

\* while out_path.exists(); the put of progress_start may raise Full.
ChooseName(w) ==
    /\ Alive(w, "name")
    /\ \/ LET s == CHOOSE x \in worker[w].unit : TRUE IN
          \E i \in 1..Copies :
             /\ <<s, i>> \notin DOMAIN vaults
             /\ \A j \in 1..(i - 1) : <<s, j>> \in DOMAIN vaults
             /\ SetWorker(w, [worker[w] EXCEPT !.pc = "check", !.name = <<s, i>>])
       \/ Fail(w)
    /\ UNCHANGED <<ByUI, msg_queue, files, lost, left>>

\* open(output_path, 'wb') of decrypt_file.
OpenOutput(w) ==
    /\ Alive(w, "open") /\ worker[w].kind \in {"decrypt", "extract"}
    /\ \/ temp' = [temp EXCEPT ![w].zip = "empty"] /\ GoTo(w, "check")
       \/ Fail(w) /\ UNCHANGED temp
    /\ UNCHANGED <<ByUI, msg_queue, tracked, plain, vaults, vault, lost, left>>

\* _raise_if_cancelled, before a chunk or a member of the archive.
Check(w, pc, then) ==
    /\ Alive(w, pc)
    /\ IF cancel THEN Cancelled(w) ELSE GoTo(w, then)
    /\ UNCHANGED <<ByUI, msg_queue, files, lost, left>>

LastCheck(w) == Check(w, "check2", "commit")

\* Mutant: decrypt_file does not take the flag.
FirstCheckSkipped(w) == Alive(w, "check") /\ GoTo(w, "chunk")
                        /\ UNCHANGED <<ByUI, msg_queue, files, lost, left>>

FirstCheck(w) == Check(w, "check", "chunk")

\* The chunks are read.  A zip that has been wiped meanwhile is noise to a
\* worker that has it open, and gone for one that has not.
ReadChunks(w) ==
    /\ Alive(w, "chunk") /\ Encrypts(w)
    /\ \/ SetWorker(w, [worker[w] EXCEPT !.pc = "check2", !.good = temp[w].zip = "plain"])
       \/ Fail(w)
    /\ UNCHANGED <<ByUI, msg_queue, files, lost, left>>

\* Plaintext is written, into a file without a name if it has been wiped; a
\* wrong password or a spoilt vault is an error before or after it.
WriteChunks(w) ==
    /\ Alive(w, "chunk") /\ worker[w].kind \in {"decrypt", "extract"}
    /\ \E wrote \in BOOLEAN :
          /\ temp' = [temp EXCEPT ![w].zip = IF wrote /\ @ # "none" THEN "plain" ELSE @]
          /\ \/ wrote /\ GoTo(w, "unzip")
             \/ Fail(w)
    /\ UNCHANGED <<ByUI, msg_queue, tracked, plain, vaults, vault, lost, left>>

\* extract_archive into a new folder, or into an .rpm_extract_dir_.
Unzip(w) ==
    /\ Alive(w, "unzip")
    /\ \/ /\ temp[w].zip = "plain"
          /\ temp' = [temp EXCEPT ![w].second =
                         IF worker[w].kind = "decrypt" THEN "output" ELSE "dir"]
          /\ GoTo(w, "check2")
       \/ Fail(w) /\ UNCHANGED temp
    /\ UNCHANGED <<ByUI, msg_queue, tracked, plain, vaults, vault, lost, left>>

\* All members are there: the folder is the user's.  Of an .rpm_extract_dir_
\* the selected files are copied, and it is still to be wiped.
Unzipped(w) ==
    /\ Alive(w, "commit") /\ worker[w].kind \in {"decrypt", "extract"}
    /\ \/ /\ GoTo(w, "untrack")
          /\ temp' = [temp EXCEPT ![w].second = IF worker[w].kind = "decrypt" THEN "none" ELSE @]
       \/ Fail(w) /\ UNCHANGED temp
    /\ UNCHANGED <<ByUI, msg_queue, tracked, plain, vaults, vault, lost, left>>

\* os.replace in atomic_output; an error leaves no vault.
Commit(w) ==
    /\ Alive(w, "commit") /\ Encrypts(w)
    /\ \/ /\ vaults' = [n \in DOMAIN vaults \cup {worker[w].name} |->
                          IF n = worker[w].name
                            THEN [files |-> IF worker[w].good THEN worker[w].unit ELSE {},
                                  pw |-> IF worker[w].kind = "hide" THEN worker[w].pw ELSE "set"]
                            ELSE vaults[n]]
          /\ GoTo(w, IF worker[w].wipe THEN "wipe" ELSE "untrack")
       \/ Fail(w) /\ UNCHANGED vaults
    /\ UNCHANGED <<ByUI, msg_queue, temp, tracked, plain, vault, lost, left>>

\* The originals, one by one; one that cannot be wiped ends it.
WipeOriginal(w) ==
    /\ Alive(w, "wipe")
    /\ \/ \E f \in worker[w].unit \cap plain : plain' = plain \ {f} /\ UNCHANGED worker
       \/ (worker[w].unit \cap plain = {} \/ WipeMayFail) /\ Fail(w) /\ UNCHANGED plain
    /\ UNCHANGED <<ByUI, msg_queue, temp, tracked, vaults, vault, lost, left>>

\* The finally clause: first off the list ...
Untrack(w) ==
    /\ Alive(w, "untrack")
    /\ tracked' = tracked \ {w}
    /\ GoTo(w, "clean")
    /\ UNCHANGED <<ByUI, msg_queue, temp, plain, vaults, vault, lost, left>>

AfterClean(w) ==
    IF worker[w].kind \in {"hide", "extract"} THEN GoTo(w, "report") ELSE GoTo(w, "next")

\* Mutant: only the zip is wiped.
CleanZipOnly(w) ==
    /\ Alive(w, "clean")
    /\ temp' = [temp EXCEPT ![w].zip = "none"] /\ AfterClean(w) /\ UNCHANGED <<lost, left>>
    /\ UNCHANGED <<ByUI, msg_queue, tracked, plain, vaults, vault>>

\* ... then wiped, with the folder of a decryption that did not succeed.  A
\* failure is logged, but the worker of a hidden vault does not catch it: the
\* thread ends without a message.
Clean(w) ==
    /\ Alive(w, "clean")
    /\ temp' = [temp EXCEPT ![w] = NoTemp]
    /\ \/ AfterClean(w) /\ UNCHANGED <<lost, left>>
       \/ /\ \E what \in SUBSET OnDisk(temp[w]) : Stays(what)
          /\ IF worker[w].kind = "hide" THEN SetWorker(w, Idle) /\ lost' = TRUE
                                        ELSE AfterClean(w) /\ UNCHANGED lost
    /\ UNCHANGED <<ByUI, msg_queue, tracked, plain, vaults, vault>>

\* The text of the last message.  File names are part of some of them.
TextOf(w) ==
    IF worker[w].cancelled THEN {"plain"}
    ELSE IF Encrypts(w) THEN {"encrypt"}
    ELSE IF worker[w].kind = "decrypt" THEN {"decrypt", "plain"}
    ELSE Texts

\* Mutant: a worker that was cancelled leaves without a word.
ReportUnlessCancelled(w) ==
    /\ Alive(w, "report")
    /\ IF worker[w].kind = "rekey" THEN GoTo(w, "unlink") ELSE SetWorker(w, Idle)
    /\ IF worker[w].cancelled \/ MayDrop THEN UNCHANGED <<msg_queue, lost>>
       ELSE \E t \in TextOf(w) : msg_queue' = Append(msg_queue, t) /\ UNCHANGED lost
    /\ UNCHANGED <<ByUI, files, left>>

\* batch_done is put, or dropped.
Report(w) ==
    /\ Alive(w, "report")
    /\ IF worker[w].kind = "rekey" THEN GoTo(w, "unlink") ELSE SetWorker(w, Idle)
    /\ \/ \E t \in TextOf(w) : msg_queue' = Append(msg_queue, t) /\ UNCHANGED lost
       \/ MayDrop /\ lost' = TRUE /\ UNCHANGED msg_queue
    /\ UNCHANGED <<ByUI, files, left>>

-----------------------------------------------------------------------------
(* _rekey_worker: the temporary file has the same name for every re-key of a *)
(* vault.                                                                    *)

SetTmp(w, pc, state) == vault' = [vault EXCEPT !.tmp = state] /\ GoTo(w, pc)

\* open(output_path, 'wb'): what another worker is writing there is spoilt.
RekeyOpen(w) ==
    /\ Alive(w, "open") /\ worker[w].kind = "rekey"
    /\ \/ SetTmp(w, "write", IF \E v \in Workers : worker[v].pc = "write" THEN "torn" ELSE "partial")
       \/ GoTo(w, "report") /\ UNCHANGED vault
    /\ UNCHANGED <<ByUI, msg_queue, temp, tracked, plain, vaults, lost, left>>

\* Mutant: what has been written so far is taken for the vault.
RekeyWriteKeepsPartial(w) ==
    /\ Alive(w, "write")
    /\ \/ SetTmp(w, "replace", IF vault.tmp = "partial" THEN "whole" ELSE vault.tmp)
       \/ GoTo(w, "replace") /\ UNCHANGED vault
    /\ UNCHANGED <<ByUI, msg_queue, temp, tracked, plain, vaults, lost, left>>

\* A cancellation or an error leaves the copy half-written.
RekeyWrite(w) ==
    /\ Alive(w, "write")
    /\ \/ SetTmp(w, "replace", IF vault.tmp = "partial" THEN "whole" ELSE vault.tmp)
       \/ /\ SetWorker(w, [worker[w] EXCEPT !.pc = "report", !.cancelled = cancel])
          /\ UNCHANGED vault
    /\ UNCHANGED <<ByUI, msg_queue, temp, tracked, plain, vaults, lost, left>>

\* tmp.replace(vault).
RekeyReplace(w) ==
    /\ Alive(w, "replace")
    /\ \/ /\ vault.tmp # "none"
          /\ vault' = [now |-> vault.tmp, tmp |-> "none"]
       \/ UNCHANGED vault
    /\ GoTo(w, "report")
    /\ UNCHANGED <<ByUI, msg_queue, temp, tracked, plain, vaults, lost, left>>

\* The finally clause comes after the message, when a new re-key may have begun.
RekeyUnlink(w) ==
    /\ Alive(w, "unlink")
    /\ vault' = [vault EXCEPT !.tmp = "none"] \/ UNCHANGED vault
    /\ SetWorker(w, Idle)
    /\ UNCHANGED <<ByUI, msg_queue, temp, tracked, plain, vaults, lost, left>>

-----------------------------------------------------------------------------
(* Closing, and what may happen to the process *)

\* Mutant: the user has agreed, but the flag is not set.
CloseNoCancel ==
    /\ app = "open"
    /\ app' = IF is_processing THEN "joining" ELSE "wiping"
    /\ doomed' = IF is_processing THEN {} ELSE tracked
    /\ UNCHANGED <<cancel, thread, uiVars, msg_queue, worker, files, cleared, marks>>

\* _on_close: with the flag up the user is asked, and the worker told.
Close ==
    /\ app = "open"
    /\ app' = IF is_processing THEN "joining" ELSE "wiping"
    /\ doomed' = IF is_processing THEN {} ELSE tracked
    /\ cancel' = (cancel \/ is_processing)
    /\ UNCHANGED <<thread, uiVars, msg_queue, worker, files, cleared, marks>>

\* join(timeout=3.0): the worker has ended, or not.
Joined ==
    /\ app = "joining"
    /\ app' = "wiping" /\ doomed' = tracked
    /\ UNCHANGED <<cancel, thread, uiVars, msg_queue, worker, files, cleared, marks>>

WipeListed(w) ==
    /\ app = "wiping" /\ w \in doomed
    /\ doomed' = doomed \ {w}
    /\ \/ temp' = [temp EXCEPT ![w].zip = "none"] /\ cleared' = cleared \cup {w}
       \/ WipeMayFail /\ UNCHANGED <<temp, cleared>>
    /\ UNCHANGED <<app, cancel, thread, uiVars, msg_queue, worker, tracked, plain, vaults,
                   vault, marks>>

\* The process is no more; what its threads had on the disk is still there.
Gone(how) ==
    /\ app' = how
    /\ worker' = [w \in Workers |-> Idle]
    /\ msg_queue' = <<>> /\ timers' = {} /\ dialog' = "closed"
    /\ halfway' = (halfway \/ \E w \in Workers : temp[w].second = "output")
    /\ UNCHANGED <<is_processing, cancel, thread, disabled, form, files, doomed, cleared, ops,
                   mixed, lost, rests, failed>>

Destroy == app = "wiping" /\ doomed = {} /\ Gone("closed")

Kill == app \in {"open", "joining", "wiping"} /\ Gone("killed")

\* __init__, with _cleanup_orphaned_temp_files: zips and .rpm_extract_dir_ are
\* wiped if that succeeds.  It does not look for output folders.
Restart ==
    /\ app \in {"closed", "killed"}
    /\ app' = "open" /\ doomed' = {} /\ cleared' = {}
    /\ is_processing' = FALSE /\ cancel' = FALSE /\ thread' = {} /\ disabled' = {}
    /\ form' = [queue |-> {}, typed |-> FALSE]
    /\ LET there == rests \cup UNION {OnDisk(temp[w]) : w \in Workers} IN
       \E kept \in SUBSET (there \ {"output"}) :
          /\ kept # {} => WipeMayFail
          /\ rests' = kept \cup (there \cap {"output"})
          /\ failed' = (failed \/ kept # {})
    /\ temp' = [w \in Workers |-> NoTemp] /\ tracked' = {}
    /\ lost' = FALSE
    /\ UNCHANGED <<dialog, timers, msg_queue, worker, plain, vaults, vault, ops, mixed, halfway>>

-----------------------------------------------------------------------------
WorkerStep(w) ==
    \/ NextSource(w) \/ Pack(w) \/ Packed(w) \/ PackedHidden(w) \/ ChooseName(w)
    \/ OpenOutput(w) \/ FirstCheck(w) \/ ReadChunks(w) \/ WriteChunks(w) \/ Unzip(w)
    \/ LastCheck(w) \/ Unzipped(w) \/ Commit(w) \/ WipeOriginal(w)
    \/ Untrack(w) \/ Clean(w) \/ Report(w)
    \/ RekeyOpen(w) \/ RekeyWrite(w) \/ RekeyReplace(w) \/ RekeyUnlink(w)

Click(w) ==
    \/ \E wipe \in BOOLEAN : DialogConfirmed(w, wipe)
    \/ DoRekey(w)
    \/ DoDecrypt(w)
    \/ \E k \in AllKinds : DoUnguarded(w, k)

Next ==
    \/ \E f \in Files : AddSource(f)
    \/ TypePasswords
    \/ \E k \in AllKinds : ClickEncrypt(k)
    \/ DialogCancelled
    \/ \E w \in Workers : Click(w) \/ WorkerStep(w) \/ WipeListed(w)
    \/ PollBatchDone
    \/ ClearBatch
    \/ Close
    \/ Joined
    \/ Destroy
    \/ Kill
    \/ Restart

Spec == Init /\ [][Next]_vars

-----------------------------------------------------------------------------
(* Properties *)

\* An original that has been wiped is in a vault, whole, however the window is
\* closed or the process killed (cancel_check in encrypt_stream, the order of
\* _batch_encrypt_worker).  Only when an operation was started beside another
\* is it not so: the other's batch_done lowers the flag, and closing then wipes
\* the zip under a worker that has not been told.
NothingLost ==
    ~mixed => \A f \in (Files \cup Hidden) \ plain :
                 \E n \in DOMAIN vaults : f \in vaults[n].files

\* A vault being re-keyed is never replaced by a half-written one, although
\* all re-keys of it share the name of their temporary file, and the worker
\* removes that file after its last message (_rekey_worker).
VaultWhole == ~mixed => vault.now = "whole"

\* The flag is up only while someone is there to lower it: the dialog, a
\* worker, or a message in the queue; unless a message was lost.
FlagOwned ==
    (app = "open" /\ is_processing) =>
        lost \/ dialog # "closed" \/ Busy # {} \/ msg_queue # <<>>

\* No hidden vault has an empty hidden password, although the password is
\* checked before the dialog and read after it, and a timer may clear the form
\* in between (_process_batch, _clear_batch).
NoEmptyPassword == \A n \in DOMAIN vaults : vaults[n].pw = "set"

\* What the closing window has wiped holds no plaintext when the process ends,
\* although the worker may have gone on for a while (_on_close).
ExitClean ==
    (app = "closed" /\ ~mixed) => \A w \in cleared : temp[w].zip # "plain"

\* A worker leaves no plaintext behind, however its operation ended, and a
\* start removes what earlier processes left.  What stays is what could not be
\* removed, and the output folder a decryption was filling when the process
\* ended, which no start looks for (_cleanup_orphaned_temp_files).
TempsGone ==
    /\ app = "open" => \A w \in Workers : worker[w].pc = "none" => temp[w] = NoTemp
    /\ rests # {} => failed \/ (halfway /\ rests = {"output"})
=============================================================================
