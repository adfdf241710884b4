------------------------------- MODULE Session -------------------------------
(***************************************************************************)
(* The life of an operation between the screens, its worker thread and the *)
(* poll loop of the Flet shell.                                            *)
(*                                                                         *)
(* A screen checks services.is_processing, raises it, disables its button  *)
(* and starts a thread; the thread posts messages on a bounded queue; the  *)
(* poll loop takes them off one by one and gives them to the shell.  Who   *)
(* lowers the flag again depends on the operation: the shell on batch_done,*)
(* the screen on its result message, or the worker itself before it posts  *)
(* batch_done.  Button clicks, file pickers and the poll loop interleave   *)
(* on the UI side; worker threads run beside them.                         *)
(***************************************************************************)
EXTENDS Naturals, Sequences, FiniteSets

CONSTANTS
    Kinds,       \* the operations the user makes use of
    Vaults,      \* vault files, each with the password that opens it
    NoVault,
    Workers,     \* worker threads
    QueueSize,   \* MSG_QUEUE_SIZE
    MayRebuild,  \* the theme or the scale may be changed
    MayGoOn,     \* bound: operations begin after a hurried one too
    MayDrop      \* the poll loop may stall longer than a put waits

\* rekey stands for the version actions too, inspect for the integrity check
\* and the verification, extract for the vault diff.
AllKinds == {"encrypt", "decrypt", "inspect", "extract", "library", "rekey", "note"}

ASSUME SessionAssumption ==
    /\ Kinds \subseteq AllKinds
    /\ NoVault \notin Vaults
    /\ QueueSize \in Nat \ {0}
    /\ MayRebuild \in BOOLEAN
    /\ MayGoOn \in BOOLEAN
    /\ MayDrop \in BOOLEAN

VARIABLES
    is_processing,
    busy_control,  \* kind whose button the shell will enable again
    disabled,      \* kinds whose button is disabled
    prompt,        \* dialog or file picker of a kind
    worker,        \* what each thread does
    msg_queue,
    screens,       \* screens in the shell's cache
    pending_auth,  \* vault of the inspection whose password the screen keeps
    context,       \* the inspected vault, and whose password goes with it
    hurried,       \* history: an operation began before the last was over, for
                   \* the flag came down early or was not looked at
    lost           \* history: an outcome was dropped, or had no screen to go to

vars == <<is_processing, busy_control, disabled, prompt, worker, msg_queue,
          screens, pending_auth, context, hurried, lost>>

ui == <<prompt, screens, pending_auth, context, hurried>>

-----------------------------------------------------------------------------
\* The worker lowers the flag itself, then posts batch_done.
ClearsEarly == {"encrypt", "decrypt", "extract"}

\* The screen lowers the flag when the shell hands it the result.
ByResult == {"inspect", "library"}

\* The flag is looked at when the dialog or picker opens, not when it closes.
Prompted == {"extract", "note"}

\* Modal dialogs keep the user from the rest of the window; pickers do not.
ModalOpen == \E k \in {"encrypt", "extract"} : prompt[k] # "closed"

Mode(k) == IF k \in ByResult THEN "result" ELSE "batch_done"

Free(w) == worker[w].pc = "none"

Idle == [pc |-> "none", kind |-> "note", vault |-> NoVault]

Msg(t, k, v) == [type |-> t, kind |-> k, vault |-> v]

Messages == [type: {"progress", "error", "result", "batch_done"},
             kind: Kinds, vault: Vaults \cup {NoVault}]

StartWorker(w, k, v) ==
    /\ Free(w)
    /\ worker' = [worker EXCEPT ![w] = [pc |-> "work", kind |-> k, vault |-> v]]

\* An operation is on its way from its start until what it left in the queue
\* has been handled.
Underway ==
    \/ \E w \in Workers : ~Free(w)
    \/ \E i \in 1..Len(msg_queue) : msg_queue[i].type # "progress"
    \/ prompt["encrypt"] # "closed"

\* The worker has lowered the flag of an operation that is not over.
FlagIsEarly ==
    \/ \E w \in Workers : worker[w].pc = "post" /\ worker[w].kind \in ClearsEarly
    \/ \E i \in 1..Len(msg_queue) :
          msg_queue[i].type # "progress" /\ msg_queue[i].kind \in ClearsEarly

BeginOperation(hurry) ==
    /\ hurried => MayGoOn
    /\ hurried' = (hurried \/ hurry)
    /\ is_processing' = TRUE

SetBusy(k) ==
    /\ busy_control' = k
    /\ disabled' = disabled \cup {k}

\* busy_control may be a button of a screen that is no longer shown.
ReleaseBusy ==
    /\ busy_control' = "none"
    /\ disabled' = disabled \ {busy_control}

-----------------------------------------------------------------------------
Init ==
    /\ is_processing = FALSE
    /\ busy_control = "none"
    /\ disabled = {}
    /\ prompt = [k \in AllKinds |-> "closed"]
    /\ worker = [w \in Workers |-> Idle]
    /\ msg_queue = <<>>
    /\ screens = {}
    /\ pending_auth = NoVault
    /\ context = [vault |-> NoVault, auth |-> NoVault]
    /\ hurried = FALSE
    /\ lost = FALSE

\* Mutant: the guard is forgotten.
StartUnguarded(w, k, v) ==
    /\ k \in Kinds \cap {"decrypt", "inspect", "library", "rekey"}
    /\ k = "library" \/ (~ModalOpen /\ k \notin disabled)
    /\ BeginOperation(FlagIsEarly)
    /\ SetBusy(k)
    /\ screens' = screens \cup {k}
    /\ pending_auth' = IF k = "inspect" THEN v ELSE pending_auth
    /\ StartWorker(w, k, v)
    /\ UNCHANGED <<prompt, msg_queue, context, lost>>

\* Mutant: the button is disabled, busy_control is not set.
StartNoBusyControl(w, k, v) ==
    /\ k \in Kinds \cap {"decrypt", "inspect", "library", "rekey"}
    /\ k = "library" \/ (~ModalOpen /\ k \notin disabled)
    /\ ~is_processing
    /\ BeginOperation(FlagIsEarly)
    /\ disabled' = disabled \cup {k}
    /\ screens' = screens \cup {k}
    /\ pending_auth' = IF k = "inspect" THEN v ELSE pending_auth
    /\ StartWorker(w, k, v)
    /\ UNCHANGED <<busy_control, prompt, msg_queue, context, lost>>

\* A click that checks the flag and raises it in one handler.  The library
\* scan may also come from the end of its directory picker, which no dialog
\* and no disabled button holds up.
Start(w, k, v) ==
    /\ k \in Kinds \cap {"decrypt", "inspect", "library", "rekey"}
    /\ k = "library" \/ (~ModalOpen /\ k \notin disabled)
    /\ ~is_processing
    /\ BeginOperation(FlagIsEarly)
    /\ SetBusy(k)
    /\ screens' = screens \cup {k}
    /\ pending_auth' = IF k = "inspect" THEN v ELSE pending_auth
    /\ StartWorker(w, k, v)
    /\ UNCHANGED <<prompt, msg_queue, context, lost>>

\* The selective-extract dialog needs an inspected vault and its password.
OpenPrompt(k) ==
    /\ k \in Kinds \cap Prompted
    /\ ~ModalOpen /\ k \notin disabled
    /\ ~is_processing
    /\ prompt[k] = "closed"
    /\ k = "extract" => NoVault \notin {context.vault, context.auth}
    /\ prompt' = [prompt EXCEPT ![k] = "open"]
    /\ UNCHANGED <<is_processing, busy_control, disabled, worker, msg_queue,
                   screens, pending_auth, context, hurried, lost>>

\* _extract, _compare and what follows the await of a note picker: the flag is
\* not looked at again.  An orphan runs on a screen that has been replaced.
ConfirmPrompt(w, k) ==
    /\ prompt[k] # "closed" /\ k \in Prompted
    /\ prompt' = [prompt EXCEPT ![k] = "closed"]
    /\ BeginOperation(Underway)
    /\ IF prompt[k] = "open"
         THEN SetBusy(k)
         ELSE busy_control' = "stale" /\ UNCHANGED disabled
    /\ StartWorker(w, k, context.vault)
    /\ UNCHANGED <<msg_queue, screens, pending_auth, context, lost>>

CancelPrompt(k) ==
    /\ prompt[k] # "closed" /\ k \in Prompted
    /\ prompt' = [prompt EXCEPT ![k] = "closed"]
    /\ UNCHANGED <<is_processing, busy_control, disabled, worker, msg_queue,
                   screens, pending_auth, context, hurried, lost>>

\* _start_encrypt raises the flag and shows the recovery phrase.
OpenRecovery ==
    /\ "encrypt" \in Kinds
    /\ ~ModalOpen /\ "encrypt" \notin disabled
    /\ ~is_processing
    /\ BeginOperation(FlagIsEarly)
    /\ prompt' = [prompt EXCEPT !["encrypt"] = "open"]
    /\ UNCHANGED <<busy_control, disabled, worker, msg_queue, screens,
                   pending_auth, context, lost>>

ContinueRecovery(w) ==
    /\ prompt["encrypt"] # "closed"
    /\ prompt' = [prompt EXCEPT !["encrypt"] = "closed"]
    /\ SetBusy("encrypt")
    /\ StartWorker(w, "encrypt", NoVault)
    /\ UNCHANGED <<is_processing, msg_queue, screens, pending_auth, context, hurried, lost>>

\* The dialog is cancelled, or what was typed behind it turns out not to do.
CancelRecovery ==
    /\ prompt["encrypt"] # "closed"
    /\ prompt' = [prompt EXCEPT !["encrypt"] = "closed"]
    /\ is_processing' = FALSE
    /\ UNCHANGED <<busy_control, disabled, worker, msg_queue, screens,
                   pending_auth, context, hurried, lost>>

-----------------------------------------------------------------------------
(* Worker threads *)

\* queue.Queue(maxsize=MSG_QUEUE_SIZE): a put waits for room.
HasRoom == Len(msg_queue) < QueueSize

\* Log lines and progress; a put that finds no room in time gives up, which
\* leaves nothing behind.
PostProgress(w) ==
    /\ worker[w].pc = "work" /\ HasRoom
    /\ msg_queue' = Append(msg_queue, Msg("progress", worker[w].kind, NoVault))
    /\ UNCHANGED <<is_processing, busy_control, disabled, worker, ui, lost>>

\* One source of an encryption batch failed; the batch goes on.
PostError(w) ==
    /\ worker[w].pc = "work" /\ worker[w].kind = "encrypt" /\ HasRoom
    /\ msg_queue' = Append(msg_queue, Msg("error", "encrypt", NoVault))
    /\ UNCHANGED <<is_processing, busy_control, disabled, worker, ui, lost>>

\* The work ends: well, in error or cancelled.
EndWork(w) ==
    /\ worker[w].pc = "work"
    /\ worker' = [worker EXCEPT ![w].pc = "post"]
    /\ is_processing' = IF worker[w].kind \in ClearsEarly THEN FALSE ELSE is_processing
    /\ UNCHANGED <<busy_control, disabled, msg_queue, ui, lost>>

\* The last message of the operation, after which the thread returns.
PostOutcome(w) ==
    /\ worker[w].pc = "post"
    /\ \/ /\ HasRoom
          /\ msg_queue' = Append(msg_queue,
                 Msg(Mode(worker[w].kind), worker[w].kind, worker[w].vault))
          /\ UNCHANGED lost
       \/ ~HasRoom /\ MayDrop /\ lost' = TRUE /\ UNCHANGED msg_queue
    /\ worker' = [worker EXCEPT ![w] = Idle]
    /\ UNCHANGED <<is_processing, busy_control, disabled, ui>>

-----------------------------------------------------------------------------
(* The poll loop: the message at the head of the queue goes to its handler *)

\* AppShell.on_batch_done
OnBatchDone(m) ==
    /\ is_processing' = FALSE
    /\ ReleaseBusy
    /\ UNCHANGED <<pending_auth, context, lost>>

\* AppShell.on_error
OnError(m) ==
    /\ ReleaseBusy
    /\ UNCHANGED <<is_processing, pending_auth, context, lost>>

\* The result is for a screen that has been thrown away.
NoScreen ==
    /\ lost' = TRUE
    /\ UNCHANGED <<is_processing, busy_control, disabled, pending_auth, context>>

\* Mutant: a result message ends the operation only on success.
OnResultSuccessOnly(m) ==
    IF m.kind \notin screens
      THEN NoScreen
      ELSE \/ /\ is_processing' = FALSE
              /\ ReleaseBusy
              /\ UNCHANGED <<pending_auth, context, lost>>
           \/ UNCHANGED <<is_processing, busy_control, disabled, pending_auth, context, lost>>

\* A result goes to the screen in the cache, if there is one.  An inspection
\* that failed clears the context; one that succeeded pairs the vault of the
\* message with the password of the screen.
OnResult(m) ==
    IF m.kind \notin screens
      THEN NoScreen
      ELSE /\ is_processing' = FALSE
           /\ ReleaseBusy
           /\ UNCHANGED lost
           /\ \/ /\ m.kind = "inspect"
                 /\ context' = [vault |-> m.vault, auth |-> pending_auth]
                 /\ pending_auth' = NoVault
              \/ /\ m.kind = "inspect"
                 /\ context' = [vault |-> NoVault, auth |-> NoVault]
                 /\ UNCHANGED pending_auth
              \/ m.kind # "inspect" /\ UNCHANGED <<pending_auth, context>>

Poll ==
    /\ msg_queue # <<>>
    /\ msg_queue' = Tail(msg_queue)
    /\ LET m == Head(msg_queue) IN
         \/ m.type = "batch_done" /\ OnBatchDone(m)
         \/ m.type = "error" /\ OnError(m)
         \/ m.type = "result" /\ OnResult(m)
         \/ /\ m.type = "progress"
            /\ UNCHANGED <<is_processing, busy_control, disabled, pending_auth, context, lost>>
    /\ UNCHANGED <<prompt, worker, screens, hurried>>

-----------------------------------------------------------------------------
(* The rest of the window *)

\* apply_theme, apply_ui_scale: all screens are thrown away and built anew when
\* next shown.  An open picker belongs to a screen that is gone.
Rebuild ==
    /\ MayRebuild /\ ~ModalOpen
    /\ screens' = {}
    /\ disabled' = {}
    /\ busy_control' = IF busy_control = "none" THEN "none" ELSE "stale"
    /\ prompt' = [k \in AllKinds |-> IF prompt[k] = "open" THEN "orphan" ELSE prompt[k]]
    /\ pending_auth' = NoVault
    /\ context' = [vault |-> NoVault, auth |-> NoVault]
    /\ UNCHANGED <<is_processing, worker, msg_queue, hurried, lost>>

\* A screen is made when it is first shown.
Navigate(k) ==
    /\ k \in Kinds \cap ByResult /\ ~ModalOpen
    /\ screens' = screens \cup {k}
    /\ UNCHANGED <<is_processing, busy_control, disabled, prompt, worker, msg_queue,
                   pending_auth, context, hurried, lost>>

\* The path field is edited: the inspected context is forgotten.
ChangePath ==
    /\ ~ModalOpen
    /\ context.vault # NoVault
    /\ context' = [vault |-> NoVault, auth |-> NoVault]
    /\ UNCHANGED <<is_processing, busy_control, disabled, prompt, worker, msg_queue,
                   screens, pending_auth, hurried, lost>>

WorkerStep(w) == PostProgress(w) \/ PostError(w) \/ EndWork(w) \/ PostOutcome(w)

Next ==
    \/ \E w \in Workers, k \in Kinds, v \in Vaults : Start(w, k, v)
    \/ \E k \in Kinds : OpenPrompt(k) \/ CancelPrompt(k) \/ Navigate(k)
    \/ \E w \in Workers, k \in Kinds : ConfirmPrompt(w, k)
    \/ OpenRecovery
    \/ \E w \in Workers : ContinueRecovery(w) \/ WorkerStep(w)
    \/ CancelRecovery
    \/ Poll
    \/ Rebuild
    \/ ChangePath

Spec == Init /\ [][Next]_vars

\* Threads run and end their work; the poll loop wakes every 0.1 s.
FairSpec ==
    /\ Spec
    /\ WF_vars(Poll)
    /\ \A w \in Workers : WF_vars(EndWork(w)) /\ WF_vars(PostOutcome(w))

-----------------------------------------------------------------------------
(* Properties *)

Working == {w \in Workers : worker[w].pc = "work"}

\* Types of the variables.
TypeOK ==
    /\ is_processing \in BOOLEAN
    /\ busy_control \in Kinds \cup {"none", "stale"}
    /\ disabled \subseteq Kinds
    /\ prompt \in [AllKinds -> {"closed", "open", "orphan"}]
    /\ worker \in [Workers -> [pc: {"none", "work", "post"}, kind: AllKinds,
                               vault: Vaults \cup {NoVault}]]
    /\ msg_queue \in Seq(Messages) /\ Len(msg_queue) <= QueueSize
    /\ screens \subseteq AllKinds
    /\ pending_auth \in Vaults \cup {NoVault}
    /\ context \in [vault: Vaults \cup {NoVault}, auth: Vaults \cup {NoVault}]
    /\ hurried \in BOOLEAN /\ lost \in BOOLEAN

\* No two operations work at the same time, and the flag is up as long as one
\* does (is_processing in every screen): as long as nobody begins an operation
\* between the worker lowering the flag and its batch_done being handled, or
\* answers a dialog that was open before the last operation began.
OneOperation == ~hurried => Cardinality(Working) <= 1 /\ (Working # {} => is_processing)

\* The inspected vault and the password the screen keeps for it belong
\* together: what a later extraction will use (on_inspect_result).
ContextMatches == ~hurried /\ context.auth # NoVault => context.auth = context.vault

\* Once all is quiet, every button can be pressed again (set_busy,
\* on_batch_done, _finish_operation), unless an outcome was lost.
ButtonsComeBack ==
    (~hurried /\ ~lost /\ ~is_processing /\ ~Underway) => disabled = {}

\* An operation that has started ends, and the application can be used again,
\* unless its outcome was lost.
FlagComesDown ==
    (is_processing /\ prompt["encrypt"] = "closed")
        ~> (~is_processing \/ prompt["encrypt"] # "closed" \/ lost)
=============================================================================
