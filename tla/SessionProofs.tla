---------------------------- MODULE SessionProofs ----------------------------
(***************************************************************************)
(* Proofs about Session and, at the end, about AttemptLimiter, which       *)
(* guards two of its operations.                                           *)
(*                                                                         *)
(* The session: for all operations, every number of worker threads and     *)
(* vaults and every size of the queue, with themes changed at any time and *)
(* outcome messages lost.  The safety properties hold until an operation   *)
(* begins in one of the gaps the flag leaves (hurried); for operations     *)
(* that look at the flag in the handler that raises it, and lower it no    *)
(* earlier than their outcome is handled, there is no such gap (Guarded).  *)
(***************************************************************************)
EXTENDS Session, AttemptLimiter, TLAPS, FiniteSetTheorems, SequenceTheorems

AtWork(w) == ~Free(w)

\* Threads and prompts belong to operations the user makes use of.
KindsUsed ==
    /\ \A w \in Workers : AtWork(w) => worker[w].kind \in Kinds
    /\ prompt["encrypt"] # "closed" => "encrypt" \in Kinds

TypeInv == TypeOK /\ KindsUsed

Guarded == Kinds \subseteq {"rekey", "inspect", "library"}

\* The i-th message in the queue is what ends an operation.
Outcome(i) == msg_queue[i].type \in {"result", "batch_done"}

Queued == 1..Len(msg_queue)

Asking == prompt["encrypt"] # "closed"

\* The operation is at one place: in the recovery dialog, in a thread, or as
\* its outcome in the queue.
OnePlace ==
    /\ \A w, x \in Workers : AtWork(w) /\ AtWork(x) => w = x
    /\ \A i, j \in Queued : Outcome(i) /\ Outcome(j) => i = j
    /\ \A w \in Workers, i \in Queued : ~(AtWork(w) /\ Outcome(i))
    /\ \A w \in Workers : ~(AtWork(w) /\ Asking)
    /\ \A i \in Queued : ~(Outcome(i) /\ Asking)

\* The flag is up until the outcome has been handled, or the worker has
\* lowered it.
FlagUp ==
    /\ \A w \in Workers :
          AtWork(w) => is_processing \/ (worker[w].pc = "post" /\ worker[w].kind \in ClearsEarly)
    /\ \A i \in Queued : Outcome(i) => is_processing \/ msg_queue[i].kind \in ClearsEarly
    /\ Asking => is_processing

Somewhere ==
    \/ \E w \in Workers : AtWork(w)
    \/ \E i \in Queued : Outcome(i)

\* While no outcome was lost, the flag is up for an operation that is
\* somewhere, and the button that is disabled is its own.
NothingStuck ==
    ~lost => /\ is_processing => Asking \/ Somewhere
             /\ disabled # {} => Somewhere
             /\ disabled \subseteq {busy_control}

\* The password the screen keeps belongs to the inspection under way.
AuthMatches ==
    /\ \A w \in Workers :
          AtWork(w) /\ worker[w].kind = "inspect" => pending_auth \in {worker[w].vault, NoVault}
    /\ \A i \in Queued :
          Outcome(i) /\ msg_queue[i].kind = "inspect"
              => pending_auth \in {msg_queue[i].vault, NoVault}

ContextPaired == context.auth # NoVault => context.auth = context.vault

Orderly == OnePlace /\ FlagUp /\ NothingStuck /\ AuthMatches /\ ContextPaired

Inv == TypeInv /\ (~hurried => Orderly)

-----------------------------------------------------------------------------
(* The queue *)

LEMMA PostFacts ==
    ASSUME TypeOK, HasRoom, NEW m \in Messages, msg_queue' = Append(msg_queue, m)
    PROVE  /\ msg_queue' \in Seq(Messages) /\ Len(msg_queue') <= QueueSize
           /\ Len(msg_queue) \in Nat /\ Len(msg_queue') = Len(msg_queue) + 1
           /\ msg_queue'[Len(msg_queue) + 1] = m
           /\ \A i \in Queued : msg_queue'[i] = msg_queue[i]
BY SessionAssumption DEF TypeOK, HasRoom, Queued

LEMMA PollFacts ==
    ASSUME TypeOK, msg_queue # <<>>, msg_queue' = Tail(msg_queue)
    PROVE  /\ msg_queue' \in Seq(Messages) /\ Len(msg_queue') <= QueueSize
           /\ Len(msg_queue) \in Nat \ {0} /\ Len(msg_queue') = Len(msg_queue) - 1
           /\ Head(msg_queue) = msg_queue[1] /\ msg_queue[1] \in Messages
           /\ 1 \in Queued
           /\ \A i \in Queued' : i + 1 \in Queued /\ msg_queue'[i] = msg_queue[i + 1]
BY SessionAssumption DEF TypeOK, Queued

LEMMA MsgType ==
    ASSUME NEW t \in {"progress", "error", "result", "batch_done"}, NEW k \in Kinds,
           NEW v \in Vaults \cup {NoVault}
    PROVE  Msg(t, k, v) \in Messages /\ Msg(t, k, v).type = t
           /\ Msg(t, k, v).kind = k /\ Msg(t, k, v).vault = v
BY DEF Msg, Messages

-----------------------------------------------------------------------------
(* Types *)

Thread == [pc: {"none", "work", "post"}, kind: AllKinds, vault: Vaults \cup {NoVault}]

\* A thread that starts an operation the user makes use of.
LEMMA StartType ==
    ASSUME TypeInv, NEW w \in Workers, NEW k \in Kinds, NEW v \in Vaults \cup {NoVault},
           StartWorker(w, k, v)
    PROVE  /\ worker' \in [Workers -> Thread]
           /\ \A x \in Workers : ~Free(x)' => worker'[x].kind \in Kinds
<1>1. [pc |-> "work", kind |-> k, vault |-> v] \in Thread
  BY SessionAssumption DEF Thread
<1> QED
  BY <1>1 DEF TypeInv, TypeOK, KindsUsed, AtWork, Free, StartWorker, Thread

LEMMA TypeInitially == Init => TypeInv
<1> SUFFICES ASSUME Init PROVE TypeInv
  OBVIOUS
<1>1. Idle \in Thread
  BY DEF Idle, Thread, AllKinds
<1>2. KindsUsed
  BY DEF Init, AllKinds, KindsUsed, AtWork, Free, Idle
<1>3. msg_queue \in Seq(Messages) /\ Len(msg_queue) <= QueueSize
  BY SessionAssumption DEF Init
<1>4. worker \in [Workers -> Thread]
  BY <1>1 DEF Init
<1> QED
  BY <1>2, <1>3, <1>4, SessionAssumption DEF Init, TypeInv, TypeOK, Thread

LEMMA TypeStep == TypeInv /\ [Next]_vars => TypeInv'
<1> SUFFICES ASSUME TypeInv, [Next]_vars PROVE TypeInv'
  OBVIOUS
<1> USE SessionAssumption DEF TypeInv
<1>e. "encrypt" \in AllKinds
  BY DEF AllKinds
<1>b. \A h \in BOOLEAN : BeginOperation(h) => is_processing' = TRUE /\ hurried' \in BOOLEAN
  BY DEF BeginOperation
<1>h. FlagIsEarly \in BOOLEAN /\ Underway \in BOOLEAN
  BY DEF FlagIsEarly, Underway
<1> HIDE DEF FlagIsEarly, Underway
<1>1. ASSUME NEW w \in Workers, NEW k \in Kinds, NEW v \in Vaults, Start(w, k, v)
      PROVE  TypeInv'
  BY <1>1, StartType, <1>b, <1>h DEF Start, SetBusy, TypeOK, KindsUsed, AtWork, Thread
<1>2. ASSUME NEW k \in Kinds, OpenPrompt(k) PROVE TypeInv'
  BY <1>2, <1>e DEF OpenPrompt, TypeOK, KindsUsed, AtWork, Free, Prompted
<1>3. ASSUME NEW k \in Kinds, CancelPrompt(k) PROVE TypeInv'
  BY <1>3, <1>e DEF CancelPrompt, TypeOK, KindsUsed, AtWork, Free, Prompted
<1>4. ASSUME NEW k \in Kinds, Navigate(k) PROVE TypeInv'
  BY <1>4 DEF Navigate, TypeOK, KindsUsed, AtWork, Free
<1>5. ASSUME NEW w \in Workers, NEW k \in Kinds, ConfirmPrompt(w, k) PROVE TypeInv'
  <2>1. StartWorker(w, k, context.vault) /\ context.vault \in Vaults \cup {NoVault}
    BY <1>5 DEF ConfirmPrompt, TypeOK
  <2> QED
    BY <1>5, <1>e, <1>b, <1>h, <2>1, StartType
    DEF ConfirmPrompt, SetBusy, TypeOK, KindsUsed, AtWork, Thread, Prompted
<1>6. ASSUME OpenRecovery PROVE TypeInv'
  BY <1>6, <1>e, <1>b, <1>h DEF OpenRecovery, TypeOK, KindsUsed, AtWork, Free
<1>7. ASSUME NEW w \in Workers, ContinueRecovery(w) PROVE TypeInv'
  <2>1. "encrypt" \in Kinds /\ StartWorker(w, "encrypt", NoVault)
    BY <1>7 DEF ContinueRecovery, KindsUsed
  <2> QED
    BY <1>7, <1>e, <2>1, StartType
    DEF ContinueRecovery, SetBusy, TypeOK, KindsUsed, AtWork, Thread
<1>8. ASSUME NEW w \in Workers, PostProgress(w) PROVE TypeInv'
  <2>1. Msg("progress", worker[w].kind, NoVault) \in Messages
    BY <1>8, MsgType DEF PostProgress, KindsUsed, AtWork, Free
  <2> QED
    BY <1>8, <2>1, PostFacts DEF PostProgress, ui, TypeOK, KindsUsed, AtWork, Free
<1>9. ASSUME NEW w \in Workers, PostError(w) PROVE TypeInv'
  <2>1. Msg("error", "encrypt", NoVault) \in Messages
    BY <1>9, MsgType DEF PostError, KindsUsed, AtWork, Free
  <2> QED
    BY <1>9, <2>1, PostFacts DEF PostError, ui, TypeOK, KindsUsed, AtWork, Free
<1>10. ASSUME NEW w \in Workers, EndWork(w) PROVE TypeInv'
  BY <1>10 DEF EndWork, ui, TypeOK, KindsUsed, AtWork, Free
<1>11. ASSUME NEW w \in Workers, PostOutcome(w) PROVE TypeInv'
  <2>1. Idle \in Thread
    BY DEF Idle, Thread, AllKinds
  <2>2. msg_queue' \in Seq(Messages) /\ Len(msg_queue') <= QueueSize
    <3> DEFINE m == Msg(Mode(worker[w].kind), worker[w].kind, worker[w].vault)
    <3>1. m \in Messages
      <4>1. worker[w].kind \in Kinds /\ worker[w].vault \in Vaults \cup {NoVault}
        BY <1>11 DEF PostOutcome, KindsUsed, AtWork, Free, TypeOK
      <4>2. Mode(worker[w].kind) \in {"progress", "error", "result", "batch_done"}
        BY DEF Mode
      <4> QED
        BY <4>1, <4>2, MsgType
    <3>2. CASE HasRoom /\ msg_queue' = Append(msg_queue, m)
      BY <3>1, <3>2, PostFacts
    <3>3. CASE UNCHANGED msg_queue
      BY <3>3 DEF TypeOK
    <3> QED
      BY <1>11, <3>2, <3>3 DEF PostOutcome
  <2>3. worker' \in [Workers -> Thread] /\ \A x \in Workers : AtWork(x)' => worker'[x] = worker[x]
    BY <1>11, <2>1 DEF PostOutcome, TypeOK, Thread, AtWork, Free, Idle
  <2> QED
    BY <1>11, <2>2, <2>3 DEF PostOutcome, ui, TypeOK, KindsUsed, AtWork, Free, Thread
<1>12. ASSUME CancelRecovery PROVE TypeInv'
  BY <1>12 DEF CancelRecovery, TypeOK, KindsUsed, AtWork, Free
<1>13. ASSUME Poll PROVE TypeInv'
  <2>1. Head(msg_queue) \in Messages /\ msg_queue' \in Seq(Messages) /\ Len(msg_queue') <= QueueSize
    BY <1>13, PollFacts DEF Poll
  <2>2. /\ is_processing' \in BOOLEAN
        /\ busy_control' \in Kinds \cup {"none", "stale"}
        /\ disabled' \subseteq Kinds
    BY <1>13 DEF Poll, OnBatchDone, OnError, OnResult, NoScreen, ReleaseBusy, TypeOK
  <2>3. /\ pending_auth' \in Vaults \cup {NoVault}
        /\ context' \in [vault: Vaults \cup {NoVault}, auth: Vaults \cup {NoVault}]
    BY <1>13, <2>1 DEF Poll, OnBatchDone, OnError, OnResult, NoScreen, TypeOK, Messages
  <2>4. hurried' = hurried /\ (lost' = lost \/ lost' = TRUE)
    BY <1>13 DEF Poll, OnBatchDone, OnError, OnResult, NoScreen
  <2> QED
    BY <1>13, <2>1, <2>2, <2>3, <2>4 DEF Poll, TypeOK, KindsUsed, AtWork, Free
<1>14. ASSUME Rebuild PROVE TypeInv'
  BY <1>14, <1>e DEF Rebuild, TypeOK, KindsUsed, AtWork, Free
<1>15. ASSUME ChangePath PROVE TypeInv'
  BY <1>15 DEF ChangePath, TypeOK, KindsUsed, AtWork, Free
<1>16. CASE UNCHANGED vars
  BY <1>16 DEF vars, TypeOK, KindsUsed, AtWork, Free
<1> QED
  BY <1>1, <1>2, <1>3, <1>4, <1>5, <1>6, <1>7, <1>8, <1>9, <1>10, <1>11, <1>12,
     <1>13, <1>14, <1>15, <1>16 DEF Next, WorkerStep

\* The variables keep their types, for every choice of operations, and the
\* queue its bound.
THEOREM TypeCorrect == Spec => []TypeOK
<1>1. TypeInv => TypeOK
  BY DEF TypeInv
<1> QED
  BY TypeInitially, TypeStep, <1>1, PTL DEF Spec

-----------------------------------------------------------------------------
(* Safety of all operations, until one is hurried *)

\* A flag that is down, and not early, means that nothing is under way.
LEMMA FlagDown ==
    ASSUME TypeInv, Orderly, ~is_processing, ~FlagIsEarly
    PROVE  /\ \A w \in Workers : Free(w)
           /\ \A i \in Queued : ~Outcome(i)
           /\ ~Asking
           /\ ~lost => disabled = {}
<1>1. \A w \in Workers : Free(w)
  BY DEF Orderly, FlagUp, AtWork, FlagIsEarly
<1>2. \A i \in Queued : ~Outcome(i)
  BY DEF Orderly, FlagUp, Queued, Outcome, FlagIsEarly
<1> QED
  BY <1>1, <1>2 DEF Orderly, FlagUp, NothingStuck, Somewhere, AtWork

LEMMA NothingUnderway ==
    ASSUME TypeInv, Orderly, ~Underway
    PROVE  /\ \A w \in Workers : Free(w)
           /\ \A i \in Queued : ~Outcome(i)
           /\ ~Asking
           /\ ~lost => disabled = {}
<1>1. /\ \A w \in Workers : Free(w)
      /\ ~Asking
      /\ \A i \in Queued : ~Outcome(i)
  BY DEF Underway, Asking, Queued, Outcome
<1> QED
  BY <1>1 DEF Orderly, NothingStuck, Somewhere, AtWork

\* Where an operation is does not change, nor what it left on the screen.
LEMMA SameOperation ==
    ASSUME Orderly, UNCHANGED <<is_processing, busy_control, disabled, worker, msg_queue,
                                pending_auth, context, lost>>,
           Asking' <=> Asking
    PROVE  Orderly'
BY DEF Orderly, OnePlace, FlagUp, NothingStuck, Somewhere, AuthMatches, ContextPaired,
       Queued, Outcome, AtWork, Free

\* What begins an operation finds none under way.
LEMMA Begin ==
    ASSUME TypeInv, Orderly, TypeInv',
           NEW w \in Workers, NEW k \in Kinds, NEW v \in Vaults \cup {NoVault},
           \A x \in Workers : Free(x),
           \A i \in Queued : ~Outcome(i),
           ~Asking',
           ~lost => disabled = {},
           is_processing' = TRUE,
           StartWorker(w, k, v),
           disabled' \subseteq disabled \cup {k},
           ~lost => disabled' \subseteq {busy_control'},
           k = "inspect" => pending_auth' = v,
           UNCHANGED <<msg_queue, context, lost>>
    PROVE  Orderly'
<1> USE DEF Queued, Outcome, AtWork, Free
<1>1. /\ \A x \in Workers : AtWork(x)' => x = w
      /\ AtWork(w)' /\ worker'[w].kind = k /\ worker'[w].vault = v
  BY DEF StartWorker, TypeInv, TypeOK
<1>2. OnePlace' /\ FlagUp' /\ ContextPaired'
  BY <1>1 DEF OnePlace, FlagUp, ContextPaired, Orderly
<1>3. NothingStuck'
  BY <1>1 DEF NothingStuck, Somewhere
<1>4. AuthMatches'
  BY <1>1 DEF AuthMatches
<1> QED
  BY <1>2, <1>3, <1>4 DEF Orderly

LEMMA StartStep ==
    ASSUME Inv, TypeInv', ~hurried', ~hurried,
           NEW w \in Workers, NEW k \in Kinds, NEW v \in Vaults, Start(w, k, v)
    PROVE  Orderly'
<1>1. ~FlagIsEarly /\ ~is_processing /\ is_processing' = TRUE
  BY DEF Start, BeginOperation
<1>2. /\ \A x \in Workers : Free(x)
      /\ \A i \in Queued : ~Outcome(i)
      /\ ~Asking /\ (~lost => disabled = {})
  BY <1>1, FlagDown DEF Inv
<1>3. /\ ~Asking'
      /\ StartWorker(w, k, v)
      /\ disabled' \subseteq disabled \cup {k} /\ (~lost => disabled' \subseteq {busy_control'})
      /\ k = "inspect" => pending_auth' = v
      /\ UNCHANGED <<msg_queue, context, lost>>
  BY <1>2 DEF Start, SetBusy, Asking
<1> QED
  BY <1>1, <1>2, <1>3, Begin DEF Inv

LEMMA ConfirmStep ==
    ASSUME Inv, TypeInv', ~hurried', ~hurried,
           NEW w \in Workers, NEW k \in Kinds, ConfirmPrompt(w, k)
    PROVE  Orderly'
<1>1. ~Underway /\ is_processing' = TRUE
  BY DEF ConfirmPrompt, BeginOperation
<1>2. /\ \A x \in Workers : Free(x)
      /\ \A i \in Queued : ~Outcome(i)
      /\ ~Asking /\ (~lost => disabled = {})
  BY <1>1, NothingUnderway DEF Inv
<1>3. /\ k # "encrypt" /\ k # "inspect" /\ "encrypt" \in AllKinds
      /\ context.vault \in Vaults \cup {NoVault}
  BY DEF ConfirmPrompt, Prompted, Inv, TypeInv, TypeOK, AllKinds
<1>4. /\ ~Asking'
      /\ StartWorker(w, k, context.vault)
      /\ disabled' \subseteq disabled \cup {k} /\ (~lost => disabled' \subseteq {busy_control'})
      /\ UNCHANGED <<msg_queue, context, lost>>
  BY <1>2, <1>3 DEF ConfirmPrompt, SetBusy, Asking, Inv, TypeInv, TypeOK
<1> QED
  BY <1>1, <1>2, <1>3, <1>4, Begin DEF Inv

LEMMA OpenRecoveryStep ==
    ASSUME Inv, TypeInv', ~hurried', ~hurried, OpenRecovery
    PROVE  Orderly'
<1> USE DEF Queued, Outcome, AtWork, Free
<1>1. ~FlagIsEarly /\ ~is_processing /\ is_processing' = TRUE
  BY DEF OpenRecovery, BeginOperation
<1>2. /\ \A x \in Workers : Free(x)
      /\ \A i \in Queued : ~Outcome(i)
      /\ (~lost => disabled = {})
  BY <1>1, FlagDown DEF Inv
<1>3. UNCHANGED <<busy_control, disabled, worker, msg_queue, pending_auth, context, lost>>
  BY DEF OpenRecovery
<1>4. Asking'
  BY DEF OpenRecovery, Asking, Inv, TypeInv, TypeOK, AllKinds
<1>5. OnePlace' /\ FlagUp' /\ ContextPaired' /\ AuthMatches'
  BY <1>1, <1>2, <1>3 DEF OnePlace, FlagUp, ContextPaired, AuthMatches, Orderly, Inv
<1>6. NothingStuck'
  BY <1>2, <1>3, <1>4 DEF NothingStuck
<1> QED
  BY <1>5, <1>6 DEF Orderly

LEMMA ContinueRecoveryStep ==
    ASSUME Inv, TypeInv', ~hurried', ~hurried, NEW w \in Workers, ContinueRecovery(w)
    PROVE  Orderly'
<1>1. Asking /\ "encrypt" \in Kinds /\ is_processing = TRUE /\ is_processing' = is_processing
  BY DEF ContinueRecovery, Asking, Inv, TypeInv, TypeOK, KindsUsed, Orderly, FlagUp
<1>2. /\ \A x \in Workers : Free(x)
      /\ \A i \in Queued : ~Outcome(i)
      /\ ~lost => disabled = {}
  BY <1>1 DEF Inv, Orderly, OnePlace, NothingStuck, Somewhere, AtWork
<1>3. /\ ~Asking'
      /\ StartWorker(w, "encrypt", NoVault)
      /\ disabled' \subseteq disabled \cup {"encrypt"}
      /\ ~lost => disabled' \subseteq {busy_control'}
      /\ UNCHANGED <<msg_queue, context, lost>>
  BY <1>2 DEF ContinueRecovery, SetBusy, Asking, Inv, TypeInv, TypeOK, AllKinds
<1> QED
  BY <1>1, <1>2, <1>3, Begin DEF Inv

LEMMA CancelRecoveryStep ==
    ASSUME Inv, TypeInv', ~hurried, CancelRecovery
    PROVE  Orderly'
<1> USE DEF Queued, Outcome, AtWork, Free
<1>1. Asking
  BY DEF CancelRecovery, Asking
<1>2. /\ \A x \in Workers : Free(x)
      /\ \A i \in Queued : ~Outcome(i)
      /\ ~lost => disabled = {}
  BY <1>1 DEF Inv, Orderly, OnePlace, NothingStuck, Somewhere
<1>3. UNCHANGED <<busy_control, disabled, worker, msg_queue, pending_auth, context, lost>>
  BY DEF CancelRecovery
<1>4. ~Asking' /\ ~is_processing'
  BY DEF CancelRecovery, Asking, Inv, TypeInv, TypeOK, AllKinds
<1>5. OnePlace' /\ FlagUp' /\ ContextPaired' /\ AuthMatches'
  BY <1>2, <1>3, <1>4 DEF OnePlace, FlagUp, ContextPaired, AuthMatches, Orderly, Inv
<1>6. NothingStuck'
  BY <1>2, <1>3, <1>4 DEF NothingStuck
<1> QED
  BY <1>5, <1>6 DEF Orderly

\* A message that is not an outcome joins the queue.
LEMMA PostStep ==
    ASSUME Inv, TypeInv', ~hurried, HasRoom,
           NEW m \in Messages, m.type \notin {"result", "batch_done"},
           msg_queue' = Append(msg_queue, m),
           UNCHANGED <<is_processing, busy_control, disabled, worker, prompt, pending_auth,
                       context, lost>>
    PROVE  Orderly'
<1> USE DEF Queued, Outcome, AtWork, Free
<1>1. /\ Len(msg_queue) \in Nat /\ Len(msg_queue') = Len(msg_queue) + 1
      /\ msg_queue'[Len(msg_queue) + 1] = m
      /\ \A i \in Queued : msg_queue'[i] = msg_queue[i]
  BY PostFacts DEF Inv, TypeInv
<1>2. \A i \in Queued' : i \in Queued \/ i = Len(msg_queue) + 1
  BY <1>1
<1>3. /\ \A i \in Queued' : Outcome(i)' => i \in Queued /\ Outcome(i)
      /\ \A i \in Queued : Outcome(i) => i \in Queued' /\ Outcome(i)'
  BY <1>1, <1>2
<1>4. OnePlace' /\ FlagUp' /\ AuthMatches' /\ ContextPaired'
  BY <1>1, <1>3 DEF OnePlace, FlagUp, AuthMatches, ContextPaired, Asking, Inv, Orderly
<1>5. NothingStuck'
  BY <1>3 DEF NothingStuck, Somewhere, Asking, Inv, Orderly
<1> QED
  BY <1>4, <1>5 DEF Orderly

LEMMA EndWorkStep ==
    ASSUME Inv, TypeInv', ~hurried, NEW w \in Workers, EndWork(w)
    PROVE  Orderly'
<1> USE DEF Queued, Outcome, AtWork, Free
<1>1. UNCHANGED <<busy_control, disabled, msg_queue, prompt, pending_auth, context, lost>>
  BY DEF EndWork, ui
<1>2. /\ AtWork(w) /\ AtWork(w)' /\ worker'[w].pc = "post"
      /\ \A x \in Workers : /\ worker'[x].kind = worker[x].kind
                            /\ worker'[x].vault = worker[x].vault
                            /\ AtWork(x)' <=> AtWork(x)
  BY DEF EndWork, Inv, TypeInv, TypeOK
<1>3. /\ is_processing' => is_processing
      /\ worker[w].kind \notin ClearsEarly => is_processing' = is_processing
  BY DEF EndWork, Inv, TypeInv, TypeOK
<1>4. /\ \A x \in Workers : AtWork(x) => x = w
      /\ \A i \in Queued : ~Outcome(i)
      /\ ~Asking
  BY <1>2 DEF Inv, Orderly, OnePlace
<1>5. worker[w].kind \notin ClearsEarly => is_processing
  BY <1>2 DEF Inv, Orderly, FlagUp, EndWork
<1>6. OnePlace' /\ AuthMatches' /\ ContextPaired'
  BY <1>1, <1>2 DEF OnePlace, AuthMatches, ContextPaired, Asking, Inv, Orderly
<1>7. FlagUp'
  BY <1>1, <1>2, <1>3, <1>4, <1>5 DEF FlagUp, Asking
<1>8. NothingStuck'
  BY <1>1, <1>2, <1>3 DEF NothingStuck, Somewhere, Asking, Inv, Orderly
<1> QED
  BY <1>6, <1>7, <1>8 DEF Orderly

LEMMA PostOutcomeStep ==
    ASSUME Inv, TypeInv', ~hurried, NEW w \in Workers, PostOutcome(w)
    PROVE  Orderly'
<1> USE DEF Queued, Outcome, AtWork, Free
<1> DEFINE m == Msg(Mode(worker[w].kind), worker[w].kind, worker[w].vault)
<1>1. /\ AtWork(w) /\ worker[w].pc = "post"
      /\ \A x \in Workers : AtWork(x)' => x # w /\ AtWork(x)
  BY DEF PostOutcome, Inv, TypeInv, TypeOK, Idle
<1>2. /\ \A x \in Workers : ~AtWork(x)'
      /\ \A i \in Queued : ~Outcome(i)
      /\ ~Asking
  BY <1>1 DEF Inv, Orderly, OnePlace
<1>3. UNCHANGED <<is_processing, busy_control, disabled, prompt, pending_auth, context>>
  BY DEF PostOutcome, ui
<1>4. CASE lost' = TRUE /\ UNCHANGED msg_queue
  BY <1>2, <1>3, <1>4
  DEF Inv, Orderly, OnePlace, FlagUp, NothingStuck, AuthMatches, ContextPaired, Asking
<1>5. CASE HasRoom /\ msg_queue' = Append(msg_queue, m) /\ UNCHANGED lost
  <2>1. m \in Messages /\ m.kind = worker[w].kind /\ m.vault = worker[w].vault
        /\ m.type \in {"result", "batch_done"}
    <3>1. worker[w].kind \in Kinds /\ worker[w].vault \in Vaults \cup {NoVault}
      BY <1>1 DEF Inv, TypeInv, TypeOK, KindsUsed
    <3>2. Mode(worker[w].kind) \in {"result", "batch_done"}
      BY DEF Mode
    <3> QED
      BY <3>1, <3>2, MsgType
  <2>2. /\ Len(msg_queue) \in Nat /\ Len(msg_queue') = Len(msg_queue) + 1
        /\ msg_queue'[Len(msg_queue) + 1] = m
        /\ \A i \in Queued : msg_queue'[i] = msg_queue[i]
    BY <1>5, <2>1, PostFacts DEF Inv, TypeInv
  <2> HIDE DEF m
  <2>q. \A i \in Queued' : i \in Queued \/ i = Len(msg_queue) + 1
    BY <2>2
  <2>r. Somewhere'
    <3>1. PICK n \in Nat : n = Len(msg_queue) + 1
      BY <2>2
    <3>2. n \in Queued' /\ Outcome(n)'
      BY <2>1, <2>2, <3>1
    <3> QED
      BY <3>2 DEF Somewhere
  <2>3. \A i \in Queued' : Outcome(i)' => i = Len(msg_queue) + 1
    BY <1>2, <2>2, <2>q
  <2>4. OnePlace' /\ ContextPaired'
    BY <1>2, <1>3, <2>3 DEF OnePlace, ContextPaired, Asking, Inv, Orderly
  <2>5. FlagUp'
    BY <1>1, <1>2, <1>3, <2>1, <2>2, <2>3 DEF FlagUp, Asking, Inv, Orderly
  <2>6. AuthMatches'
    BY <1>1, <1>2, <1>3, <2>1, <2>2, <2>3 DEF AuthMatches, Inv, Orderly
  <2>7. NothingStuck'
    <3>2. ~lost' => disabled' \subseteq {busy_control'}
      BY <1>3, <1>5 DEF NothingStuck, Inv, Orderly
    <3> QED
      BY <2>r, <3>2 DEF NothingStuck
  <2> QED
    BY <2>4, <2>5, <2>6, <2>7 DEF Orderly
<1> QED
  BY <1>4, <1>5 DEF PostOutcome

\* The poll loop ends the operation, and what the screen kept goes with it.
LEMMA PollStep ==
    ASSUME Inv, TypeInv', ~hurried, Poll
    PROVE  Orderly'
<1> USE DEF Queued, Outcome, AtWork, Free
<1> DEFINE m == msg_queue[1]
<1>1. /\ Head(msg_queue) = m /\ m \in Messages /\ 1 \in Queued
      /\ Len(msg_queue) \in Nat \ {0} /\ Len(msg_queue') = Len(msg_queue) - 1
      /\ \A i \in Queued' : i + 1 \in Queued /\ msg_queue'[i] = msg_queue[i + 1]
  BY PollFacts DEF Poll, Inv, TypeInv
<1>2. UNCHANGED <<prompt, worker>>
  BY DEF Poll
<1>3. \A i \in Queued' : Outcome(i)' => Outcome(i + 1) /\ i + 1 \in Queued
  BY <1>1
<1>4. OnePlace'
  <2>1. ASSUME NEW i \in Queued', NEW j \in Queued', Outcome(i)', Outcome(j)' PROVE i = j
    <3>1. i + 1 = j + 1
      BY <1>3, <2>1 DEF Inv, Orderly, OnePlace
    <3> QED
      BY <1>1, <3>1
  <2> QED
    BY <1>2, <1>3, <2>1 DEF Inv, Orderly, OnePlace, Asking
<1>5. CASE m.type \in {"progress", "error"}
  <2>1. /\ UNCHANGED <<is_processing, pending_auth, context, lost>>
        /\ \/ UNCHANGED <<busy_control, disabled>>
           \/ disabled' = disabled \ {busy_control}
    BY <1>1, <1>5 DEF Poll, OnError, ReleaseBusy
  <2>2. \A i \in Queued : Outcome(i) => i - 1 \in Queued' /\ Outcome(i - 1)'
    <3> SUFFICES ASSUME NEW i \in Queued, Outcome(i) PROVE i - 1 \in Queued' /\ Outcome(i - 1)'
      OBVIOUS
    <3>1. i # 1 /\ i - 1 \in Queued' /\ msg_queue'[i - 1] = msg_queue[i]
      <4>1. i # 1
        BY <1>5
      <4>2. i - 1 \in Queued' /\ (i - 1) + 1 = i
        BY <1>1, <4>1
      <4> QED
        BY <1>1, <4>1, <4>2
    <3> QED
      BY <3>1
  <2>3. Somewhere => Somewhere'
    BY <1>2, <2>2 DEF Somewhere
  <2>4. NothingStuck'
    BY <1>2, <2>1, <2>3 DEF NothingStuck, Asking, Inv, Orderly
  <2>5. FlagUp' /\ AuthMatches' /\ ContextPaired'
    BY <1>1, <1>2, <1>3, <2>1 DEF FlagUp, AuthMatches, ContextPaired, Asking, Inv, Orderly
  <2> QED
    BY <1>4, <2>4, <2>5 DEF Orderly
<1>6. CASE m.type \in {"result", "batch_done"}
  <2>1. /\ Outcome(1) /\ \A w \in Workers : Free(w)'
        /\ ~Asking'
    BY <1>1, <1>2, <1>6 DEF Inv, Orderly, OnePlace, Asking
  <2>2. \A i \in Queued' : ~Outcome(i)'
    <3> SUFFICES ASSUME NEW i \in Queued', Outcome(i)' PROVE FALSE
      OBVIOUS
    <3>1. i + 1 \in Queued /\ Outcome(i + 1) /\ i + 1 # 1
      BY <1>1
    <3> QED
      BY <1>1, <2>1, <3>1 DEF Inv, Orderly, OnePlace
  <2>3. \/ lost' = TRUE
        \/ is_processing' = FALSE /\ disabled' = disabled \ {busy_control} /\ lost' = lost
    BY <1>1, <1>6 DEF Poll, OnBatchDone, OnResult, NoScreen, ReleaseBusy
  <2>4. NothingStuck'
    BY <2>3 DEF Inv, Orderly, NothingStuck
  <2>5. FlagUp' /\ AuthMatches'
    BY <2>1, <2>2 DEF FlagUp, AuthMatches
  <2>6. ContextPaired'
    <3>1. CASE context' = context
      BY <3>1 DEF Inv, Orderly, ContextPaired
    <3>2. CASE context' = [vault |-> NoVault, auth |-> NoVault]
      BY <3>2 DEF ContextPaired
    <3>3. CASE m.kind = "inspect" /\ context' = [vault |-> m.vault, auth |-> pending_auth]
      <4>1. pending_auth \in {m.vault, NoVault}
        BY <1>1, <2>1, <3>3 DEF Inv, Orderly, AuthMatches
      <4> QED
        BY <3>3, <4>1 DEF ContextPaired
    <3> QED
      BY <1>1, <1>6, <3>1, <3>2, <3>3 DEF Poll, OnBatchDone, OnResult, NoScreen
  <2> QED
    BY <1>4, <2>4, <2>5, <2>6 DEF Orderly
<1> QED
  BY <1>1, <1>5, <1>6 DEF Messages

LEMMA RebuildStep ==
    ASSUME Inv, TypeInv', ~hurried, Rebuild
    PROVE  Orderly'
<1> USE DEF Queued, Outcome, AtWork, Free
<1>1. ~Asking /\ ~Asking'
  BY DEF Rebuild, ModalOpen, Asking, AllKinds
<1>2. /\ disabled' = {} /\ pending_auth' = NoVault
      /\ context' = [vault |-> NoVault, auth |-> NoVault]
      /\ UNCHANGED <<is_processing, worker, msg_queue, lost>>
  BY DEF Rebuild
<1>3. OnePlace' /\ FlagUp' /\ AuthMatches' /\ ContextPaired'
  BY <1>1, <1>2 DEF OnePlace, FlagUp, AuthMatches, ContextPaired, Inv, Orderly
<1>4. NothingStuck'
  BY <1>1, <1>2 DEF NothingStuck, Somewhere, Inv, Orderly
<1> QED
  BY <1>3, <1>4 DEF Orderly

LEMMA Inductive == Inv /\ [Next]_vars => Inv'
<1> SUFFICES ASSUME Inv, [Next]_vars, ~hurried' PROVE Orderly'
  BY TypeStep DEF Inv
<1>0. TypeInv'
  BY TypeStep DEF Inv
<1>h. ~hurried
  BY DEF Next, vars, ui, BeginOperation, Start, OpenPrompt, CancelPrompt, Navigate,
     ConfirmPrompt, OpenRecovery, ContinueRecovery, WorkerStep, PostProgress, PostError,
     EndWork, PostOutcome, CancelRecovery, Poll, Rebuild, ChangePath
<1>o. Orderly
  BY <1>h DEF Inv
<1>1. ASSUME NEW w \in Workers, NEW k \in Kinds, NEW v \in Vaults, Start(w, k, v)
      PROVE  Orderly'
  BY <1>0, <1>h, <1>1, StartStep
<1>2. ASSUME NEW k \in Kinds, OpenPrompt(k) \/ CancelPrompt(k) PROVE Orderly'
  <2>1. Asking' <=> Asking
    <3>1. k # "encrypt" /\ "encrypt" \in AllKinds /\ prompt \in [AllKinds -> {"closed", "open", "orphan"}]
      BY <1>2 DEF OpenPrompt, CancelPrompt, Prompted, AllKinds, Inv, TypeInv, TypeOK
    <3> QED
      BY <1>2, <3>1 DEF OpenPrompt, CancelPrompt, Asking
  <2> QED
    BY <1>2, <1>o, <2>1, SameOperation DEF OpenPrompt, CancelPrompt
<1>3. ASSUME NEW k \in Kinds, Navigate(k) PROVE Orderly'
  BY <1>3, <1>o, SameOperation DEF Navigate, Asking
<1>4. ASSUME NEW w \in Workers, NEW k \in Kinds, ConfirmPrompt(w, k) PROVE Orderly'
  BY <1>0, <1>h, <1>4, ConfirmStep
<1>5. ASSUME OpenRecovery PROVE Orderly'
  BY <1>0, <1>h, <1>5, OpenRecoveryStep
<1>6. ASSUME NEW w \in Workers, ContinueRecovery(w) PROVE Orderly'
  BY <1>0, <1>h, <1>6, ContinueRecoveryStep
<1>7. ASSUME CancelRecovery PROVE Orderly'
  BY <1>0, <1>h, <1>7, CancelRecoveryStep
<1>8. ASSUME NEW w \in Workers, PostProgress(w) PROVE Orderly'
  <2> DEFINE m == Msg("progress", worker[w].kind, NoVault)
  <2>1. m \in Messages /\ m.type = "progress"
    BY <1>8, MsgType DEF PostProgress, Inv, TypeInv, KindsUsed, AtWork, Free
  <2>2. /\ HasRoom /\ msg_queue' = Append(msg_queue, m)
        /\ UNCHANGED <<is_processing, busy_control, disabled, worker, prompt, pending_auth,
                       context, lost>>
    BY <1>8 DEF PostProgress, ui
  <2> HIDE DEF m
  <2> QED
    BY <1>0, <1>h, <2>1, <2>2, PostStep
<1>9. ASSUME NEW w \in Workers, PostError(w) PROVE Orderly'
  <2> DEFINE m == Msg("error", "encrypt", NoVault)
  <2>1. m \in Messages /\ m.type = "error"
    BY <1>9, MsgType DEF PostError, Inv, TypeInv, KindsUsed, AtWork, Free
  <2>2. /\ HasRoom /\ msg_queue' = Append(msg_queue, m)
        /\ UNCHANGED <<is_processing, busy_control, disabled, worker, prompt, pending_auth,
                       context, lost>>
    BY <1>9 DEF PostError, ui
  <2> HIDE DEF m
  <2> QED
    BY <1>0, <1>h, <2>1, <2>2, PostStep
<1>10. ASSUME NEW w \in Workers, EndWork(w) PROVE Orderly'
  BY <1>0, <1>h, <1>10, EndWorkStep
<1>11. ASSUME NEW w \in Workers, PostOutcome(w) PROVE Orderly'
  BY <1>0, <1>h, <1>11, PostOutcomeStep
<1>12. ASSUME Poll PROVE Orderly'
  BY <1>0, <1>h, <1>12, PollStep
<1>13. ASSUME Rebuild PROVE Orderly'
  BY <1>0, <1>h, <1>13, RebuildStep
<1>14. ASSUME ChangePath PROVE Orderly'
  BY <1>14, <1>o
  DEF ChangePath, Orderly, OnePlace, FlagUp, NothingStuck, Somewhere, AuthMatches,
      ContextPaired, Asking, Queued, Outcome, AtWork, Free
<1>15. CASE UNCHANGED vars
  BY <1>15, <1>o, SameOperation DEF vars, Asking
<1> QED
  BY <1>0, <1>1, <1>2, <1>3, <1>4, <1>5, <1>6, <1>7, <1>8, <1>9, <1>10, <1>11, <1>12,
     <1>13, <1>14, <1>15 DEF Next, WorkerStep

LEMMA Invariance == Spec => []Inv
<1>1. Init => Inv
  <2> SUFFICES ASSUME Init PROVE Inv
    OBVIOUS
  <2>1. Queued = {} /\ \A w \in Workers : ~AtWork(w)
    BY DEF Init, Queued, AtWork, Free, Idle
  <2>2. ~Asking /\ disabled = {} /\ is_processing = FALSE /\ context.auth = NoVault
    BY DEF Init, Asking, AllKinds
  <2> QED
    BY <2>1, <2>2, TypeInitially
    DEF Inv, Orderly, OnePlace, FlagUp, NothingStuck, Somewhere, AuthMatches, ContextPaired
<1> QED
  BY <1>1, Inductive, PTL DEF Spec

-----------------------------------------------------------------------------
\* At most one operation works at a time, whatever the operations, and the flag
\* is up while it does, until one is begun in a gap of the flag.
THEOREM OneOperationAtATime == Spec => []OneOperation
<1>1. Inv => OneOperation
  <2> SUFFICES ASSUME Inv, ~hurried
               PROVE  Cardinality(Working) <= 1 /\ (Working # {} => is_processing)
    BY DEF OneOperation
  <2>1. CASE Working = {}
    BY <2>1, FS_EmptySet
  <2>2. ASSUME NEW w \in Working PROVE Cardinality(Working) <= 1 /\ is_processing
    <3>1. Working = {w}
      BY <2>2 DEF Working, Inv, Orderly, OnePlace, AtWork, Free
    <3>2. is_processing
      BY <2>2 DEF Working, Inv, Orderly, OnePlace, FlagUp, AtWork, Free
    <3> QED
      <4>1. Cardinality({w}) = 1
        BY FS_Singleton
      <4> QED
        BY <3>1, <3>2, <4>1
  <2> QED
    BY <2>1, <2>2
<1> QED
  BY <1>1, Invariance, PTL

\* The password that goes with the inspected vault is the one that opened it,
\* however late its result is handled and whatever else the user does
\* (on_inspect_result), until an operation is begun in a gap of the flag.
THEOREM ContextAlwaysMatches == Spec => []ContextMatches
<1>1. Inv => ContextMatches
  BY DEF Inv, Orderly, ContextPaired, ContextMatches
<1> QED
  BY <1>1, Invariance, PTL

\* No button stays disabled once all is quiet, however often the screens were
\* rebuilt (set_busy, on_batch_done), unless an outcome was lost or an operation
\* begun in a gap of the flag.
THEOREM ButtonsAlwaysComeBack == Spec => []ButtonsComeBack
<1>1. Inv => ButtonsComeBack
  <2> SUFFICES ASSUME Inv, ~hurried, ~lost, ~Underway PROVE disabled = {}
    BY DEF ButtonsComeBack
  <2> QED
    BY NothingUnderway DEF Inv
<1> QED
  BY <1>1, Invariance, PTL

\* The operations that look at the flag and raise it in one handler, and lower
\* it when their outcome is handled, leave no gap: none of them is ever begun
\* before the last is over.
THEOREM GuardedNeverHurry ==
    ASSUME Guarded
    PROVE  Spec => [](~hurried)
<1>1. TypeInv => ~FlagIsEarly
  <2> SUFFICES ASSUME TypeInv, FlagIsEarly PROVE FALSE
    OBVIOUS
  <2>1. \A w \in Workers : worker[w].pc = "post" => worker[w].kind \notin ClearsEarly
    BY DEF TypeInv, KindsUsed, AtWork, Free, Guarded, ClearsEarly
  <2>2. \A i \in Queued : msg_queue[i].kind \notin ClearsEarly
    <3>1. \A i \in Queued : msg_queue[i] \in Messages
      BY DEF TypeInv, TypeOK, Queued
    <3> QED
      BY <3>1 DEF Messages, Guarded, ClearsEarly
  <2> QED
    BY <2>1, <2>2 DEF FlagIsEarly, Queued
<1>2. TypeInv /\ ~hurried /\ [Next]_vars => ~hurried'
  <2> SUFFICES ASSUME TypeInv, ~hurried, [Next]_vars PROVE ~hurried'
    OBVIOUS
  <2>1. \A w \in Workers : \A k \in Kinds : ~ConfirmPrompt(w, k)
    BY DEF ConfirmPrompt, Prompted, Guarded
  <2> QED
    BY <1>1, <2>1
    DEF Next, vars, ui, BeginOperation, Start, OpenPrompt, CancelPrompt, Navigate,
        OpenRecovery, ContinueRecovery, WorkerStep, PostProgress, PostError,
        EndWork, PostOutcome, CancelRecovery, Poll, Rebuild, ChangePath
<1>3. Init => ~hurried
  BY DEF Init
<1> QED
  BY <1>2, <1>3, TypeInitially, TypeStep, PTL DEF Spec

-----------------------------------------------------------------------------
(***************************************************************************)
(* The limiter                                                             *)
(*                                                                         *)
(* For every number of attempts, length of the lockout and every bound on  *)
(* the clock and on the user's patience.  The counter _fails knows less    *)
(* than Throttled speaks of: it forgets, and it counts recovery phrases    *)
(* too.  What it still knows is Recent: while no lockout runs, all but the *)
(* last _fails wrong passwords are a full lockout older than now, and than *)
(* every one that came after them.                                         *)
(***************************************************************************)

\* A password is tried only while no lockout is remembered.
Unlocked == op = "password" => lockoutStart = None

\* A lockout starts with the last failure.
LockedLast ==
    lockoutStart # None => \A i \in 1..Len(wrong) : wrong[i] <= lockoutStart

\* The first b wrong passwords are a lockout older than the rest and than now.
Old(b) ==
    /\ \A i \in 1..b : wrong[i] + LockoutSecs <= now
    /\ \A i \in 1..b : \A j \in (b + 1)..Len(wrong) : wrong[j] - wrong[i] >= LockoutSecs

Recent == lockoutStart = None => \E b \in 0..Len(wrong) : Len(wrong) - b <= fails /\ Old(b)

LimiterInv == LimiterTypeOK /\ Unlocked /\ LockedLast /\ Recent /\ Throttled

-----------------------------------------------------------------------------
\* Appending a time of the clock to the wrong passwords.
LEMMA AppendTime ==
    ASSUME LimiterTypeOK
    PROVE  /\ Append(wrong, now) \in Seq(0..now)
           /\ Len(Append(wrong, now)) = Len(wrong) + 1
           /\ Append(wrong, now)[Len(wrong) + 1] = now
           /\ \A i \in 1..Len(wrong) : Append(wrong, now)[i] = wrong[i]
BY DEF LimiterTypeOK

\* Time passes: what has failed stays in the past.
LEMMA Later ==
    ASSUME NEW n \in Nat, NEW s \in Seq(0..n)
    PROVE  s \in Seq(0..(n + 1))
<1>1. 0..n \subseteq 0..(n + 1)
  OBVIOUS
<1> QED
  BY <1>1

LEMMA LimiterTypeStep == LimiterTypeOK /\ [LimiterNext]_limiterVars => LimiterTypeOK'
<1> SUFFICES ASSUME LimiterTypeOK, [LimiterNext]_limiterVars PROVE LimiterTypeOK'
  OBVIOUS
<1> USE LimiterAssumption DEF LimiterTypeOK, Flows, None
<1>1. ASSUME NEW flow \in Flows, Attempt(flow) PROVE LimiterTypeOK'
  BY <1>1 DEF Attempt, Expire, Locked
<1>2. ASSUME RecordFailure PROVE LimiterTypeOK'
  <2>1. wrong' \in Seq(0..now)
    BY <1>2, AppendTime DEF RecordFailure
  <2> QED
    BY <1>2, <2>1 DEF RecordFailure
<1>3. ASSUME Report PROVE LimiterTypeOK'
  BY <1>3 DEF Report, Expire, Locked
<1>4. ASSUME RecordSuccess PROVE LimiterTypeOK'
  BY <1>4 DEF RecordSuccess
<1>5. ASSUME EndOtherwise PROVE LimiterTypeOK'
  BY <1>5 DEF EndOtherwise
<1>6. ASSUME Tick PROVE LimiterTypeOK'
  <2>1. wrong' \in Seq(0..(now + 1))
    BY <1>6, Later DEF Tick
  <2> QED
    BY <1>6, <2>1 DEF Tick
<1>7. CASE UNCHANGED limiterVars
  BY <1>7 DEF limiterVars
<1> QED
  BY <1>1, <1>2, <1>3, <1>4, <1>5, <1>6, <1>7 DEF LimiterNext

\* Every variable keeps its type.
THEOREM LimiterTypeCorrect == LimiterSpec => []LimiterTypeOK
<1>1. LimiterInit => LimiterTypeOK
  BY LimiterAssumption DEF LimiterInit, LimiterTypeOK, None
<1> QED
  BY <1>1, LimiterTypeStep, PTL DEF LimiterSpec

-----------------------------------------------------------------------------
\* is_locked: whichever way it answers, the invariant survives it.
LEMMA ExpireKeeps ==
    ASSUME LimiterInv, LimiterTypeOK', Expire, UNCHANGED <<now, wrong>>,
           op' # "password" \/ lockoutStart' = None
    PROVE  LimiterInv'
<1> USE LimiterAssumption DEF LimiterInv, LimiterTypeOK
<1>1. CASE lockoutStart # None /\ ~Locked
  <2>1. \A i \in 1..Len(wrong) : wrong[i] + LockoutSecs <= now
    BY <1>1 DEF Locked, LockedLast
  <2>2. Len(wrong) \in 0..Len(wrong) /\ fails' = 0 /\ Old(Len(wrong))'
    BY <1>1, <2>1 DEF Old, Expire
  <2>3. Recent'
    BY <2>2 DEF Recent
  <2> QED
    BY <1>1, <2>3 DEF Unlocked, LockedLast, Throttled, Expire
<1>2. CASE ~(lockoutStart # None /\ ~Locked)
  <2>1. UNCHANGED <<fails, lockoutStart>>
    BY <1>2 DEF Expire
  <2> QED
    BY <2>1 DEF Unlocked, LockedLast, Recent, Old, Throttled
<1> QED
  BY <1>1, <1>2

\* The counter bounds what the next wrong password can add.
LEMMA FailureKeeps ==
    ASSUME LimiterInv, LimiterTypeOK', RecordFailure
    PROVE  LimiterInv'
<1> USE LimiterAssumption DEF LimiterInv
<1>0. op' = "failed" /\ now' = now /\ Unlocked'
  BY DEF RecordFailure, Unlocked
<1>1. CASE op = "password"
  <2>0. lockoutStart = None /\ wrong' = Append(wrong, now)
    BY <1>1 DEF Unlocked, RecordFailure
  <2>1. PICK b \in 0..Len(wrong) : Len(wrong) - b <= fails /\ Old(b)
    BY <2>0 DEF Recent
  <2>2. /\ Len(wrong') = Len(wrong) + 1
        /\ wrong'[Len(wrong) + 1] = now
        /\ \A i \in 1..Len(wrong) : wrong'[i] = wrong[i]
    BY <2>0, AppendTime
  <2>n. /\ Len(wrong) \in Nat /\ now \in Nat /\ fails \in 0..(MaxAttempts - 1)
        /\ b \in Nat /\ b <= Len(wrong) /\ MaxAttempts \in Nat \ {0} /\ LockoutSecs \in Nat
        /\ \A i \in 1..Len(wrong) : wrong[i] \in Nat
    BY DEF LimiterTypeOK
  <2>3. Throttled'
    <3> SUFFICES ASSUME NEW i \in 1..(Len(wrong) + 1 - MaxAttempts)
                 PROVE  wrong'[i + MaxAttempts] - wrong'[i] >= LockoutSecs
      BY <2>2 DEF Throttled
    <3>1. CASE i + MaxAttempts <= Len(wrong)
      BY <2>n, <2>2, <3>1 DEF Throttled
    <3>2. CASE i + MaxAttempts = Len(wrong) + 1
      <4>1. i \in 1..b
        BY <2>n, <2>1, <3>2
      <4>2. wrong[i] + LockoutSecs <= now /\ wrong'[i] = wrong[i]
        BY <2>n, <2>1, <2>2, <4>1 DEF Old
      <4> QED
        BY <2>n, <2>2, <3>2, <4>1, <4>2
    <3> QED
      BY <2>n, <3>1, <3>2
  <2>4. LockedLast'
    BY <1>0, <2>0, <2>2 DEF LockedLast, RecordFailure, LimiterTypeOK
  <2>5. Recent'
    <3> SUFFICES ASSUME lockoutStart' = None PROVE Recent'
      BY DEF Recent
    <3>1. fails' = fails + 1
      BY DEF RecordFailure, None, LimiterTypeOK
    <3>2. b \in 0..Len(wrong') /\ Len(wrong') - b <= fails'
      BY <2>1, <2>2, <3>1 DEF LimiterTypeOK
    <3>3. \A i \in 1..b : wrong'[i] = wrong[i] /\ wrong'[i] + LockoutSecs <= now
      BY <2>n, <2>1, <2>2 DEF Old
    <3>4. ASSUME NEW i \in 1..b, NEW j \in (b + 1)..(Len(wrong) + 1)
          PROVE  wrong'[j] - wrong'[i] >= LockoutSecs
      <4>1. CASE j <= Len(wrong)
        BY <2>n, <2>1, <2>2, <3>4, <4>1 DEF Old
      <4>2. CASE j = Len(wrong) + 1
        BY <2>n, <2>2, <3>3, <4>2
      <4> QED
        BY <2>n, <4>1, <4>2
    <3>5. Old(b)'
      BY <1>0, <2>2, <3>3, <3>4 DEF Old
    <3> QED
      BY <3>2, <3>5 DEF Recent
  <2> QED
    BY <1>0, <2>3, <2>4, <2>5
<1>2. CASE op # "password"
  <2>1. wrong' = wrong /\ fails \in Nat
    BY <1>2, LimiterAssumption DEF RecordFailure, LimiterTypeOK
  <2>2. Throttled'
    BY <2>1 DEF Throttled
  <2>3. CASE lockoutStart' = now /\ now # None
    BY <1>0, <2>1, <2>2, <2>3 DEF LockedLast, Recent, LimiterTypeOK
  <2>4. CASE lockoutStart' = lockoutStart /\ fails' = fails + 1
    <3>1. LockedLast'
      BY <2>1, <2>4 DEF LockedLast
    <3>2. Recent'
      BY <1>0, <2>1, <2>4 DEF Recent, Old
    <3> QED
      BY <1>0, <2>2, <3>1, <3>2
  <2> QED
    BY <2>3, <2>4 DEF RecordFailure, LimiterTypeOK, None
<1> QED
  BY <1>1, <1>2

LEMMA LimiterInductive == LimiterInv /\ [LimiterNext]_limiterVars => LimiterInv'
<1> SUFFICES ASSUME LimiterInv, [LimiterNext]_limiterVars PROVE LimiterInv'
  OBVIOUS
<1>0. LimiterTypeOK'
  BY LimiterTypeStep DEF LimiterInv
<1> USE LimiterAssumption
<1>1. ASSUME NEW flow \in Flows, Attempt(flow) PROVE LimiterInv'
  <2>1. CASE flow = "recovery"
    BY <1>0, <1>1, <2>1
    DEF Attempt, LimiterInv, Unlocked, LockedLast, Recent, Old, Throttled
  <2>2. CASE flow # "recovery"
    <3>1. Expire /\ UNCHANGED <<now, wrong>> /\ lockoutStart' = None
      BY <1>1, <2>2 DEF Attempt, Expire, LimiterInv
    <3> QED
      BY <1>0, <3>1, ExpireKeeps
  <2> QED
    BY <2>1, <2>2
<1>2. ASSUME RecordFailure PROVE LimiterInv'
  BY <1>0, <1>2, FailureKeeps
<1>3. ASSUME Report PROVE LimiterInv'
  BY <1>0, <1>3, ExpireKeeps DEF Report
<1>4. ASSUME RecordSuccess PROVE LimiterInv'
  <2>1. wrong' = <<>> /\ Len(wrong') = 0 /\ 0 \in 0..Len(wrong') /\ fails' = 0
    BY <1>4 DEF RecordSuccess
  <2>2. Old(0)' /\ Throttled'
    BY <2>1 DEF Old, Throttled
  <2>3. Recent'
    BY <2>1, <2>2 DEF Recent
  <2> QED
    BY <1>0, <1>4, <2>1, <2>2, <2>3 DEF RecordSuccess, LimiterInv, Unlocked, LockedLast
<1>5. ASSUME EndOtherwise PROVE LimiterInv'
  BY <1>0, <1>5 DEF EndOtherwise, LimiterInv, Unlocked, LockedLast, Recent, Old, Throttled
<1>6. ASSUME Tick PROVE LimiterInv'
  <2>1. UNCHANGED <<fails, lockoutStart, op, wrong>> /\ now' = now + 1
    BY <1>6 DEF Tick
  <2>2. ASSUME NEW b \in 0..Len(wrong), Old(b) PROVE Old(b)'
    BY <2>1, <2>2 DEF Old, LimiterInv, LimiterTypeOK
  <2>3. Recent'
    BY <2>1, <2>2 DEF Recent, LimiterInv
  <2> QED
    BY <1>0, <2>1, <2>3 DEF LimiterInv, Unlocked, LockedLast, Throttled
<1>7. CASE UNCHANGED limiterVars
  BY <1>0, <1>7 DEF limiterVars, LimiterInv, Unlocked, LockedLast, Recent, Old, Throttled
<1> QED
  BY <1>1, <1>2, <1>3, <1>4, <1>5, <1>6, <1>7 DEF LimiterNext

\* Between two successes no more than MaxAttempts passwords are found wrong in
\* any LockoutSecs, whatever else is tried in between (AttemptLimiter with the
\* is_locked guard of the screens).
THEOREM ThrottledAlways == LimiterSpec => []Throttled
<1>1. LimiterInit => LimiterInv
  <2> SUFFICES ASSUME LimiterInit PROVE LimiterInv
    OBVIOUS
  <2>1. LimiterTypeOK
    BY LimiterAssumption DEF LimiterInit, LimiterTypeOK, None
  <2>2. Len(wrong) = 0 /\ 0 \in 0..Len(wrong) /\ Old(0)
    BY DEF LimiterInit, Old
  <2> QED
    BY <2>1, <2>2, LimiterAssumption
    DEF LimiterInit, LimiterInv, Unlocked, LockedLast, Recent, Throttled
<1>2. LimiterInv => Throttled
  BY DEF LimiterInv
<1> QED
  BY <1>1, <1>2, LimiterInductive, PTL DEF LimiterSpec
=============================================================================
