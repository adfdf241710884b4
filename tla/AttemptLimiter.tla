--------------------------- MODULE AttemptLimiter ---------------------------
(***************************************************************************)
(* AttemptLimiter and the two flows it guards, decryption and inspection:  *)
(* the screen asks whether passwords are locked out when the user clicks,  *)
(* the worker records later how the attempt went.  A recovery phrase is    *)
(* not refused while passwords are, but its outcome is recorded like a     *)
(* password's.                                                             *)
(***************************************************************************)
EXTENDS Integers, Sequences

CONSTANTS
    MaxAttempts,   \* MAX_ATTEMPTS
    LockoutSecs,   \* LOCKOUT_SECS
    MaxTime,       \* bound: the clock stops here
    MaxTries       \* bound: attempts the user makes

ASSUME LimiterAssumption ==
    /\ MaxAttempts \in Nat \ {0}
    /\ LockoutSecs \in Nat \ {0}
    /\ MaxTime \in Nat
    /\ MaxTries \in Nat

VARIABLES
    fails,         \* _fails
    lockoutStart,  \* _lockout_start
    now,           \* time.monotonic()
    op,            \* the attempt that is being made
    tries,         \* attempts made, for the bound
    wrong          \* when passwords were wrong, since the last success

limiterVars == <<fails, lockoutStart, now, op, tries, wrong>>

None == -1
Flows == {"password", "recovery"}

LimiterInit ==
    /\ fails = 0
    /\ lockoutStart = None
    /\ now = 0
    /\ op = "idle"
    /\ tries = 0
    /\ wrong = <<>>

Locked == lockoutStart # None /\ now - lockoutStart < LockoutSecs

\* What is_locked does besides answering: a lockout that is over is forgotten.
Expire ==
    LET over == lockoutStart # None /\ ~Locked IN
    /\ lockoutStart' = IF over THEN None ELSE lockoutStart
    /\ fails' = IF over THEN 0 ELSE fails

\* Mutant: the screen does not ask.
AttemptUnasked(flow) ==
    /\ op = "idle" /\ tries < MaxTries
    /\ tries' = tries + 1
    /\ op' = flow
    /\ UNCHANGED <<fails, lockoutStart, now, wrong>>

\* The user clicks on Decrypt or Inspect.
Attempt(flow) ==
    /\ op = "idle" /\ tries < MaxTries
    /\ tries' = tries + 1
    /\ IF flow = "recovery"
         THEN UNCHANGED <<fails, lockoutStart>>
         ELSE ~Locked /\ Expire
    /\ op' = flow
    /\ UNCHANGED <<now, wrong>>

\* record_failure, called by the worker.
RecordFailure ==
    /\ op \in Flows
    /\ LET lock == fails + 1 >= MaxAttempts IN
         /\ fails' = IF lock THEN 0 ELSE fails + 1
         /\ lockoutStart' = IF lock THEN now ELSE lockoutStart
    /\ wrong' = IF op = "password" THEN Append(wrong, now) ELSE wrong
    /\ op' = "failed"
    /\ UNCHANGED <<now, tries>>

\* The worker asks how long the lockout is, for the message.
Report ==
    /\ op = "failed"
    /\ Expire
    /\ op' = "idle"
    /\ UNCHANGED <<now, tries, wrong>>

\* record_success
RecordSuccess ==
    /\ op \in Flows
    /\ fails' = 0
    /\ lockoutStart' = None
    /\ wrong' = <<>>
    /\ op' = "idle"
    /\ UNCHANGED <<now, tries>>

\* Another error, or a cancellation: nothing is recorded.
EndOtherwise ==
    /\ op \in Flows
    /\ op' = "idle"
    /\ UNCHANGED <<fails, lockoutStart, now, tries, wrong>>

Tick ==
    /\ now < MaxTime
    /\ now' = now + 1
    /\ UNCHANGED <<fails, lockoutStart, op, tries, wrong>>

LimiterNext ==
    \/ \E flow \in Flows : Attempt(flow)
    \/ RecordFailure
    \/ Report
    \/ RecordSuccess
    \/ EndOtherwise
    \/ Tick

LimiterSpec == LimiterInit /\ [][LimiterNext]_limiterVars

-----------------------------------------------------------------------------
(* Properties *)

\* Types of the variables.
LimiterTypeOK ==
    /\ fails \in 0..(MaxAttempts - 1)
    /\ lockoutStart \in {None} \cup 0..now
    /\ now \in 0..MaxTime
    /\ op \in Flows \cup {"idle", "failed"}
    /\ tries \in 0..MaxTries
    /\ wrong \in Seq(0..now)

\* Without a success in between, a password can be found wrong at most
\* MaxAttempts times in any LockoutSecs, however attempts with a recovery
\* phrase, errors and the passing of time fall between them (AttemptLimiter;
\* "After 5 wrong passwords the app enforces a 30-second lockout").
Throttled ==
    \A i \in 1..(Len(wrong) - MaxAttempts) :
        wrong[i + MaxAttempts] - wrong[i] >= LockoutSecs
=============================================================================
