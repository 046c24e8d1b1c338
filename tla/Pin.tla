-------------------------------- MODULE Pin --------------------------------
(***************************************************************************)
(* Verification of one user's transaction PIN, and its lockout.  The row   *)
(* is read, the hash is checked with no transaction open, which takes      *)
(* long, and the outcome is written by a transaction of its own, before    *)
(* the payment that asked for the PIN begins.  Several requests of the     *)
(* user are verified at once.                                              *)
(***************************************************************************)
EXTENDS Integers, FiniteSets

CONSTANTS
  Attempt,            \* calls of verifyPin
  MAX_PIN_ATTEMPTS,
  LOCKOUT,            \* PIN_LOCKOUT_MINUTES
  MaxNow            \* bound of the clock

ASSUME PinAssumption == {MAX_PIN_ATTEMPTS, LOCKOUT, MaxNow} \subseteq Nat \ {0}

VARIABLES
  now,                \* of the database; the processes' clocks agree with it
  failed,             \* users.failed_pin_attempts
  lockedUntil,        \* users.pin_locked_until
  attempt,            \* the calls
  counted             \* the wrong PINs told to somebody since the counter was last cleared

pinVars == <<now, failed, lockedUntil, attempt, counted>>

Never == 0            \* NULL
Row == [failed |-> failed, lockedUntil |-> lockedUntil]

PinInit ==
  /\ now = 1 /\ failed = 0 /\ lockedUntil = Never
  /\ attempt = [a \in Attempt |-> [pc |-> "NEW", right |-> FALSE, saw |-> Row]]
  /\ counted = {}

Moves(a, from, to) == attempt[a].pc = from /\ attempt' = [attempt EXCEPT ![a].pc = to]

\* Mutant: the lockout is not looked at.
NeverLocked == FALSE

\* A lockout that has not run out.
Locked == lockedUntil > now

\* The row is read, without a lock, and a user who is not locked out is verified
\* against what was read.
Read(a, right) ==
  /\ attempt[a].pc = "NEW"
  /\ attempt' = [attempt EXCEPT ![a] =
       [pc |-> IF Locked THEN "REFUSED" ELSE "VERIFYING", right |-> right, saw |-> Row]]
  /\ UNCHANGED <<now, failed, lockedUntil, counted>>

\* Mutant: the counter is computed from the row that was read.
FromWhatWasRead(a) == attempt[a].saw.failed + 1

\* failed_pin_attempts + 1, of the row as it is when the UPDATE reaches it.
Failures(a) == failed + 1

\* The wrong PIN is committed before the error is thrown.
RecordFailedAttempt(a) ==
  /\ ~attempt[a].right
  /\ Moves(a, "VERIFYING", "WRONG")
  /\ failed' = Failures(a)
  /\ lockedUntil' = IF Failures(a) >= MAX_PIN_ATTEMPTS THEN now + LOCKOUT ELSE lockedUntil
  /\ counted' = counted \cup {a}
  /\ UNCHANGED now

ToClear(a) == attempt[a].saw.failed > 0 \/ attempt[a].saw.lockedUntil # Never

ClearFailedAttempts(a) ==
  /\ attempt[a].right /\ ToClear(a)
  /\ Moves(a, "VERIFYING", "VERIFIED")
  /\ failed' = 0 /\ lockedUntil' = Never /\ counted' = {}
  /\ UNCHANGED now

Accept(a) ==
  /\ attempt[a].right /\ ~ToClear(a)
  /\ Moves(a, "VERIFYING", "VERIFIED")
  /\ UNCHANGED <<now, failed, lockedUntil, counted>>

\* The process dies, or the transaction that records the outcome fails: the caller
\* learns nothing about the PIN.
Fail(a) ==
  /\ Moves(a, "VERIFYING", "FAILED")
  /\ UNCHANGED <<now, failed, lockedUntil, counted>>

TimePasses ==
  /\ now < MaxNow /\ now' = now + 1
  /\ UNCHANGED <<failed, lockedUntil, attempt, counted>>

PinNext ==
  \/ \E a \in Attempt :
       \/ \E right \in BOOLEAN : Read(a, right)
       \/ RecordFailedAttempt(a) \/ ClearFailedAttempts(a) \/ Accept(a) \/ Fail(a)
  \/ TimePasses

PinSpec == PinInit /\ [][PinNext]_pinVars

-----------------------------------------------------------------------------
PinTypeOK ==
  /\ now \in 1..MaxNow
  /\ failed \in 0..Cardinality(Attempt)
  /\ lockedUntil \in 0..(MaxNow + LOCKOUT)
  /\ attempt \in [Attempt -> [pc : {"NEW", "REFUSED", "VERIFYING", "WRONG", "VERIFIED", "FAILED"},
                              right : BOOLEAN, saw : [failed : Nat, lockedUntil : Nat]]]
  /\ counted \subseteq Attempt

\* Every wrong PIN somebody was told of is on the counter until it is cleared,
\* however many are verified at once and whatever becomes of the requests, and from
\* the MAX_PIN_ATTEMPTS-th on each of them starts the lockout anew, also after one
\* has run out (pin.service.ts:12-14, "the lockout would never trigger").
NoFailureLost ==
  /\ failed = Cardinality(counted)
  /\ failed >= MAX_PIN_ATTEMPTS => lockedUntil # Never

\* A lockout that has not run out is lifted only by a correct PIN whose
\* verification had begun before that lockout was set: nobody who comes during it
\* shortens it (pin.service.ts:38-40 against the slow verification of line 42 and
\* the clearing of line 53).
LockoutOutlastsNewcomers ==
  [][lockedUntil > now /\ lockedUntil' # lockedUntil =>
       \/ lockedUntil' > lockedUntil
       \/ \E a \in Attempt : /\ attempt[a].pc = "VERIFYING" /\ attempt'[a].pc = "VERIFIED"
                             /\ attempt[a].saw.lockedUntil # lockedUntil]_pinVars
=============================================================================
