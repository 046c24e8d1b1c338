---------------------------- MODULE LimitsProofs ----------------------------
(***************************************************************************)
(* Proofs about what may stop a payment: Pin, for any number of attempts,  *)
(* any lockout and any clock, and SendLimits, for any transactions,        *)
(* processes, amounts and policies.                                        *)
(***************************************************************************)
EXTENDS SendLimits, Pin, Sums

-----------------------------------------------------------------------------
(* The counter of wrong PINs, and the lockout *)

PinTypes ==
  /\ now \in Nat \ {0} /\ failed \in Nat /\ lockedUntil \in Nat
  /\ attempt \in [Attempt -> [pc : {"NEW", "REFUSED", "VERIFYING", "WRONG", "VERIFIED", "FAILED"},
                              right : BOOLEAN, saw : [failed : Nat, lockedUntil : Nat]]]

\* A wrong PIN that is counted was told to an attempt that is over, so the next one is
\* a new member of counted.  A lockout ends at most LOCKOUT from now, and one that was
\* seen by an attempt that is verified had run out when it was seen.
PinInv ==
  /\ PinTypes
  /\ counted \subseteq {a \in Attempt : attempt[a].pc = "WRONG"}
  /\ IsFiniteSet(counted)
  /\ NoFailureLost
  /\ lockedUntil <= now + LOCKOUT
  /\ \A a \in Attempt : attempt[a].pc = "VERIFYING" => attempt[a].saw.lockedUntil <= now

LEMMA PinInitially == PinInit => PinInv
BY PinAssumption, FS_EmptySet DEF PinInit, PinInv, PinTypes, NoFailureLost, Never, Row

\* Each call of verifyPin keeps the counter and the set of failures it counts in step.
LEMMA PinStep == ASSUME PinInv, [PinNext]_pinVars PROVE PinInv'
<1>. USE PinAssumption DEF PinInv, PinTypes, NoFailureLost, Never
<1>1. CASE UNCHANGED pinVars
  BY <1>1 DEF pinVars
<1>2. CASE TimePasses
  BY <1>2 DEF TimePasses
<1>3. ASSUME NEW a \in Attempt, NEW right \in BOOLEAN, Read(a, right)
      PROVE  PinInv'
  BY <1>3 DEF Read, Row, Locked
<1>4. ASSUME NEW a \in Attempt, RecordFailedAttempt(a)
      PROVE  PinInv'
  <2>1. a \notin counted
    BY <1>4 DEF RecordFailedAttempt, Moves
  <2>2. /\ IsFiniteSet(counted')
        /\ Cardinality(counted') = Cardinality(counted) + 1
    BY <1>4, <2>1, FS_AddElement DEF RecordFailedAttempt
  <2>. QED
    BY <1>4, <2>2 DEF RecordFailedAttempt, Moves, Failures
<1>5. ASSUME NEW a \in Attempt, ClearFailedAttempts(a)
      PROVE  PinInv'
  BY <1>5, FS_EmptySet DEF ClearFailedAttempts, Moves
<1>6. ASSUME NEW a \in Attempt, Accept(a) \/ Fail(a)
      PROVE  PinInv'
  BY <1>6 DEF Accept, Fail, Moves
<1>. QED
  BY <1>1, <1>2, <1>3, <1>4, <1>5, <1>6 DEF PinNext

LEMMA PinInvariance == PinSpec => []PinInv
BY PinInitially, PinStep, PTL DEF PinSpec

\* For any number of attempts at once: the counter is the number of the wrong PINs
\* told since it was last cleared, and from the last that is allowed on there is a
\* lockout (recordFailedAttempt adds in the UPDATE, not from the row it read).
THEOREM FailuresCounted == PinSpec => []NoFailureLost
<1>1. PinInv => NoFailureLost
  BY DEF PinInv
<1>. QED
  BY <1>1, PinInvariance, PTL

\* The one step that shortens a lockout in force is the correct PIN of an attempt that
\* had read the row before the lockout was set (verifyPin checks the lockout first, and
\* the hash with no transaction open).
THEOREM LockoutStands == PinSpec => LockoutOutlastsNewcomers
<1>. DEFINE Stands ==
       lockedUntil > now /\ lockedUntil' # lockedUntil =>
         \/ lockedUntil' > lockedUntil
         \/ \E a \in Attempt : /\ attempt[a].pc = "VERIFYING" /\ attempt'[a].pc = "VERIFIED"
                               /\ attempt[a].saw.lockedUntil # lockedUntil
<1>1. PinInv /\ [PinNext]_pinVars => [Stands]_pinVars
  <2>. SUFFICES ASSUME PinInv, PinNext, lockedUntil > now, lockedUntil' # lockedUntil
                PROVE  Stands
    OBVIOUS
  <2>. USE PinAssumption DEF PinInv, PinTypes, Never
  <2>1. ASSUME NEW a \in Attempt, RecordFailedAttempt(a) PROVE Stands
    <3>1. lockedUntil' = now + LOCKOUT
      BY <2>1 DEF RecordFailedAttempt
    <3>2. LOCKOUT \in Nat
      OBVIOUS
    <3>. QED
      BY <3>1, <3>2
  <2>2. ASSUME NEW a \in Attempt, ClearFailedAttempts(a) PROVE Stands
    BY <2>2 DEF ClearFailedAttempts, Moves
  <2>. QED
    BY <2>1, <2>2 DEF PinNext, Read, Accept, Fail, TimePasses
<1>. QED
  BY <1>1, PinInvariance, PTL DEF PinSpec, LockoutOutlastsNewcomers

-----------------------------------------------------------------------------
(* The velocity policy *)

PaymentType ==
  [kind : {"NONE", "P2P", "REQUEST_SETTLEMENT", "SCHEDULED"}, amount : Nat, created : Nat,
   policy : [maxTransfers : Nat, windowSeconds : Nat]]

PostedType ==
  [kind : {"P2P", "REQUEST_SETTLEMENT", "SCHEDULED"}, amount : Nat, created : Nat,
   status : {"COMPLETED", "REVERSED"}, policy : [maxTransfers : Nat, windowSeconds : Nat]]

LimitsTypes ==
  /\ clock \in Nat
  /\ posted \in Seq(PostedType)
  /\ policy \in [Instance -> Policies]
  /\ gate \in Txn \cup {Nobody}
  /\ pc \in [Txn -> {"idle", "begun", "waiting", "passed", "cleared",
                     "committed", "rolled_back"}]
  /\ payment \in [Txn -> PaymentType]

\* Those of the first n transfers of s that are typed and lie in the window of x, a
\* payment or a transfer.
Typed(s, n, x) ==
  {j \in 1 .. n : s[j].kind = "P2P" /\ s[j].created >= x.created - x.policy.windowSeconds}

\* A typed payment past its gate holds it, and the window has stayed as it found it.
Gated(t) ==
  /\ pc[t] \in {"begun", "waiting"} => payment[t].kind = "P2P"
  /\ payment[t].kind = "P2P" /\ pc[t] \in {"passed", "cleared"} => gate = t
  /\ gate = t => pc[t] \in {"passed", "cleared"}
  /\ gate = t => Cardinality(Typed(posted, Len(posted), payment[t])) < payment[t].policy.maxTransfers
  /\ pc[t] \in {"passed", "cleared"} => payment[t].kind # "NONE"

LimitsInv ==
  /\ LimitsTypes
  /\ \A t \in Txn : Gated(t)
  /\ \A i \in DOMAIN posted : posted[i].kind = "P2P" =>
       Cardinality(Typed(posted, i - 1, posted[i])) < posted[i].policy.maxTransfers

LEMMA LimitsInitially == Init => LimitsInv
<1>. SUFFICES ASSUME Init PROVE LimitsInv
  OBVIOUS
<1>1. NoPayment \in PaymentType
  BY DEF NoPayment, NoPolicy, PaymentType
<1>. QED
  BY <1>1, LimitsAssumption DEF Init, LimitsInv, LimitsTypes, Gated, NoPayment

LEMMA TypedFinite ==
  ASSUME NEW s, NEW n \in Nat, NEW x
  PROVE  IsFiniteSet(Typed(s, n, x)) /\ Cardinality(Typed(s, n, x)) \in Nat
<1>1. Typed(s, n, x) \in SUBSET (1 .. n) /\ IsFiniteSet(1 .. n)
  BY FS_Interval DEF Typed
<1>. QED
  BY <1>1, FS_Subset, FS_CardinalityType

\* What the count of enforceVelocity sees holds every typed transfer of the window.
LEMMA RecentHoldsTyped ==
  ASSUME LimitsTypes, NEW t \in Txn
  PROVE  Cardinality(Typed(posted, Len(posted), payment[t])) <= Cardinality(Recent(t))
<1>1. DOMAIN posted = 1 .. Len(posted) /\ Len(posted) \in Nat
  BY DEF LimitsTypes
<1>2. Typed(posted, Len(posted), payment[t]) \in SUBSET Recent(t)
  BY <1>1 DEF Typed, Recent, Counted
<1>3. Recent(t) \in SUBSET (1 .. Len(posted)) /\ IsFiniteSet(1 .. Len(posted))
  BY <1>1, FS_Interval DEF Recent
<1>. QED
  BY <1>2, <1>3, FS_Subset

LEMMA LimitsQuietStep ==
  ASSUME LimitsInv, LimitsTypes', posted' = posted, \A t \in Txn : Gated(t)'
  PROVE  LimitsInv'
BY DEF LimitsInv

LEMMA EndTyped ==
  ASSUME LimitsTypes, NEW t \in Txn, NEW outcome \in {"committed", "rolled_back"}, End(t, outcome)
  PROVE  /\ gate' \in Txn \cup {Nobody}
         /\ pc' \in [Txn -> {"idle", "begun", "waiting", "passed", "cleared",
                             "committed", "rolled_back"}]
BY DEF LimitsTypes, End

LEMMA PostStep ==
  ASSUME LimitsInv, NEW t \in Txn, Post(t)
  PROVE  LimitsInv'
<1>. DEFINE new == [kind |-> payment[t].kind, amount |-> payment[t].amount,
                    status |-> "COMPLETED", created |-> payment[t].created,
                    policy |-> payment[t].policy]
<1>1. /\ posted' = Append(posted, new) /\ new \in PostedType
      /\ pc[t] = "cleared" /\ UNCHANGED payment
  <2>1. payment[t] \in PaymentType /\ payment[t].kind # "NONE"
    BY DEF Post, LimitsInv, LimitsTypes, Gated
  <2>. QED
    BY <2>1 DEF Post, PaymentType, PostedType
<1>2. LimitsTypes'
  BY <1>1, EndTyped DEF Post, LimitsInv, LimitsTypes
<1>3. /\ posted \in Seq(PostedType) /\ posted' \in Seq(PostedType)
      /\ Len(posted) \in Nat /\ Len(posted') = Len(posted) + 1
      /\ \A j \in 1 .. Len(posted) : posted'[j] = posted[j]
      /\ posted'[Len(posted')] = new
  BY <1>1, <1>2 DEF LimitsInv, LimitsTypes
<1>4. \A n \in 0 .. Len(posted) : \A x : Typed(posted', n, x) = Typed(posted, n, x)
  BY <1>3 DEF Typed
<1>5. ASSUME NEW u \in Txn PROVE Gated(u)'
  <2>1. CASE u = t
    <3>1. pc'[t] = "committed" /\ gate' # t
      BY <2>1, LimitsAssumption DEF Post, End, LimitsInv, LimitsTypes
    <3>. QED
      BY <2>1, <3>1 DEF Gated
  <2>2. CASE u # t /\ gate' = u
    <3>1. gate = u /\ gate # t
      BY <2>2, LimitsAssumption DEF Post, End
    <3>2. new.kind # "P2P"
      BY <1>1, <3>1 DEF LimitsInv, Gated
    <3>3. Typed(posted', Len(posted'), payment'[u]) = Typed(posted, Len(posted), payment[u])
      BY <1>1, <1>3, <3>2 DEF Typed
    <3>. QED
      BY <1>1, <2>2, <3>1, <3>3 DEF Post, End, Gated, LimitsInv, LimitsTypes
  <2>3. CASE u # t /\ gate' # u
    <3>1. gate # u
      BY <2>3 DEF Post, End
    <3>. QED
      BY <1>1, <2>3, <3>1 DEF Post, End, Gated, LimitsInv, LimitsTypes
  <2>. QED
    BY <2>1, <2>2, <2>3
<1>6. ASSUME NEW i \in DOMAIN posted', posted'[i].kind = "P2P"
      PROVE  Cardinality(Typed(posted', i - 1, posted'[i])) < posted'[i].policy.maxTransfers
  <2>1. CASE i \in 1 .. Len(posted)
    <3>1. posted'[i] = posted[i] /\ Typed(posted', i - 1, posted'[i]) = Typed(posted, i - 1, posted[i])
      BY <1>3, <1>4, <2>1
    <3>. QED
      BY <1>3, <1>6, <2>1, <3>1 DEF LimitsInv
  <2>2. CASE i = Len(posted')
    <3>1. posted'[i] = new /\ gate = t
      BY <1>1, <1>3, <1>6, <2>2 DEF LimitsInv, Gated
    <3>2. Typed(posted', i - 1, posted'[i]) = Typed(posted, Len(posted), payment[t])
      BY <1>3, <1>4, <2>2, <3>1 DEF Typed
    <3>. QED
      BY <3>1, <3>2 DEF LimitsInv, Gated
  <2>. QED
    BY <1>3, <2>1, <2>2
<1>. QED
  BY <1>2, <1>5, <1>6 DEF LimitsInv

\* A reversal gives spending room back, and leaves the count as it was.
LEMMA ReverseStep ==
  ASSUME LimitsInv, NEW i \in DOMAIN posted, Reverse(i)
  PROVE  LimitsInv'
<1>1. /\ posted \in Seq(PostedType) /\ i \in 1 .. Len(posted) /\ Len(posted) \in Nat
      /\ posted[i] \in PostedType
  BY DEF LimitsInv, LimitsTypes
<1>2. [posted[i] EXCEPT !.status = "REVERSED"] \in PostedType
  BY <1>1 DEF PostedType
<1>3. posted' \in Seq(PostedType) /\ Len(posted') = Len(posted) /\ DOMAIN posted' = DOMAIN posted
  BY <1>1, <1>2 DEF Reverse
<1>4. \A j \in 1 .. Len(posted) :
        /\ posted'[j].kind = posted[j].kind /\ posted'[j].created = posted[j].created
        /\ posted'[j].policy = posted[j].policy
  <2>1. \A j \in 1 .. Len(posted) :
          posted'[j] = IF j = i THEN [posted[i] EXCEPT !.status = "REVERSED"] ELSE posted[j]
    BY <1>1 DEF Reverse
  <2>. QED
    BY <1>1, <2>1 DEF PostedType
<1>5. \A n \in 0 .. Len(posted) : \A x : Typed(posted', n, x) = Typed(posted, n, x)
  <2>. SUFFICES ASSUME NEW n \in 0 .. Len(posted), NEW x
                PROVE  Typed(posted', n, x) = Typed(posted, n, x)
    OBVIOUS
  <2>1. \A j \in 1 .. n : posted'[j].kind = posted[j].kind /\ posted'[j].created = posted[j].created
    BY <1>1, <1>4
  <2>. QED
    BY <2>1 DEF Typed
<1>6. ASSUME NEW t \in Txn PROVE Gated(t)'
  <2>1. Typed(posted', Len(posted'), payment'[t]) = Typed(posted, Len(posted), payment[t])
    <3>1. Len(posted) \in 0 .. Len(posted)
      BY <1>1
    <3>2. Len(posted') = Len(posted) /\ payment' = payment
      BY <1>3 DEF Reverse
    <3>. QED
      BY <1>5, <3>1, <3>2
  <2>. QED
    BY <2>1 DEF Reverse, Gated, LimitsInv
<1>7. ASSUME NEW j \in DOMAIN posted', posted'[j].kind = "P2P"
      PROVE  Cardinality(Typed(posted', j - 1, posted'[j])) < posted'[j].policy.maxTransfers
  <2>1. j \in 1 .. Len(posted) /\ posted[j].kind = "P2P"
    BY <1>1, <1>3, <1>4, <1>7
  <2>2. Typed(posted', j - 1, posted'[j]) = Typed(posted, j - 1, posted'[j])
    BY <1>1, <1>5, <2>1
  <2>3. Typed(posted, j - 1, posted'[j]) = Typed(posted, j - 1, posted[j])
    BY <1>4, <2>1 DEF Typed
  <2>. QED
    BY <1>1, <1>4, <2>1, <2>2, <2>3 DEF LimitsInv
<1>. QED
  BY <1>3, <1>6, <1>7 DEF LimitsInv, LimitsTypes, Reverse

\* Taking the lock, counting and passing is one step: the count still holds when the
\* lock is taken.
LEMMA EnforceStep ==
  ASSUME LimitsInv, NEW t \in Txn, EnforceVelocity(t)
  PROVE  LimitsInv'
<1>1. LimitsTypes' /\ posted' = posted
  BY DEF EnforceVelocity, LimitsInv, LimitsTypes
<1>2. Cardinality(Typed(posted, Len(posted), payment[t])) < payment[t].policy.maxTransfers
  <2>1. /\ Cardinality(Typed(posted, Len(posted), payment[t])) \in Nat
        /\ Cardinality(Recent(t)) \in Nat /\ payment[t].policy.maxTransfers \in Nat
    <3>1. Len(posted) \in Nat /\ payment[t].policy.maxTransfers \in Nat
      BY DEF LimitsInv, LimitsTypes, PaymentType
    <3>2. Recent(t) \in SUBSET (1 .. Len(posted)) /\ IsFiniteSet(1 .. Len(posted))
      <4>1. DOMAIN posted = 1 .. Len(posted)
        BY DEF LimitsInv, LimitsTypes
      <4>. QED
        BY <3>1, <4>1, FS_Interval DEF Recent
    <3>. QED
      BY <3>1, <3>2, TypedFinite, FS_Subset, FS_CardinalityType
  <2>. QED
    BY <2>1, RecentHoldsTyped DEF EnforceVelocity, LimitsInv
<1>3. ASSUME NEW u \in Txn PROVE Gated(u)'
  <2>1. CASE u = t
    BY <1>1, <1>2, <2>1 DEF EnforceVelocity, Gated, LimitsInv, LimitsTypes
  <2>2. CASE u # t
    BY <1>1, <2>2, LimitsAssumption
       DEF EnforceVelocity, FreeGate, Gated, LimitsInv, LimitsTypes
  <2>. QED
    BY <2>1, <2>2
<1>. QED
  BY <1>1, <1>3, LimitsQuietStep

LEMMA LimitsStep == ASSUME LimitsInv, [Next]_vars PROVE LimitsInv'
<1>1. CASE UNCHANGED vars
  BY <1>1 DEF vars, LimitsInv, LimitsTypes, Gated
<1>2. ASSUME NEW t \in Txn, Begin(t) PROVE LimitsInv'
  <2>1. \A kind \in Kind, amount \in Amount :
          [kind |-> kind, amount |-> amount, created |-> clock, policy |-> NoPolicy] \in PaymentType
    BY LimitsAssumption DEF LimitsInv, LimitsTypes, PaymentType, NoPolicy
  <2>2. LimitsTypes' /\ posted' = posted
    BY <1>2, <2>1 DEF Begin, LimitsInv, LimitsTypes
  <2>3. gate # t
    BY <1>2 DEF Begin, LimitsInv, Gated
  <2>4. ASSUME NEW u \in Txn PROVE Gated(u)'
    <3>1. CASE u = t
      <4>1. PICK kind \in Kind, amount \in Amount :
              /\ payment'[t] = [kind |-> kind, amount |-> amount, created |-> clock,
                                policy |-> NoPolicy]
              /\ pc'[t] = IF kind = "P2P" THEN "begun" ELSE "passed"
              /\ gate' = gate
        BY <1>2 DEF Begin, LimitsInv, LimitsTypes
      <4>. QED
        BY <2>3, <3>1, <4>1, LimitsAssumption DEF Gated
    <3>2. CASE u # t
      BY <1>2, <3>2 DEF Begin, LimitsInv, LimitsTypes, Gated
    <3>. QED
      BY <3>1, <3>2
  <2>. QED
    BY <2>2, <2>4, LimitsQuietStep
<1>3. ASSUME NEW t \in Txn, ReadPolicy(t) PROVE LimitsInv'
  <2>1. \A i \in Instance : [payment[t] EXCEPT !.policy = policy[i]] \in PaymentType
    <3>1. payment[t] \in PaymentType /\ \A i \in Instance : policy[i] \in Policies
      BY DEF LimitsInv, LimitsTypes
    <3>. QED
      BY <3>1, LimitsAssumption DEF PaymentType
  <2>2. LimitsTypes' /\ posted' = posted
    BY <1>3, <2>1 DEF ReadPolicy, LimitsInv, LimitsTypes
  <2>3. gate # t
    BY <1>3 DEF ReadPolicy, LimitsInv, Gated
  <2>4. ASSUME NEW u \in Txn PROVE Gated(u)'
    <3>1. CASE u = t
      BY <1>3, <2>3, <3>1 DEF ReadPolicy, LimitsInv, LimitsTypes, Gated, PaymentType
    <3>2. CASE u # t
      BY <1>3, <3>2 DEF ReadPolicy, LimitsInv, LimitsTypes, Gated
    <3>. QED
      BY <3>1, <3>2
  <2>. QED
    BY <2>2, <2>4, LimitsQuietStep
<1>4. ASSUME NEW t \in Txn, CheckDailyLimit(t) PROVE LimitsInv'
  BY <1>4 DEF CheckDailyLimit, LimitsInv, LimitsTypes, Gated
<1>5. ASSUME NEW t \in Txn, Rollback(t) PROVE LimitsInv'
  <2>1. LimitsTypes' /\ posted' = posted
    BY <1>5 DEF Rollback, End, LimitsInv, LimitsTypes
  <2>2. ASSUME NEW u \in Txn PROVE Gated(u)'
    BY <1>5, LimitsAssumption DEF Rollback, End, LimitsInv, LimitsTypes, Gated
  <2>. QED
    BY <2>1, <2>2, LimitsQuietStep
<1>6. ASSUME NEW i \in Instance, NEW update \in Policies, SetVelocityPolicy(i, update)
      PROVE  LimitsInv'
  BY <1>6 DEF SetVelocityPolicy, LimitsInv, LimitsTypes, Gated
<1>7. CASE Tick
  BY <1>7 DEF Tick, LimitsInv, LimitsTypes, Gated
<1>. QED
  BY <1>1, <1>2, <1>3, <1>4, <1>5, <1>6, <1>7, EnforceStep, PostStep, ReverseStep DEF Next

LEMMA LimitsInvariance == Spec => []LimitsInv
BY LimitsInitially, LimitsStep, PTL DEF Spec

\* For any number of payments at once on any processes, and any policies set meanwhile:
\* a typed transfer commits only into a window with room for it, because the count and
\* the commit are under one advisory lock (enforceVelocity, sendMoney).
THEOREM PolicyExact == Spec => []PolicyAppliedExactly
<1>1. LimitsInv => PolicyAppliedExactly
  <2>. SUFFICES ASSUME LimitsInv, NEW i \in DOMAIN posted, posted[i].kind = "P2P"
                PROVE  Cardinality({j \in 1 .. i - 1 :
                         /\ posted[j].kind = "P2P"
                         /\ posted[j].created >= posted[i].created - posted[i].policy.windowSeconds})
                       < posted[i].policy.maxTransfers
    BY DEF PolicyAppliedExactly
  <2>. QED
    BY DEF LimitsInv, Typed
<1>. QED
  BY <1>1, LimitsInvariance, PTL

-----------------------------------------------------------------------------
(* The daily limit *)

\* The typed transfers that stand: those made since x, and those of the window at x.
Since(x) ==
  {i \in DOMAIN posted :
     /\ posted[i].kind = "P2P" /\ posted[i].status = "COMPLETED" /\ posted[i].created >= x}

Within(x) ==
  {i \in DOMAIN posted :
     /\ posted[i].kind = "P2P" /\ posted[i].status = "COMPLETED"
     /\ posted[i].created \in x .. x + DayWindow}

\* A typed payment that was cleared still has room for what it sends.
Room(t) ==
  pc[t] = "cleared" /\ payment[t].kind = "P2P" =>
    SumFunctionOnSet(Amounts, Since(payment[t].created - DayWindow)) + payment[t].amount
      <= DailyLimit

DayInv ==
  /\ \A t \in Txn : Room(t)
  /\ \A x \in Nat : SumFunctionOnSet(Amounts, Within(x)) <= DailyLimit

LEMMA Outgoing ==
  ASSUME LimitsTypes
  PROVE  /\ DOMAIN posted = 1 .. Len(posted) /\ Len(posted) \in Nat /\ IsFiniteSet(DOMAIN posted)
         /\ \A i \in DOMAIN posted :
              /\ posted[i] \in PostedType /\ posted[i].created \in Nat
              /\ Amounts[i] \in Nat /\ Amounts[i] = posted[i].amount
<1>1. DOMAIN posted = 1 .. Len(posted) /\ Len(posted) \in Nat
  BY DEF LimitsTypes
<1>2. \A i \in DOMAIN posted : posted[i] \in PostedType
  BY <1>1 DEF LimitsTypes
<1>3. IsFiniteSet(1 .. Len(posted))
  BY <1>1, FS_Interval
<1>. QED
  BY <1>1, <1>2, <1>3 DEF Amounts, PostedType

LEMMA Payments ==
  ASSUME LimitsTypes, NEW t \in Txn
  PROVE  payment[t].amount \in Nat /\ payment[t].created \in Nat
BY DEF LimitsTypes, PaymentType

\* Nothing is cleared and nothing is posted: the room is what it was.
LEMMA DayQuiet ==
  ASSUME DayInv, posted' = posted,
         \A t \in Txn : pc'[t] = "cleared" => pc[t] = "cleared" /\ payment'[t] = payment[t]
  PROVE  DayInv'
BY DEF DayInv, Room, Since, Within, Amounts

\* The total that was read is no less than that of the typed transfers.
LEMMA ClearDay ==
  ASSUME LimitsInv, DayInv, NEW t \in Txn, CheckDailyLimit(t)
  PROVE  DayInv'
<1>1. posted' = posted /\ payment' = payment /\ LimitsTypes
  BY DEF CheckDailyLimit, LimitsInv
<1>2. \A u \in Txn : u # t => (pc'[u] = "cleared" => pc[u] = "cleared")
  BY <1>1 DEF CheckDailyLimit, LimitsTypes
<1>. DEFINE All == {i \in DOMAIN posted :
                      posted[i].status = "COMPLETED"
                      /\ posted[i].created >= payment[t].created - DayWindow}
            Mine == Since(payment[t].created - DayWindow)
<1>3. /\ SumFunctionOnSet(Amounts, Mine) \in Nat /\ SumFunctionOnSet(Amounts, All) \in Nat
      /\ SumFunctionOnSet(Amounts, Mine) <= SumFunctionOnSet(Amounts, All)
  <2>1. IsFiniteSet(All) /\ Mine \subseteq All
    BY <1>1, Outgoing, FS_Subset DEF Since
  <2>2. (\A i \in All : Amounts[i] \in Nat) /\ (\A i \in Mine : Amounts[i] = Amounts[i])
    BY <1>1, Outgoing
  <2>. HIDE DEF All, Mine
  <2>. QED
    BY <2>1, <2>2, SumMonotone
<1>4. SumFunctionOnSet(Amounts, All) + payment[t].amount <= DailyLimit
  BY DEF CheckDailyLimit, Spent
<1>5. SumFunctionOnSet(Amounts, Mine) + payment[t].amount <= DailyLimit
  <2>. HIDE DEF All, Mine
  <2>. QED
    BY <1>1, <1>3, <1>4, Payments, LimitsAssumption
<1>6. /\ \A x : Since(x)' = Since(x) /\ Within(x)' = Within(x)
      /\ Amounts' = Amounts
  BY <1>1 DEF Since, Within, Amounts
<1>7. ASSUME NEW u \in Txn PROVE Room(u)'
  <2>1. CASE u = t
    BY <1>1, <1>5, <1>6, <2>1 DEF Room
  <2>2. CASE u # t
    BY <1>1, <1>2, <1>6, <2>2 DEF Room, DayInv
  <2>. QED
    BY <2>1, <2>2
<1>. QED
  BY <1>6, <1>7 DEF DayInv

\* A reversal takes a transfer out of every window.
LEMMA ReverseDay ==
  ASSUME LimitsInv, DayInv, NEW i \in DOMAIN posted, Reverse(i)
  PROVE  DayInv'
<1>1. LimitsTypes /\ pc' = pc /\ payment' = payment
  BY DEF LimitsInv, Reverse
<1>2. /\ DOMAIN posted' = DOMAIN posted
      /\ \A j \in DOMAIN posted :
           /\ posted'[j].kind = posted[j].kind /\ posted'[j].created = posted[j].created
           /\ posted'[j].amount = posted[j].amount
           /\ posted'[j].status = "COMPLETED" => posted[j].status = "COMPLETED"
  <2>1. \A j \in DOMAIN posted :
          posted'[j] = IF j = i THEN [posted[i] EXCEPT !.status = "REVERSED"] ELSE posted[j]
    BY <1>1, Outgoing DEF Reverse
  <2>2. DOMAIN posted' = DOMAIN posted
    BY <1>1, Outgoing DEF Reverse
  <2>. QED
    BY <1>1, <2>1, <2>2, Outgoing DEF PostedType
<1>3. ASSUME NEW S \in SUBSET DOMAIN posted, NEW T \in SUBSET S
      PROVE  /\ SumFunctionOnSet(Amounts', T) \in Nat /\ SumFunctionOnSet(Amounts, S) \in Nat
             /\ SumFunctionOnSet(Amounts', T) <= SumFunctionOnSet(Amounts, S)
  <2>1. IsFiniteSet(S) /\ T \subseteq S
    BY <1>1, Outgoing, FS_Subset
  <2>2. (\A j \in S : Amounts[j] \in Nat) /\ (\A j \in T : Amounts'[j] = Amounts[j])
    BY <1>1, <1>2, Outgoing DEF Amounts
  <2>. QED
    BY <2>1, <2>2, SumMonotone
<1>4. \A x : /\ Since(x) \in SUBSET DOMAIN posted /\ Since(x)' \in SUBSET Since(x)
             /\ Within(x) \in SUBSET DOMAIN posted /\ Within(x)' \in SUBSET Within(x)
  BY <1>2 DEF Since, Within
<1>5. ASSUME NEW u \in Txn PROVE Room(u)'
  <2>. SUFFICES ASSUME pc[u] = "cleared", payment[u].kind = "P2P"
                PROVE  SumFunctionOnSet(Amounts', Since(payment[u].created - DayWindow)')
                         + payment[u].amount <= DailyLimit
    BY <1>1 DEF Room
  <2>1. /\ SumFunctionOnSet(Amounts', Since(payment[u].created - DayWindow)') \in Nat
        /\ SumFunctionOnSet(Amounts, Since(payment[u].created - DayWindow)) \in Nat
        /\ SumFunctionOnSet(Amounts', Since(payment[u].created - DayWindow)')
             <= SumFunctionOnSet(Amounts, Since(payment[u].created - DayWindow))
    BY <1>1, <1>3, <1>4
  <2>2. SumFunctionOnSet(Amounts, Since(payment[u].created - DayWindow)) + payment[u].amount
          <= DailyLimit
    BY DEF DayInv, Room
  <2>. QED
    BY <1>1, <2>1, <2>2, Payments, LimitsAssumption
<1>6. ASSUME NEW x \in Nat PROVE SumFunctionOnSet(Amounts', Within(x)') <= DailyLimit
  <2>1. /\ SumFunctionOnSet(Amounts', Within(x)') \in Nat
        /\ SumFunctionOnSet(Amounts, Within(x)) \in Nat
        /\ SumFunctionOnSet(Amounts', Within(x)') <= SumFunctionOnSet(Amounts, Within(x))
    BY <1>3, <1>4
  <2>2. SumFunctionOnSet(Amounts, Within(x)) <= DailyLimit
    BY DEF DayInv
  <2>. QED
    BY <2>1, <2>2, LimitsAssumption
<1>. QED
  BY <1>5, <1>6 DEF DayInv

\* Between the check of a typed payment and its commit no other typed payment commits,
\* and a window that its transfer falls into opens no earlier than a day before it.
LEMMA PostDay ==
  ASSUME LimitsInv, DayInv, NEW t \in Txn, Post(t)
  PROVE  DayInv'
<1>1. PICK n \in Nat : n = Len(posted) + 1
  BY Outgoing DEF LimitsInv
<1>2. /\ LimitsTypes /\ pc[t] = "cleared" /\ payment' = payment
      /\ pc'[t] = "committed" /\ \A u \in Txn : u # t => pc'[u] = pc[u]
  BY DEF LimitsInv, LimitsTypes, Post, End
<1>3. /\ DOMAIN posted' = DOMAIN posted \cup {n} /\ n \notin DOMAIN posted
      /\ posted'[n].kind = payment[t].kind /\ posted'[n].amount = payment[t].amount
      /\ posted'[n].created = payment[t].created
      /\ \A j \in DOMAIN posted : posted'[j] = posted[j]
  <2>. DEFINE new == [kind |-> payment[t].kind, amount |-> payment[t].amount,
                      status |-> "COMPLETED", created |-> payment[t].created,
                      policy |-> payment[t].policy]
  <2>1. posted' = Append(posted, new) /\ DOMAIN posted = 1 .. Len(posted) /\ Len(posted) \in Nat
    BY <1>2, Outgoing DEF Post
  <2>2. /\ DOMAIN posted' = 1 .. n /\ posted'[n] = new
        /\ \A j \in DOMAIN posted : posted'[j] = posted[j]
    <3>. HIDE DEF new
    <3>. QED
      BY <1>1, <1>2, <2>1 DEF LimitsTypes
  <2>. QED
    BY <1>1, <2>1, <2>2
<1>4. ASSUME NEW S \in SUBSET DOMAIN posted
      PROVE  /\ SumFunctionOnSet(Amounts, S) \in Nat
             /\ SumFunctionOnSet(Amounts', S) = SumFunctionOnSet(Amounts, S)
             /\ SumFunctionOnSet(Amounts', S \cup {n})
                  = payment[t].amount + SumFunctionOnSet(Amounts, S)
  <2>1. IsFiniteSet(S) /\ n \notin S
    BY <1>2, <1>3, Outgoing, FS_Subset
  <2>2. \A j \in S : Amounts'[j] = Amounts[j]
    BY <1>3 DEF Amounts
  <2>3. Amounts'[n] = payment[t].amount
    BY <1>3 DEF Amounts
  <2>4. \A j \in S : Amounts[j] \in Nat
    BY <1>2, Outgoing
  <2>5. SumFunctionOnSet(Amounts', S) = SumFunctionOnSet(Amounts, S)
    BY <2>1, <2>2, SumSame
  <2>6. SumFunctionOnSet(Amounts', S \cup {n}) = Amounts'[n] + SumFunctionOnSet(Amounts', S)
    <3>1. \A j \in S \cup {n} : Amounts'[j] \in Int
      BY <1>2, <2>2, <2>3, <2>4, Payments
    <3>. QED
      BY <2>1, <3>1, SumAdd
  <2>. QED
    BY <2>1, <2>3, <2>4, <2>5, <2>6, SumNat
<1>5. \A x : /\ Since(x) \in SUBSET DOMAIN posted /\ Within(x) \in SUBSET DOMAIN posted
             /\ payment[t].kind # "P2P" => Since(x)' = Since(x) /\ Within(x)' = Within(x)
             /\ Within(x)' = Within(x) \/ Within(x)' = Within(x) \cup {n}
             /\ Within(x)' # Within(x) =>
                  payment[t].kind = "P2P" /\ payment[t].created \in x .. x + DayWindow
  BY <1>3 DEF Since, Within
<1>6. ASSUME NEW u \in Txn PROVE Room(u)'
  <2>. SUFFICES ASSUME pc'[u] = "cleared", payment[u].kind = "P2P"
                PROVE  SumFunctionOnSet(Amounts', Since(payment[u].created - DayWindow)')
                         + payment[u].amount <= DailyLimit
    BY <1>2 DEF Room
  <2>1. u # t /\ pc[u] = "cleared"
    BY <1>2
  <2>2. payment[t].kind # "P2P"
    BY <1>2, <2>1 DEF LimitsInv, Gated
  <2>3. SumFunctionOnSet(Amounts', Since(payment[u].created - DayWindow)')
          = SumFunctionOnSet(Amounts, Since(payment[u].created - DayWindow))
    BY <1>2, <1>4, <1>5, <2>2
  <2>. QED
    BY <2>1, <2>3 DEF DayInv, Room
<1>7. ASSUME NEW x \in Nat PROVE SumFunctionOnSet(Amounts', Within(x)') <= DailyLimit
  <2>1. SumFunctionOnSet(Amounts, Within(x)) <= DailyLimit
    BY DEF DayInv
  <2>2. CASE Within(x)' = Within(x)
    BY <1>4, <1>5, <2>1, <2>2
  <2>3. CASE Within(x)' # Within(x)
    <3>1. payment[t].kind = "P2P" /\ payment[t].created \in x .. x + DayWindow
      BY <1>5, <2>3
    <3>. DEFINE Mine == Since(payment[t].created - DayWindow)
    <3>2. Within(x) \in SUBSET Mine
      BY <1>2, <3>1, Outgoing, Payments, LimitsAssumption DEF Since, Within
    <3>3. /\ SumFunctionOnSet(Amounts, Within(x)) \in Nat
          /\ SumFunctionOnSet(Amounts, Mine) \in Nat
          /\ SumFunctionOnSet(Amounts, Within(x)) <= SumFunctionOnSet(Amounts, Mine)
      <4>1. IsFiniteSet(Mine) /\ Within(x) \subseteq Mine
        BY <1>2, <1>5, <3>2, Outgoing, FS_Subset
      <4>2. \A j \in Mine : Amounts[j] \in Nat
        BY <1>2, <1>5, Outgoing
      <4>3. \A j \in Within(x) : Amounts[j] = Amounts[j]
        OBVIOUS
      <4>. HIDE DEF Mine
      <4>. QED
        BY <4>1, <4>2, <4>3, SumMonotone
    <3>4. SumFunctionOnSet(Amounts, Mine) + payment[t].amount <= DailyLimit
      BY <1>2, <3>1 DEF DayInv, Room
    <3>5. SumFunctionOnSet(Amounts', Within(x)')
            = payment[t].amount + SumFunctionOnSet(Amounts, Within(x))
      BY <1>4, <1>5, <2>3
    <3>. HIDE DEF Mine
    <3>. QED
      BY <1>2, <3>3, <3>4, <3>5, Payments, LimitsAssumption
  <2>. QED
    BY <2>2, <2>3
<1>. QED
  BY <1>6, <1>7 DEF DayInv

LEMMA DayStep == ASSUME LimitsInv, DayInv, [Next]_vars PROVE DayInv'
<1>. USE DEF LimitsInv, LimitsTypes
<1>1. CASE UNCHANGED vars
  BY <1>1, DayQuiet DEF vars
<1>2. ASSUME NEW t \in Txn, Begin(t) PROVE DayInv'
  BY <1>2, DayQuiet DEF Begin
<1>3. ASSUME NEW t \in Txn, ReadPolicy(t) PROVE DayInv'
  BY <1>3, DayQuiet DEF ReadPolicy
<1>4. ASSUME NEW t \in Txn, EnforceVelocity(t) PROVE DayInv'
  BY <1>4, DayQuiet DEF EnforceVelocity
<1>5. ASSUME NEW t \in Txn, Rollback(t) PROVE DayInv'
  BY <1>5, DayQuiet DEF Rollback, End
<1>6. ASSUME NEW i \in Instance, NEW update \in Policies, SetVelocityPolicy(i, update)
      PROVE  DayInv'
  BY <1>6, DayQuiet DEF SetVelocityPolicy
<1>7. CASE Tick
  BY <1>7, DayQuiet DEF Tick
<1>. QED
  BY <1>1, <1>2, <1>3, <1>4, <1>5, <1>6, <1>7, ClearDay, ReverseDay, PostDay DEF Next

LEMMA DayInvariance == Spec => []DayInv
<1>1. ASSUME Init PROVE DayInv
  <2>1. DOMAIN posted = {} /\ \A t \in Txn : pc[t] = "idle"
    BY <1>1 DEF Init
  <2>2. \A x : Within(x) = {}
    BY <2>1 DEF Within
  <2>3. \A x : SumFunctionOnSet(Amounts, Within(x)) = 0
    BY <2>2, SumEmpty
  <2>. QED
    BY <2>1, <2>3, LimitsAssumption DEF DayInv, Room
<1>. QED
  BY <1>1, LimitsInvariance, DayStep, PTL DEF Spec

\* Whatever is sent, reversed and configured at once: the typed transfers that stand in
\* any day never exceed the daily limit, because the total is read, and the transfer
\* committed, under one advisory lock (sendMoney).
THEOREM DailyLimitKept == Spec => []TypedWithinDailyLimit
<1>1. ASSUME DayInv PROVE TypedWithinDailyLimit
  <2>1. \A x : Sent({"P2P"}, x) = SumFunctionOnSet(Amounts, Within(x))
    BY DEF Sent, Within
  <2>. QED
    BY <1>1, <2>1, LimitsAssumption DEF TypedWithinDailyLimit, DayInv
<1>. QED
  BY <1>1, DayInvariance, PTL

-----------------------------------------------------------------------------

Outgo == [kind: Kind, amount: Amount, created: 0 .. MaxClock, policy: Policies \cup {NoPolicy}]

LimitsTyping ==
  /\ TypeOK
  /\ \A t \in Txn : pc[t] # "idle" => payment[t] \in Outgo

LEMMA TypingStep == ASSUME LimitsInv, LimitsTyping, [Next]_vars PROVE LimitsTyping'
<1>. USE LimitsAssumption
<1>1. /\ clock \in 0 .. MaxClock /\ posted \in Seq(Outbound)
      /\ payment \in [Txn -> PaymentType]
      /\ pc \in [Txn -> {"idle", "begun", "waiting", "passed", "cleared",
                         "committed", "rolled_back"}]
      /\ \A t \in Txn : payment[t] = NoPayment <=> pc[t] = "idle"
      /\ \A t \in Txn : pc[t] # "idle" => payment[t] \in Outgo
  BY DEF LimitsTyping, TypeOK, LimitsInv, LimitsTypes
<1>2. \A p \in Outgo : p.kind # "NONE"
  BY DEF Outgo
<1>3. ASSUME NEW t \in Txn, Begin(t) PROVE LimitsTyping'
  <2>1. PICK p \in Outgo :
          /\ payment' = [payment EXCEPT ![t] = p]
          /\ pc' = [pc EXCEPT ![t] = IF p.kind = "P2P" THEN "begun" ELSE "passed"]
    <3>1. PICK kind \in Kind, amount \in Amount :
            /\ payment' = [payment EXCEPT ![t] =
                 [kind |-> kind, amount |-> amount, created |-> clock, policy |-> NoPolicy]]
            /\ pc' = [pc EXCEPT ![t] = IF kind = "P2P" THEN "begun" ELSE "passed"]
      BY <1>3 DEF Begin
    <3>. DEFINE p == [kind |-> kind, amount |-> amount, created |-> clock, policy |-> NoPolicy]
    <3>2. p \in Outgo /\ p.kind = kind
      BY <1>1 DEF Outgo
    <3>. QED
      BY <3>1, <3>2
  <2>2. p # NoPayment
    BY <1>2 DEF NoPayment
  <2>3. /\ pc[t] = "idle" /\ UNCHANGED <<clock, posted, policy, gate>>
    BY <1>3 DEF Begin
  <2>4. gate # t
    BY <2>3 DEF LimitsInv, Gated
  <2>. QED
    BY <1>1, <2>1, <2>2, <2>3, <2>4 DEF LimitsTyping, TypeOK
<1>4. ASSUME NEW t \in Txn, ReadPolicy(t) PROVE LimitsTyping'
  <2>1. PICK i \in Instance : payment' = [payment EXCEPT ![t].policy = policy[i]]
    BY <1>4 DEF ReadPolicy
  <2>2. payment[t] \in Outgo /\ policy[i] \in Policies
    BY <1>1, <1>4 DEF ReadPolicy, LimitsInv, LimitsTypes
  <2>3. /\ payment' = [payment EXCEPT ![t] = [payment[t] EXCEPT !.policy = policy[i]]]
        /\ [payment[t] EXCEPT !.policy = policy[i]] \in Outgo
        /\ [payment[t] EXCEPT !.policy = policy[i]].kind = payment[t].kind
    BY <1>1, <2>1, <2>2 DEF Outgo
  <2>4. [payment[t] EXCEPT !.policy = policy[i]] # NoPayment
    BY <1>2, <2>3 DEF NoPayment
  <2>5. /\ pc[t] = "begun" /\ pc' = [pc EXCEPT ![t] = "waiting"]
        /\ UNCHANGED <<clock, posted, policy, gate>>
    BY <1>4 DEF ReadPolicy
  <2>6. gate # t
    BY <2>5 DEF LimitsInv, Gated
  <2>. QED
    BY <1>1, <2>3, <2>4, <2>5, <2>6 DEF LimitsTyping, TypeOK
<1>5. ASSUME NEW t \in Txn, EnforceVelocity(t) \/ CheckDailyLimit(t) PROVE LimitsTyping'
  <2>1. pc[t] = "waiting" => payment[t].kind = "P2P"
    BY DEF LimitsInv, Gated
  <2>. QED
    BY <1>1, <1>5, <2>1 DEF EnforceVelocity, CheckDailyLimit, LimitsTyping, TypeOK
<1>6. ASSUME NEW t \in Txn, NEW outcome \in {"committed", "rolled_back"}, End(t, outcome),
             pc[t] # "idle", posted' \in Seq(Outbound), UNCHANGED <<clock, policy, payment>>
      PROVE  LimitsTyping'
  BY <1>1, <1>6 DEF End, LimitsTyping, TypeOK
<1>7. ASSUME NEW t \in Txn, Post(t) PROVE LimitsTyping'
  <2>. DEFINE row == [kind |-> payment[t].kind, amount |-> payment[t].amount,
                      status |-> "COMPLETED", created |-> payment[t].created,
                      policy |-> payment[t].policy]
  <2>1. payment[t] \in Outgo
    BY <1>1, <1>7 DEF Post
  <2>2. row \in Outbound
    BY <2>1 DEF Outgo, Outbound
  <2>3. posted' \in Seq(Outbound)
    BY <1>1, <1>7, <2>2 DEF Post
  <2>. QED
    BY <1>6, <1>7, <2>3 DEF Post
<1>8. ASSUME NEW t \in Txn, Rollback(t) PROVE LimitsTyping'
  <2>1. /\ pc[t] \in {"begun", "waiting", "passed", "cleared"}
        /\ End(t, "rolled_back") /\ UNCHANGED <<clock, posted, policy, payment>>
    BY <1>8 DEF Rollback, Refused
  <2>2. posted' \in Seq(Outbound) /\ pc[t] # "idle" /\ UNCHANGED <<clock, policy, payment>>
    BY <1>1, <2>1
  <2>. QED
    BY <1>1, <2>1, <2>2 DEF End, LimitsTyping, TypeOK
<1>9. ASSUME NEW i \in DOMAIN posted, Reverse(i) PROVE LimitsTyping'
  <2>0. posted[i] \in Outbound
    BY <1>1
  <2>1. [posted[i] EXCEPT !.status = "REVERSED"] \in Outbound
    BY <2>0 DEF Outbound
  <2>2. posted' \in Seq(Outbound)
    BY <1>1, <1>9, <2>1 DEF Reverse
  <2>3. UNCHANGED <<clock, policy, gate, pc, payment>>
    BY <1>9 DEF Reverse
  <2>. QED
    BY <2>2, <2>3 DEF LimitsTyping, TypeOK
<1>10. CASE Tick
  BY <1>1, <1>10 DEF Tick, LimitsTyping, TypeOK
<1>11. CASE UNCHANGED vars
  BY <1>11 DEF vars, LimitsTyping, TypeOK
<1>12. ASSUME NEW i \in Instance, NEW update \in Policies, SetVelocityPolicy(i, update)
       PROVE  LimitsTyping'
  BY <1>12 DEF SetVelocityPolicy, LimitsTyping, TypeOK
<1>. QED
  BY <1>3, <1>4, <1>5, <1>7, <1>8, <1>9, <1>10, <1>11, <1>12 DEF Next

\* Every variable has its type, and the sender's lock is with a typed payment past its
\* gate or free: it is never left behind (pg_advisory_xact_lock).
THEOREM LimitsTyped == Spec => []TypeOK
<1>1. Init => LimitsTyping
  BY LimitsAssumption DEF Init, LimitsTyping, TypeOK
<1>2. LimitsTyping => TypeOK
  BY DEF LimitsTyping
<1>. QED
  BY <1>1, <1>2, TypingStep, LimitsInvariance, PTL DEF Spec

=============================================================================
