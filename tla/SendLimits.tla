----------------------------- MODULE SendLimits -----------------------------
(***************************************************************************)
(* How much, and how often, one account may send.  Payments of the three   *)
(* kinds run at the same time, each in its own READ COMMITTED transaction: *)
(* a transfer a person types (P2P), a money request that is accepted       *)
(* (REQUEST_SETTLEMENT) and a standing order (SCHEDULED).  Every check is  *)
(* a SELECT over the transfers committed at that moment; only the P2P path *)
(* takes the sender's advisory lock first and keeps it until COMMIT.       *)
(*                                                                         *)
(* Balances and row locks are those of Ledger.tla; here a posted payment   *)
(* is one step.  Other senders share nothing with this one.                *)
(***************************************************************************)
EXTENDS Integers, Sequences, FiniteSets, Functions

CONSTANTS
  Txn,             \* transactions
  Instance,        \* API processes, each with its own velocity policy
  Kind,            \* the kinds of payment under study
  Amount,          \* what one payment may be worth
  DailyLimit,      \* DAILY_TRANSFER_LIMIT_MINOR
  DayWindow,       \* the 24 hours of outboundInWindow
  Policies,        \* the velocity policies an operator may set
  ReversalWindow,  \* REVERSAL_WINDOW_SECONDS
  MaxClock,        \* bound: the clock stops here
  Nobody

ASSUME LimitsAssumption ==
  /\ Kind \subseteq {"P2P", "REQUEST_SETTLEMENT", "SCHEDULED"}
  /\ Amount \subseteq Nat \ {0}
  /\ Policies \subseteq [maxTransfers: Nat, windowSeconds: Nat]
  /\ DailyLimit \in Nat /\ DayWindow \in Nat
  /\ ReversalWindow \in Nat /\ MaxClock \in Nat
  /\ Nobody \notin Txn

VARIABLES
  clock,      \* time
  posted,     \* the sender's outbound transfers, in the order they committed
  policy,     \* the velocity policy each process applies
  gate,       \* the holder of the sender's advisory lock
  pc,         \* how far each transaction is
  payment     \* its kind, amount, start (now() of the transaction) and policy

vars == <<clock, posted, policy, gate, pc, payment>>

NoPolicy  == [maxTransfers |-> 0, windowSeconds |-> 0]
NoPayment == [kind |-> "NONE", amount |-> 0, created |-> 0, policy |-> NoPolicy]

Init ==
  /\ clock = 0
  /\ posted = << >>
  /\ policy \in [Instance -> Policies]
  /\ gate = Nobody
  /\ pc = [t \in Txn |-> "idle"]
  /\ payment = [t \in Txn |-> NoPayment]

-----------------------------------------------------------------------------
(* What the two queries return *)

Counted == {"P2P", "REQUEST_SETTLEMENT"}

\* count(*) of enforceVelocity: a reversed transfer still counts.
Recent(t) ==
  {i \in DOMAIN posted :
     /\ posted[i].kind \in Counted
     /\ posted[i].created >= payment[t].created - payment[t].policy.windowSeconds}

Amounts == [i \in DOMAIN posted |-> posted[i].amount]

\* Mutant: the window excludes its own first instant.
SpentAfter(t) ==
  SumFunctionOnSet(Amounts,
    {i \in DOMAIN posted :
       posted[i].status = "COMPLETED" /\ posted[i].created > payment[t].created - DayWindow})

\* outboundInWindow: a reversed transfer no longer counts.
Spent(t) ==
  SumFunctionOnSet(Amounts,
    {i \in DOMAIN posted :
       posted[i].status = "COMPLETED" /\ posted[i].created >= payment[t].created - DayWindow})

-----------------------------------------------------------------------------
(* A payment *)

Begin(t) ==
  /\ pc[t] = "idle"
  /\ \E kind \in Kind, amount \in Amount :
       /\ payment' = [payment EXCEPT ![t] =
            [kind |-> kind, amount |-> amount, created |-> clock, policy |-> NoPolicy]]
       /\ pc' = [pc EXCEPT ![t] = IF kind = "P2P" THEN "begun" ELSE "passed"]
  /\ UNCHANGED <<clock, posted, policy, gate>>

\* enforceVelocity copies the policy of its process before it waits for the lock.
ReadPolicy(t) ==
  /\ pc[t] = "begun"
  /\ pc' = [pc EXCEPT ![t] = "waiting"]
  /\ \E i \in Instance : payment' = [payment EXCEPT ![t].policy = policy[i]]
  /\ UNCHANGED <<clock, posted, policy, gate>>

\* Mutant: the count is not serialised.
UnlockedGate(t) == TRUE

\* pg_advisory_xact_lock
FreeGate(t) == gate = Nobody

EnforceVelocity(t) ==
  /\ pc[t] = "waiting" /\ FreeGate(t)
  /\ Cardinality(Recent(t)) < payment[t].policy.maxTransfers
  /\ gate' = t
  /\ pc' = [pc EXCEPT ![t] = "passed"]
  /\ UNCHANGED <<clock, posted, policy, payment>>

\* The total is read before postDoubleEntry locks the accounts.
CheckDailyLimit(t) ==
  /\ pc[t] = "passed"
  /\ Spent(t) + payment[t].amount <= DailyLimit
  /\ pc' = [pc EXCEPT ![t] = "cleared"]
  /\ UNCHANGED <<clock, posted, policy, gate, payment>>

End(t, outcome) ==
  /\ pc' = [pc EXCEPT ![t] = outcome]
  /\ gate' = IF gate = t THEN Nobody ELSE gate

\* postDoubleEntry and COMMIT; created_at is the start of the transaction.
Post(t) ==
  /\ pc[t] = "cleared"
  /\ posted' = Append(posted,
       [kind |-> payment[t].kind, amount |-> payment[t].amount, status |-> "COMPLETED",
        created |-> payment[t].created, policy |-> payment[t].policy])
  /\ End(t, "committed")
  /\ UNCHANGED <<clock, policy, payment>>

Refused(t) ==
  \/ pc[t] = "waiting" /\ FreeGate(t) /\ Cardinality(Recent(t)) >= payment[t].policy.maxTransfers
  \/ pc[t] = "passed" /\ Spent(t) + payment[t].amount > DailyLimit

\* Any other refusal, a timeout or a crash rolls the transaction back too.
Rollback(t) ==
  /\ Refused(t) \/ pc[t] \in {"begun", "waiting", "passed", "cleared"}
  /\ End(t, "rolled_back")
  /\ UNCHANGED <<clock, posted, policy, payment>>

-----------------------------------------------------------------------------
(* The surroundings *)

\* reverseTransfer, as seen from here, gives the spending room back.
Reverse(i) ==
  /\ posted[i].status = "COMPLETED"
  /\ clock - posted[i].created <= ReversalWindow
  /\ posted' = [posted EXCEPT ![i].status = "REVERSED"]
  /\ UNCHANGED <<clock, policy, gate, pc, payment>>

\* PATCH /admin/policy/velocity changes the process that serves it, and no other.
SetVelocityPolicy(i, update) ==
  /\ policy' = [policy EXCEPT ![i] = update]
  /\ UNCHANGED <<clock, posted, gate, pc, payment>>

Tick ==
  /\ clock < MaxClock /\ clock' = clock + 1
  /\ UNCHANGED <<posted, policy, gate, pc, payment>>

Next ==
  \/ \E t \in Txn :
       \/ Begin(t) \/ ReadPolicy(t) \/ EnforceVelocity(t)
       \/ CheckDailyLimit(t) \/ Post(t) \/ Rollback(t)
  \/ \E i \in DOMAIN posted : Reverse(i)
  \/ \E i \in Instance, update \in Policies : SetVelocityPolicy(i, update)
  \/ Tick

Spec == Init /\ [][Next]_vars

-----------------------------------------------------------------------------
(* Properties *)

Outbound ==
  [kind: Kind, amount: Amount, status: {"COMPLETED", "REVERSED"},
   created: 0 .. MaxClock, policy: Policies \cup {NoPolicy}]

\* Every variable has its type, and the lock is held by a P2P payment past its gate.
TypeOK ==
  /\ clock \in 0 .. MaxClock
  /\ posted \in Seq(Outbound)
  /\ policy \in [Instance -> Policies]
  /\ gate \in Txn \cup {Nobody}
  /\ pc \in [Txn -> {"idle", "begun", "waiting", "passed", "cleared",
                     "committed", "rolled_back"}]
  /\ \A t \in Txn : payment[t] = NoPayment <=> pc[t] = "idle"
  /\ \A t \in Txn : gate = t => payment[t].kind = "P2P" /\ pc[t] \in {"passed", "cleared"}

\* A policy is applied exactly: no typed transfer commits when the window before it
\* already holds as many typed transfers as its process allowed, with any number of
\* requests at once on any number of processes (velocity.service.ts, "the count and
\* the write have to be atomic with respect to each other").
PolicyAppliedExactly ==
  \A i \in DOMAIN posted : posted[i].kind = "P2P" =>
    Cardinality({j \in 1 .. i - 1 :
      /\ posted[j].kind = "P2P"
      /\ posted[j].created >= posted[i].created - posted[i].policy.windowSeconds})
        < posted[i].policy.maxTransfers

\* The worth of the standing transfers of these kinds in the window that opens at x.
Sent(kinds, x) ==
  SumFunctionOnSet(Amounts,
    {i \in DOMAIN posted :
       posted[i].kind \in kinds /\ posted[i].status = "COMPLETED"
       /\ posted[i].created \in x .. x + DayWindow})

\* Typed transfers alone never exceed the daily limit in any window of that length:
\* sendMoney reads the total while it holds the advisory lock.
TypedWithinDailyLimit == \A x \in 0 .. MaxClock : Sent({"P2P"}, x) <= DailyLimit

\* All payments together stay within the daily limit (transfer.repo.ts, "concurrent
\* transfers cannot each observe the same pre-spend total and both pass the limit").
WithinDailyLimit == \A x \in 0 .. MaxClock : Sent(Kind, x) <= DailyLimit
=============================================================================
