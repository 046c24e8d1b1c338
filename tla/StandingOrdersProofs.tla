------------------------ MODULE StandingOrdersProofs ------------------------
(***************************************************************************)
(* Proofs about Schedules: what is paid, counted, told and shown of        *)
(* standing orders, for any schedules, intervals, grace and number of      *)
(* processes that run the worker; and about Calendar: the dates of an      *)
(* order, for any years and days of the month.                             *)
(***************************************************************************)
EXTENDS Schedules, Calendar, Sums

-----------------------------------------------------------------------------
(* The inductive invariant *)

Statuses == {"ACTIVE", "PAUSED", "CANCELLED", "COMPLETED"}

\* What the proofs need to know of a row; retryAfter is only ever compared with the clock.
Typed(x) ==
  /\ DOMAIN x = {"kind", "status", "nextRunAt", "retryAfter", "remaining", "total"}
  /\ x.kind \in {"ONCE", "RECURRING"} /\ x.status \in Statuses
  /\ x.nextRunAt \in Nat /\ x.total \in Nat \cup {Unlimited}

Types ==
  /\ clock \in Nat
  /\ DOMAIN schedule \subseteq Schedule
  /\ \A s \in DOMAIN schedule : Typed(schedule[s])
  /\ DOMAIN occurrence \subseteq (DOMAIN schedule) \X Nat /\ IsFiniteSet(DOMAIN occurrence)
  /\ \A k \in DOMAIN payments : payments[k] = 1
  /\ DOMAIN payments \subseteq DOMAIN occurrence /\ IsFiniteSet(DOMAIN payments)
  /\ DOMAIN told \subseteq DOMAIN occurrence
  /\ found \in [Worker -> SUBSET DOMAIN schedule]
  /\ run \in [Worker -> [id: DOMAIN schedule, due: Nat, at: Nat, inTime: Int] \cup {NoRun}]

\* An open run holds an ACTIVE schedule, alone, as it found it.
RunsHold ==
  \A w \in Worker : run[w] # NoRun =>
    /\ schedule[run[w].id].status = "ACTIVE" /\ schedule[run[w].id].nextRunAt = run[w].due
    /\ run[w].due <= clock
    /\ \A v \in Worker : run[v] # NoRun /\ run[v].id = run[w].id => v = w

\* What a run goes on with is an occurrence that has no outcome, and was in time.
Undecided(w) ==
  /\ ~ AlreadySettled(w)
  /\ run[w].inTime \in run[w].due .. run[w].due + Grace

RunsDecided ==
  \A w \in Worker : run[w] # NoRun /\ run[w].inTime # Unchecked => Undecided(w)

\* Payments and runs left make up what was asked for.
Terms(s) ==
  (schedule[s].kind = "RECURRING" /\ schedule[s].total # Unlimited) =>
    /\ schedule[s].remaining \in Nat
    /\ schedule[s].remaining + Cardinality(Payments(s)) = schedule[s].total
    /\ schedule[s].status = "COMPLETED" <=> schedule[s].remaining = 0

\* Payments are an interval apart, and the next run will be one after all of them.
Spaced(s) ==
  s \notin nudged =>
    /\ \A k \in Payments(s) :
         IF schedule[s].kind = "ONCE" THEN schedule[s].status = "COMPLETED"
         ELSE k[2] + Interval <= schedule[s].nextRunAt
    /\ \A j, k \in Payments(s) : j[2] < k[2] => k[2] - j[2] >= Interval

\* What the owner has read of the schedule is no more than has been paid.
ViewSound ==
  /\ DOMAIN view = {"of", "read", "used", "listed", "paid"} /\ view.read \in 0 .. 2
  /\ view.read > 0 => view.of \in DOMAIN schedule /\ view.used \in Int
  /\ view.read = 1 => view.used <= Cardinality(Payments(view.of))
  /\ view.read = 2 => view.paid \in Nat
  /\ DetailExplained

OrdersInv ==
  /\ Types /\ RunsHold /\ RunsDecided /\ PaidOnce
  /\ \A s \in DOMAIN schedule : Terms(s) /\ Spaced(s)
  /\ ViewSound

-----------------------------------------------------------------------------
(* Lemmas *)

\* What an update that pays nothing may do to a row.
Follows(s) ==
  LET x == schedule[s] IN LET y == schedule'[s] IN
    /\ Typed(y) /\ y.kind = x.kind /\ y.total = x.total
    /\ y.kind = "RECURRING" => /\ y.remaining = x.remaining
                               /\ x.total # Unlimited =>
                                    (y.status = "COMPLETED" <=> x.status = "COMPLETED")
    /\ x.status = "COMPLETED" => y.status = "COMPLETED"
    /\ s \notin nudged' => x.nextRunAt <= y.nextRunAt

LEMMA SameFollows ==
  ASSUME Types, NEW s \in DOMAIN schedule, schedule'[s] = schedule[s]
  PROVE  Follows(s)
BY DEF Follows, Types, Typed

LEMMA PaymentsFinite ==
  ASSUME Types, NEW s
  PROVE  IsFiniteSet(Payments(s)) /\ Cardinality(Payments(s)) \in Nat
<1>1. Payments(s) \in SUBSET DOMAIN payments
  BY DEF Payments
<1>. QED
  BY <1>1, FS_Subset, FS_CardinalityType DEF Types

LEMMA InitOrders == Init => OrdersInv
<1>. SUFFICES ASSUME Init PROVE OrdersInv
  OBVIOUS
<1>1. /\ DOMAIN schedule = {} /\ DOMAIN occurrence = {}
      /\ DOMAIN payments = {} /\ DOMAIN told = {}
  BY DEF Init
<1>2. Types
  BY <1>1, FS_EmptySet DEF Init, Types
<1>3. RunsHold /\ RunsDecided /\ PaidOnce
  BY <1>1 DEF Init, RunsHold, RunsDecided, PaidOnce
<1>4. ViewSound
  BY DEF Init, ViewSound, NoView, DetailExplained
<1>. QED
  BY <1>1, <1>2, <1>3, <1>4 DEF OrdersInv

\* Where nothing is paid, counts and distances stay.
LEMMA NothingPaid ==
  ASSUME OrdersInv, payments' = payments, nudged \subseteq nudged',
         NEW s \in DOMAIN schedule, Follows(s)
  PROVE  Terms(s)' /\ Spaced(s)'
<1>1. Payments(s)' = Payments(s) /\ \A k \in Payments(s) : k[2] \in Nat
  BY DEF Payments, OrdersInv, Types
<1>2. Terms(s) /\ Spaced(s) /\ Typed(schedule[s]) /\ Interval \in Nat
  BY SchedulesAssumption DEF OrdersInv, Types
<1>3. Terms(s)'
  BY <1>1, <1>2 DEF Terms, Follows, Typed
<1>4. Spaced(s)'
  BY <1>1, <1>2 DEF Spaced, Follows, Typed
<1>. QED
  BY <1>3, <1>4

\* The owner's view stays sound while payments are added.
LEMMA ViewStays ==
  ASSUME OrdersInv, view' = view, DOMAIN schedule \subseteq DOMAIN schedule', Types',
         DOMAIN payments \subseteq DOMAIN payments'
  PROVE  ViewSound'
<1>1. ViewSound /\ Types
  BY DEF OrdersInv
<1>2. ASSUME NEW A \in SUBSET Payments(view.of)'
      PROVE  /\ Cardinality(Payments(view.of)') \in Nat
             /\ IsFiniteSet(A) /\ Cardinality(A) <= Cardinality(Payments(view.of)')
  <2>1. Payments(view.of)' \in SUBSET DOMAIN payments' /\ IsFiniteSet(DOMAIN payments')
    BY DEF Payments, Types
  <2>. QED
    BY <1>2, <2>1, FS_Subset, FS_CardinalityType
<1>3. Payments(view.of) \in SUBSET Payments(view.of)'
  BY DEF Payments
<1>4. ASSUME view.read = 1
      PROVE  view.used <= Cardinality(Payments(view.of))'
  <2>1. Cardinality(Payments(view.of)) <= Cardinality(Payments(view.of)')
    BY <1>2, <1>3
  <2>2. /\ Cardinality(Payments(view.of)) \in Nat /\ Cardinality(Payments(view.of)') \in Nat
        /\ view.used \in Int /\ view.used <= Cardinality(Payments(view.of))
    BY <1>1, <1>2, <1>3, <1>4, PaymentsFinite DEF ViewSound
  <2>. QED
    BY <2>1, <2>2
<1>5. DetailExplained'
  <2>. SUFFICES ASSUME view.read = 2, ~ view.paid >= view.used
                PROVE  /\ Cardinality(view.listed) = ListSize
                       /\ view.paid + Cardinality(LeftOut') >= view.used
    BY DEF DetailExplained
  <2>1. /\ view.paid \in Nat /\ view.used \in Int
        /\ Cardinality(view.listed) = ListSize
        /\ view.paid + Cardinality(LeftOut) >= view.used
    BY <1>1 DEF ViewSound, DetailExplained
  <2>2. LeftOut \in SUBSET LeftOut' /\ LeftOut' \in SUBSET Payments(view.of)'
    BY <1>3 DEF LeftOut
  <2>3. IsFiniteSet(LeftOut')
    BY <1>2, <2>2
  <2>4. /\ Cardinality(LeftOut) \in Nat /\ Cardinality(LeftOut') \in Nat
        /\ Cardinality(LeftOut) <= Cardinality(LeftOut')
    BY <2>2, <2>3, FS_Subset, FS_CardinalityType
  <2>. QED
    BY <2>1, <2>4
<1>. QED
  BY <1>1, <1>4, <1>5 DEF ViewSound

\* A run under way keeps its occurrence from having an outcome.
LEMMA DecidedStays ==
  ASSUME OrdersInv,
         \A w \in Worker : run'[w] # NoRun /\ run'[w].inTime # Unchecked =>
           /\ run'[w] = run[w]
           /\ OccurrenceKey(w) \in DOMAIN occurrence' =>
                /\ OccurrenceKey(w) \in DOMAIN occurrence
                /\ occurrence'[OccurrenceKey(w)] = occurrence[OccurrenceKey(w)]
  PROVE  RunsDecided'
<1>. SUFFICES ASSUME NEW w \in Worker, run'[w] # NoRun, run'[w].inTime # Unchecked
              PROVE  Undecided(w)'
  BY DEF RunsDecided
<1>1. run'[w] = run[w] /\ Undecided(w)
  BY DEF OrdersInv, RunsDecided
<1>2. OccurrenceKey(w)' = OccurrenceKey(w)
  BY <1>1 DEF OccurrenceKey
<1>3. ~ AlreadySettled(w)'
  BY <1>1, <1>2 DEF Undecided, AlreadySettled
<1>. QED
  BY <1>1, <1>3 DEF Undecided

-----------------------------------------------------------------------------
(* The owner and the operator *)

LEMMA CreateKeeps ==
  ASSUME OrdersInv, NEW s \in Schedule, CreateSchedule(s)
  PROVE  OrdersInv'
<1>1. Types /\ RunsHold /\ PaidOnce
  BY DEF OrdersInv
<1>2. PICK repeat \in {"ONCE", "RECURRING"}, delay \in Start :
      \E total \in IF repeat = "ONCE" THEN {1} ELSE Runs \cup {Unlimited} :
        schedule' = With(schedule, s, Inserted(repeat, delay, total))
  BY DEF CreateSchedule
<1>3. PICK total \in IF repeat = "ONCE" THEN {1} ELSE Runs \cup {Unlimited} :
        schedule' = With(schedule, s, Inserted(repeat, delay, total))
  BY <1>2
<1>4. /\ UNCHANGED <<clock, occurrence, payments, told, found, run, view, nudged>>
      /\ s \notin DOMAIN schedule
  BY DEF CreateSchedule, work
<1>5. /\ DOMAIN schedule' = DOMAIN schedule \cup {s}
      /\ \A x \in DOMAIN schedule : schedule'[x] = schedule[x]
      /\ schedule'[s] = Inserted(repeat, delay, total)
  BY <1>3, <1>4 DEF With
<1>6. total \in Nat \cup {Unlimited} /\ delay \in Nat
      /\ (repeat = "RECURRING" /\ total # Unlimited => total \in Nat \ {0})
  BY SchedulesAssumption
<1>7. Typed(schedule'[s])
  BY <1>1, <1>5, <1>6 DEF Types, Typed, Inserted, Statuses
<1>8. Types'
  <2>1. \A x \in DOMAIN schedule' : Typed(schedule'[x])
    BY <1>1, <1>5, <1>7 DEF Types
  <2>2. DOMAIN occurrence' \subseteq (DOMAIN schedule') \X Nat
    BY <1>1, <1>4, <1>5 DEF Types
  <2>3. run' \in [Worker -> [id: DOMAIN schedule', due: Nat, at: Nat, inTime: Int] \cup {NoRun}]
    BY <1>1, <1>4, <1>5 DEF Types
  <2>4. found' \in [Worker -> SUBSET DOMAIN schedule']
    BY <1>1, <1>4, <1>5 DEF Types
  <2>. QED
    BY <1>1, <1>4, <1>5, <2>1, <2>2, <2>3, <2>4 DEF Types
<1>9. RunsHold'
  <2>1. \A w \in Worker : run[w] # NoRun => run[w].id \in DOMAIN schedule
    BY <1>1 DEF Types
  <2>. QED
    BY <1>1, <1>4, <1>5, <2>1 DEF RunsHold
<1>10. PaidOnce'
  BY <1>1, <1>4 DEF PaidOnce, Count, Events
<1>11. ASSUME NEW x \in DOMAIN schedule PROVE Terms(x)' /\ Spaced(x)'
  <2>1. Follows(x)
    BY <1>1, <1>5, SameFollows
  <2>. QED
    BY <1>4, <2>1, NothingPaid
<1>12. Terms(s)' /\ Spaced(s)'
  <2>1. Payments(s)' = {}
    BY <1>1, <1>4 DEF Payments, Types
  <2>2. Cardinality(Payments(s)') = 0
    BY <2>1, FS_EmptySet
  <2>. QED
    BY <1>5, <1>6, <2>1, <2>2 DEF Terms, Spaced, Inserted
<1>13. ViewSound' /\ RunsDecided'
  BY <1>4, <1>5, <1>8, ViewStays, DecidedStays
<1>. QED
  BY <1>5, <1>8, <1>9, <1>10, <1>11, <1>12, <1>13 DEF OrdersInv

\* A row nobody holds is updated, and nothing is paid.
LEMMA UpdateKeeps ==
  ASSUME OrdersInv, NEW s \in DOMAIN schedule, ~ Locked(s), NEW y,
         schedule' = [schedule EXCEPT ![s] = y], Follows(s), nudged \subseteq nudged',
         UNCHANGED <<clock, occurrence, payments, told, work, view>>
  PROVE  OrdersInv'
<1>1. Types /\ RunsHold /\ PaidOnce
  BY DEF OrdersInv
<1>2. DOMAIN schedule' = DOMAIN schedule
      /\ \A x \in DOMAIN schedule \ {s} : schedule'[x] = schedule[x]
  OBVIOUS
<1>3. \A x \in DOMAIN schedule : Follows(x)
  BY <1>1, <1>2, SameFollows
<1>4. Types'
  <2>1. \A x \in DOMAIN schedule' : Typed(schedule'[x])
    BY <1>2, <1>3 DEF Follows
  <2>. QED
    BY <1>1, <1>2, <2>1 DEF Types, work
<1>5. RunsHold'
  <2>1. \A w \in Worker : run[w] # NoRun => run[w].id \in DOMAIN schedule \ {s}
    BY <1>1 DEF Types, Locked
  <2>. QED
    BY <1>1, <1>2, <2>1 DEF RunsHold, work
<1>6. PaidOnce'
  BY <1>1 DEF PaidOnce, Count, Events
<1>7. ViewSound' /\ RunsDecided'
  BY <1>2, <1>4, ViewStays, DecidedStays DEF work
<1>8. \A x \in DOMAIN schedule : Terms(x)' /\ Spaced(x)'
  BY <1>3, NothingPaid
<1>. QED
  BY <1>2, <1>4, <1>5, <1>6, <1>7, <1>8 DEF OrdersInv

LEMMA OwnerKeeps ==
  ASSUME OrdersInv, NEW s \in Schedule,
         BringForward(s) \/ \E to \in {"ACTIVE", "PAUSED", "CANCELLED"} : Transition(s, to)
  PROVE  OrdersInv'
<1>1. Types /\ s \in DOMAIN schedule /\ ~ Locked(s) /\ Typed(schedule[s])
  BY DEF OrdersInv, BringForward, Transition, Types
<1>2. CASE BringForward(s)
  <2>. DEFINE y == [schedule[s] EXCEPT !.nextRunAt = clock - 1, !.retryAfter = 0]
  <2>1. schedule' = [schedule EXCEPT ![s] = y] /\ schedule'[s] = y
    BY <1>1, <1>2 DEF BringForward
  <2>2. clock - 1 \in Nat
    BY <1>1, <1>2 DEF BringForward, Types
  <2>3. Follows(s)
    BY <1>1, <1>2, <2>1, <2>2 DEF BringForward, Follows, Typed
  <2>. QED
    BY <1>1, <1>2, <2>1, <2>3, UpdateKeeps DEF BringForward
<1>3. ASSUME NEW to \in {"ACTIVE", "PAUSED", "CANCELLED"}, Transition(s, to)
      PROVE  OrdersInv'
  <2>1. schedule' = [schedule EXCEPT ![s] = Transitioned(s, to)]
        /\ schedule'[s] = Transitioned(s, to)
    BY <1>1, <1>3 DEF Transition
  <2>2. Follows(s)
    <3>1. CASE schedule[s].status \in LegalFrom(to)
      <4>1. /\ schedule[s].status # "COMPLETED" /\ to # "COMPLETED" /\ to \in Statuses
        BY <3>1 DEF LegalFrom, Statuses
      <4>2. NextRunAfter(s, to) \in Nat /\ schedule[s].nextRunAt <= NextRunAfter(s, to)
        BY <1>1 DEF NextRunAfter, Types, Typed
      <4>. QED
        BY <1>1, <2>1, <3>1, <4>1, <4>2 DEF Transitioned, Follows, Typed
    <3>2. CASE schedule[s].status \notin LegalFrom(to)
      BY <1>1, <2>1, <3>2, SameFollows DEF Transitioned
    <3>. QED
      BY <3>1, <3>2
  <2>. QED
    BY <1>1, <1>3, <2>1, <2>2, UpdateKeeps DEF Transition
<1>. QED
  BY <1>2, <1>3

\* The list is all occurrences, or as many as it may hold; what it leaves out is older.
LEMMA ListIs ==
  ASSUME Types, NEW s \in DOMAIN schedule
  PROVE  /\ IsFiniteSet(ListOccurrences(s)) /\ ListOccurrences(s) \subseteq Occurrences(s)
         /\ \/ ListOccurrences(s) = Occurrences(s)
            \/ Cardinality(ListOccurrences(s)) = ListSize
         /\ \A k \in Occurrences(s) \ ListOccurrences(s) :
              \A j \in ListOccurrences(s) : k[2] < j[2]
<1>. DEFINE D == Occurrences(s)
            R == {p \in D \X D : p[2][2] < p[1][2]}
<1>1. D \in SUBSET DOMAIN occurrence
  BY DEF Occurrences
<1>2. IsFiniteSet(D) /\ Cardinality(D) \in Nat
  BY <1>1, FS_Subset, FS_CardinalityType DEF Types
<1>3. /\ \A k \in D : k[1] = s /\ k[2] \in Nat
      /\ \A j, k \in D : j[2] = k[2] => j = k
  BY DEF Types, Occurrences
<1>4. \A j, k \in D : <<j, k>> \in R <=> k[2] < j[2]
  OBVIOUS
<1>. HIDE DEF R
<1>5. Orders(R, D)
  BY <1>3, <1>4 DEF Orders
<1>6. \A k \in D : Rank(R, D, k) = Cardinality({j \in D : k[2] < j[2]})
  <2>. SUFFICES ASSUME NEW k \in D PROVE Rank(R, D, k) = Cardinality({j \in D : k[2] < j[2]})
    OBVIOUS
  <2>1. {j \in D : <<j, k>> \in R} = {j \in D : k[2] < j[2]}
    BY <1>4
  <2>. QED
    BY <2>1 DEF Rank
<1>. HIDE DEF D
<1>7. ListOccurrences(s) = {k \in D : Rank(R, D, k) < ListSize}
  BY <1>6 DEF ListOccurrences, D
<1>8. ListSize \in Nat
  BY SchedulesAssumption
<1>9. ListOccurrences(s) = D \/ Cardinality(ListOccurrences(s)) = ListSize
  <2>1. CASE Cardinality(D) <= ListSize
    <3>1. \A k \in D : Rank(R, D, k) \in 0 .. Cardinality(D) - 1
      BY <1>2, <1>5, RankType
    <3>2. \A k \in D : Rank(R, D, k) < ListSize
      BY <1>2, <1>8, <2>1, <3>1
    <3>. QED
      BY <1>7, <3>2
  <2>2. CASE ~ Cardinality(D) <= ListSize
    <3>1. ListSize \in 0 .. Cardinality(D)
      BY <1>2, <1>8, <2>2
    <3>. QED
      BY <1>2, <1>5, <1>7, <3>1, RankBelow
  <2>. QED
    BY <2>1, <2>2
<1>10. ASSUME NEW k \in D \ ListOccurrences(s), NEW j \in ListOccurrences(s)
       PROVE  k[2] < j[2]
  <2>1. j \in D /\ Rank(R, D, j) < ListSize /\ ~ Rank(R, D, k) < ListSize
    BY <1>7, <1>10
  <2>2. Rank(R, D, j) \in Int /\ Rank(R, D, k) \in Int
    BY <1>2, <1>5, <2>1, RankType
  <2>3. <<k, j>> \notin R
    <3>. SUFFICES ASSUME <<k, j>> \in R PROVE FALSE
      OBVIOUS
    <3>1. Rank(R, D, k) < Rank(R, D, j)
      BY <1>2, <1>5, <2>1, RankAscends
    <3>. QED
      BY <1>8, <2>1, <2>2, <3>1
  <2>4. <<j, k>> \in R
    BY <1>5, <2>1, <2>3 DEF Orders
  <2>. QED
    BY <1>4, <2>1, <2>4
<1>11. ListOccurrences(s) \in SUBSET D
  BY <1>7
<1>. QED
  BY <1>2, <1>9, <1>10, <1>11, FS_Subset DEF D

\* What the schedule says is used up has been paid for, and the list shows the payments,
\* or is full and leaves out the oldest.
LEMMA UsedIsPaid ==
  ASSUME OrdersInv, NEW s \in DOMAIN schedule
  PROVE  LET list == ListOccurrences(s)
             older == {k \in Payments(s) : \A j \in list : k[2] < j[2]}
         IN  /\ RunsUsed(s) \in Int /\ RunsUsed(s) <= Cardinality(Payments(s))
             /\ Cardinality(Payments(s)) \in Nat
             /\ PaidAmong(list) \in Nat /\ Cardinality(older) \in Nat
             /\ \/ Cardinality(Payments(s)) <= PaidAmong(list)
                \/ /\ Cardinality(list) = ListSize
                   /\ Cardinality(Payments(s)) <= PaidAmong(list) + Cardinality(older)
<1>. DEFINE list == ListOccurrences(s)
            older == {k \in Payments(s) : \A j \in list : k[2] < j[2]}
            shown == {k \in list : occurrence[k].status = "PAID"}
<1>1. Types /\ PaidOnce /\ Terms(s) /\ Typed(schedule[s])
  BY DEF OrdersInv, Types
<1>2. Cardinality(Payments(s)) \in Nat /\ IsFiniteSet(Payments(s))
  BY <1>1, PaymentsFinite
<1>3. RunsUsed(s) \in Int /\ RunsUsed(s) <= Cardinality(Payments(s))
  BY <1>1, <1>2 DEF RunsUsed, Terms, Typed
<1>4. \A k \in DOMAIN occurrence : k \in DOMAIN payments <=> occurrence[k].status = "PAID"
  BY <1>1 DEF PaidOnce, Count, Types
<1>5. Payments(s) = {k \in Occurrences(s) : occurrence[k].status = "PAID"}
  BY <1>1, <1>4 DEF Occurrences, Payments, Types
<1>6. /\ IsFiniteSet(list) /\ list \subseteq Occurrences(s)
      /\ list = Occurrences(s) \/ Cardinality(list) = ListSize
      /\ \A k \in Occurrences(s) \ list : \A j \in list : k[2] < j[2]
  BY <1>1, ListIs
<1>. HIDE DEF list
<1>7. PaidAmong(list) = Cardinality(shown)
  BY DEF PaidAmong
<1>8. shown \in SUBSET Payments(s) /\ older \in SUBSET Payments(s)
  BY <1>5, <1>6
<1>9. list # Occurrences(s) => Payments(s) = shown \cup older
  BY <1>5, <1>6
<1>10. list = Occurrences(s) => shown = Payments(s)
  BY <1>5
<1>. HIDE DEF shown, older
<1>11. /\ IsFiniteSet(shown) /\ IsFiniteSet(older)
       /\ Cardinality(shown) \in Nat /\ Cardinality(older) \in Nat
  BY <1>2, <1>8, FS_Subset, FS_CardinalityType
<1>12. /\ IsFiniteSet(shown \cap older) /\ Cardinality(shown \cap older) \in Nat
       /\ Cardinality(shown \cup older)
            = Cardinality(shown) + Cardinality(older) - Cardinality(shown \cap older)
  <2>1. shown \cap older \in SUBSET shown
    OBVIOUS
  <2>. QED
    BY <1>11, <2>1, FS_Subset, FS_CardinalityType, FS_Union
<1>13. \/ Cardinality(Payments(s)) <= Cardinality(shown)
       \/ /\ Cardinality(list) = ListSize
          /\ Cardinality(Payments(s)) <= Cardinality(shown) + Cardinality(older)
  <2>1. CASE list = Occurrences(s)
    BY <1>10, <1>11, <2>1
  <2>2. CASE list # Occurrences(s)
    <3>1. Cardinality(list) = ListSize
      BY <1>6, <2>2
    <3>2. Cardinality(Payments(s)) = Cardinality(shown \cup older)
      BY <1>9, <2>2
    <3>. QED
      BY <1>11, <1>12, <3>1, <3>2
  <2>. QED
    BY <2>1, <2>2
<1>. QED
  BY <1>2, <1>3, <1>7, <1>11, <1>13 DEF list, older

\* Two statements, in ReadOrder, with the worker's commits in between.
LEMMA LookKeeps ==
  ASSUME OrdersInv, NEW s \in Schedule, GetSchedule(s)
  PROVE  OrdersInv'
<1>1. Types /\ RunsHold /\ PaidOnce /\ ViewSound /\ s \in DOMAIN schedule
  BY DEF OrdersInv, GetSchedule
<1>2. UNCHANGED <<clock, rows, work, nudged>>
  BY DEF GetSchedule
<1>3. Types' /\ RunsHold' /\ RunsDecided' /\ PaidOnce'
  BY <1>1, <1>2, DecidedStays DEF Types, RunsHold, PaidOnce, Count, Events, rows, work
<1>4. ASSUME NEW x \in DOMAIN schedule PROVE Terms(x)' /\ Spaced(x)'
  <2>1. Follows(x)
    BY <1>1, <1>2, SameFollows DEF rows
  <2>. QED
    BY <1>2, <2>1, NothingPaid DEF rows
<1>5. Payments(s)' = Payments(s)
  BY <1>2 DEF Payments, rows
<1>. PICK list : list = ListOccurrences(s)
  OBVIOUS
<1>. PICK older : older = {k \in Payments(s) : \A j \in list : k[2] < j[2]}
  OBVIOUS
<1>6. /\ RunsUsed(s) \in Int /\ RunsUsed(s) <= Cardinality(Payments(s))
      /\ Cardinality(Payments(s)) \in Nat
      /\ PaidAmong(list) \in Nat /\ Cardinality(older) \in Nat
      /\ \/ Cardinality(Payments(s)) <= PaidAmong(list)
         \/ /\ Cardinality(list) = ListSize
            /\ Cardinality(Payments(s)) <= PaidAmong(list) + Cardinality(older)
  BY <1>1, UsedIsPaid
<1>7. ViewSound'
  <2>1. CASE view.read = 0
    <3>1. view' = [view EXCEPT !.of = s, !.read = @ + 1, !.used = RunsUsed(s)]
      BY <2>1 DEF GetSchedule, ReadOrder
    <3>2. DOMAIN view' = DOMAIN view /\ view'.of = s /\ view'.read = 1
          /\ view'.used = RunsUsed(s)
      BY <1>1, <2>1, <3>1 DEF ViewSound
    <3>. QED
      BY <1>1, <1>2, <1>5, <1>6, <3>2 DEF ViewSound, DetailExplained, rows
  <2>2. CASE view.read = 1
    <3>1. view' = [view EXCEPT !.of = s, !.read = @ + 1, !.listed = list,
                               !.paid = PaidAmong(list)]
      BY <2>2 DEF GetSchedule, ReadOrder
    <3>2. /\ DOMAIN view' = DOMAIN view /\ view'.of = s /\ view'.read = 2
          /\ view'.used = view.used /\ view'.paid = PaidAmong(list) /\ view'.listed = list
      BY <1>1, <2>2, <3>1 DEF ViewSound
    <3>3. view.of = s
      BY <1>1, <2>2, SchedulesAssumption DEF ViewSound, GetSchedule, Types
    <3>4. LeftOut' = older
      BY <1>5, <3>2 DEF LeftOut
    <3>5. view.used \in Int /\ view.used <= Cardinality(Payments(s))
      BY <1>1, <2>2, <3>3 DEF ViewSound
    <3>6. \/ PaidAmong(list) >= view.used
          \/ /\ Cardinality(list) = ListSize
             /\ PaidAmong(list) + Cardinality(older) >= view.used
      BY <1>6, <3>5
    <3>7. DetailExplained'
      BY <3>2, <3>4, <3>6 DEF DetailExplained
    <3>. QED
      BY <1>1, <1>2, <1>6, <3>2, <3>5, <3>7 DEF ViewSound, rows
  <2>. QED
    BY <1>1, <2>1, <2>2 DEF ViewSound, GetSchedule
<1>. QED
  BY <1>2, <1>3, <1>4, <1>7 DEF OrdersInv, rows

-----------------------------------------------------------------------------
(* The worker *)

\* A claim, a crash, the list and the clock: the rows stay.
LEMMA IdleSteps ==
  ASSUME OrdersInv,
         UNCHANGED <<rows, view, nudged>>,
         clock' \in Nat, clock <= clock',
         found' \in [Worker -> SUBSET DOMAIN schedule],
         run' \in [Worker -> [id: DOMAIN schedule, due: Nat, at: Nat, inTime: Int] \cup {NoRun}],
         NEW w,
         \A v \in Worker \ {w} : run'[v] = run[v],
         (w \in Worker /\ run'[w] # NoRun /\ run'[w] # run[w]) =>
           /\ ~ Locked(run'[w].id) /\ Due(run'[w].id)
           /\ run'[w].due = schedule[run'[w].id].nextRunAt /\ run'[w].inTime = Unchecked
  PROVE  OrdersInv'
<1>1. Types /\ RunsHold /\ PaidOnce
  BY DEF OrdersInv
<1>2. Types' /\ PaidOnce'
  BY <1>1 DEF Types, PaidOnce, Count, Events, rows
<1>3. RunsHold'
  <2>1. \A v \in Worker : run'[v] # NoRun =>
          /\ schedule[run'[v].id].status = "ACTIVE"
          /\ schedule[run'[v].id].nextRunAt = run'[v].due
          /\ run'[v].due <= clock
    BY <1>1 DEF RunsHold, Due
  <2>2. \A v, u \in Worker :
          run'[v] # NoRun /\ run'[u] # NoRun /\ run'[u].id = run'[v].id => u = v
    BY <1>1 DEF RunsHold, Locked
  <2>3. \A v \in Worker : run'[v] # NoRun => run'[v].due \in Nat
    <3>1. \A x \in [id: DOMAIN schedule, due: Nat, at: Nat, inTime: Int] : x.due \in Nat
      OBVIOUS
    <3>. QED
      BY <3>1
  <2>. QED
    BY <1>1, <2>1, <2>2, <2>3 DEF RunsHold, Types, rows
<1>4. ASSUME NEW x \in DOMAIN schedule PROVE Terms(x)' /\ Spaced(x)'
  <2>1. Follows(x)
    BY <1>1, SameFollows DEF rows
  <2>. QED
    BY <2>1, NothingPaid DEF rows
<1>5. ViewSound'
  BY <1>2, ViewStays DEF rows
<1>6. RunsDecided'
  BY DecidedStays DEF rows
<1>. QED
  BY <1>2, <1>3, <1>4, <1>5, <1>6 DEF OrdersInv, rows

\* The one look at the clock.
LEMMA InTimeKeeps ==
  ASSUME OrdersInv, NEW w \in Worker, InTime(w)
  PROVE  OrdersInv'
<1>1. /\ Types /\ RunsHold /\ RunsDecided /\ PaidOnce
      /\ run[w] # NoRun /\ ~ AlreadySettled(w) /\ ~ Late(w)
      /\ run' = [run EXCEPT ![w].inTime = clock]
      /\ UNCHANGED <<clock, rows, found, view, nudged>>
  BY DEF OrdersInv, InTime, Claimed
<1>2. run[w] \in [id: DOMAIN schedule, due: Nat, at: Nat, inTime: Int] /\ clock \in Nat
  BY <1>1 DEF Types
<1>3. /\ run'[w] = [run[w] EXCEPT !.inTime = clock]
      /\ run'[w].id = run[w].id /\ run'[w].due = run[w].due /\ run'[w].inTime = clock
      /\ run'[w] \in [id: DOMAIN schedule, due: Nat, at: Nat, inTime: Int]
      /\ \A v \in Worker \ {w} : run'[v] = run[v]
      /\ \A v \in Worker : run'[v] # NoRun =>
           run[v] # NoRun /\ run'[v].id = run[v].id /\ run'[v].due = run[v].due
  BY <1>1, <1>2 DEF Types
<1>4. Types' /\ PaidOnce'
  <2>1. run' \in [Worker -> [id: DOMAIN schedule, due: Nat, at: Nat, inTime: Int] \cup {NoRun}]
    BY <1>1, <1>3 DEF Types
  <2>. QED
    BY <1>1, <2>1 DEF Types, PaidOnce, Count, Events, rows
<1>5. RunsHold'
  BY <1>1, <1>3 DEF RunsHold, rows
<1>6. RunsDecided'
  <2>1. Undecided(w)'
    <3>1. clock \in run[w].due .. run[w].due + Grace
      BY <1>1, <1>2, SchedulesAssumption DEF RunsHold, Late
    <3>. QED
      BY <1>1, <1>3, <3>1 DEF Undecided, AlreadySettled, OccurrenceKey, rows
  <2>2. ASSUME NEW v \in Worker \ {w}, run[v] # NoRun /\ run[v].inTime # Unchecked
        PROVE  Undecided(v)'
    BY <1>1, <1>3, <2>2 DEF RunsDecided, Undecided, AlreadySettled, OccurrenceKey, rows
  <2>. QED
    BY <1>3, <2>1, <2>2 DEF RunsDecided
<1>7. ASSUME NEW x \in DOMAIN schedule PROVE Terms(x)' /\ Spaced(x)'
  <2>1. Follows(x)
    BY <1>1, SameFollows DEF rows
  <2>. QED
    BY <1>1, <2>1, NothingPaid DEF rows
<1>8. ViewSound'
  BY <1>1, <1>4, ViewStays DEF rows
<1>. QED
  BY <1>1, <1>4, <1>5, <1>6, <1>7, <1>8 DEF OrdersInv, rows

LEMMA ClaimKeeps ==
  ASSUME OrdersInv, NEW w \in Worker,
         RunDueSchedules(w) \/ Crash(w) \/ \E s \in Schedule : RunSchedule(w, s)
  PROVE  OrdersInv'
<1>1. Types /\ clock \in Nat
  BY DEF OrdersInv, Types
<1>2. CASE RunDueSchedules(w)
  <2>1. FindDueScheduleIds \in SUBSET DOMAIN schedule
    BY DEF FindDueScheduleIds
  <2>2. found' \in [Worker -> SUBSET DOMAIN schedule]
    BY <1>1, <1>2, <2>1 DEF RunDueSchedules, Types
  <2>3. UNCHANGED <<clock, rows, run, view, nudged>>
    BY <1>2 DEF RunDueSchedules
  <2>. QED
    BY <1>1, <2>2, <2>3, IdleSteps DEF Types
<1>3. CASE Crash(w)
  <2>1. found' \in [Worker -> SUBSET DOMAIN schedule]
    BY <1>1, <1>3 DEF Crash, Types
  <2>2. /\ run' \in [Worker -> [id: DOMAIN schedule, due: Nat, at: Nat, inTime: Int] \cup {NoRun}]
        /\ \A v \in Worker \ {w} : run'[v] = run[v]
        /\ run'[w] = NoRun
    BY <1>1, <1>3 DEF Crash, Types
  <2>3. UNCHANGED <<clock, rows, view, nudged>>
    BY <1>3 DEF Crash
  <2>. QED
    BY <1>1, <2>1, <2>2, <2>3, IdleSteps
<1>4. ASSUME NEW s \in Schedule, RunSchedule(w, s) PROVE OrdersInv'
  <2>1. s \in DOMAIN schedule /\ schedule[s].nextRunAt \in Nat
    BY <1>1, <1>4 DEF RunSchedule, Types, Typed
  <2>2. found' \in [Worker -> SUBSET DOMAIN schedule]
    BY <1>1, <1>4 DEF RunSchedule, Types
  <2>3. /\ run' \in [Worker -> [id: DOMAIN schedule, due: Nat, at: Nat, inTime: Int] \cup {NoRun}]
        /\ \A v \in Worker \ {w} : run'[v] = run[v]
        /\ \/ run'[w] = run[w]
           \/ /\ Claimable(s)
              /\ run'[w] = [id |-> s, due |-> schedule[s].nextRunAt, at |-> clock,
                            inTime |-> Unchecked]
    BY <1>1, <1>4, <2>1 DEF RunSchedule, Types, Unchecked
  <2>4. UNCHANGED <<clock, rows, view, nudged>>
    BY <1>4 DEF RunSchedule
  <2>. QED
    BY <1>1, <2>2, <2>3, <2>4, IdleSteps DEF Claimable
<1>. QED
  BY <1>2, <1>3, <1>4

-----------------------------------------------------------------------------
(* The outcomes *)

\* An open run: what it holds, and that its row is nobody else's.
LEMMA OpenRun ==
  ASSUME OrdersInv, NEW w \in Worker, run[w] # NoRun
  PROVE  /\ run[w].id \in DOMAIN schedule /\ run[w].due \in Nat
         /\ Typed(schedule[run[w].id]) /\ schedule[run[w].id].status = "ACTIVE"
         /\ schedule[run[w].id].nextRunAt = run[w].due /\ run[w].due <= clock
         /\ OccurrenceKey(w) \in (DOMAIN schedule) \X Nat
         /\ OccurrenceKey(w)[1] = run[w].id /\ OccurrenceKey(w)[2] = run[w].due
<1>1. run[w] \in [id: DOMAIN schedule, due: Nat, at: Nat, inTime: Int] /\ RunsHold
  BY DEF OrdersInv, Types
<1>2. run[w].id \in DOMAIN schedule /\ run[w].due \in Nat
  BY <1>1
<1>. QED
  BY <1>1, <1>2 DEF RunsHold, OccurrenceKey, OrdersInv, Types

\* A run ends: its row changes, the others are held as before.
LEMMA RunEnds ==
  ASSUME OrdersInv, NEW w \in Worker, run[w] # NoRun, NEW y,
         schedule' = [schedule EXCEPT ![run[w].id] = y], Typed(y),
         run' = [run EXCEPT ![w] = NoRun], UNCHANGED <<clock, found>>,
         \/ occurrence' = occurrence
         \/ \E o : occurrence' = With(occurrence, OccurrenceKey(w), o)
  PROVE  /\ DOMAIN schedule' = DOMAIN schedule /\ schedule'[run[w].id] = y
         /\ \A x \in DOMAIN schedule \ {run[w].id} : schedule'[x] = schedule[x]
         /\ \A x \in DOMAIN schedule' : Typed(schedule'[x])
         /\ found' \in [Worker -> SUBSET DOMAIN schedule']
         /\ run' \in [Worker -> [id: DOMAIN schedule', due: Nat, at: Nat, inTime: Int] \cup {NoRun}]
         /\ RunsHold' /\ RunsDecided'
<1>1. Types /\ RunsHold /\ run[w].id \in DOMAIN schedule
  BY OpenRun DEF OrdersInv
<1>2. /\ DOMAIN schedule' = DOMAIN schedule /\ schedule'[run[w].id] = y
      /\ \A x \in DOMAIN schedule \ {run[w].id} : schedule'[x] = schedule[x]
  BY <1>1
<1>3. \A x \in DOMAIN schedule' : Typed(schedule'[x])
  BY <1>1, <1>2 DEF Types
<1>4. /\ found' \in [Worker -> SUBSET DOMAIN schedule']
      /\ run' \in [Worker -> [id: DOMAIN schedule', due: Nat, at: Nat, inTime: Int] \cup {NoRun}]
      /\ run'[w] = NoRun /\ \A v \in Worker \ {w} : run'[v] = run[v]
  BY <1>1, <1>2 DEF Types
<1>5. RunsHold'
  <2>1. \A v \in Worker : run'[v] # NoRun =>
          /\ v # w /\ run'[v] = run[v] /\ run[v].id # run[w].id
          /\ run[v].id \in DOMAIN schedule
    BY <1>1, <1>4 DEF RunsHold, Types
  <2>. QED
    BY <1>1, <1>2, <2>1 DEF RunsHold
<1>6. RunsDecided'
  <2>1. ASSUME NEW v \in Worker, run'[v] # NoRun
        PROVE  /\ run'[v] = run[v] /\ OccurrenceKey(v) # OccurrenceKey(w)
    BY <1>1, <1>4, <2>1 DEF RunsHold, OccurrenceKey
  <2>2. ASSUME NEW k, k # OccurrenceKey(w), k \in DOMAIN occurrence'
        PROVE  k \in DOMAIN occurrence /\ occurrence'[k] = occurrence[k]
    BY <2>2 DEF With
  <2>. QED
    BY <2>1, <2>2, DecidedStays
<1>. QED
  BY <1>2, <1>3, <1>4, <1>5, <1>6

\* Moving on without using up a run.
LEMMA AdvancedFollows ==
  ASSUME OrdersInv, NEW s \in DOMAIN schedule, schedule'[s] = Advanced(s, FALSE),
         schedule[s].status = "ACTIVE"
  PROVE  Typed(Advanced(s, FALSE)) /\ Follows(s)
<1>1. Typed(schedule[s]) /\ Interval \in Nat /\ Terms(s) /\ Unlimited \notin Nat
  BY SchedulesAssumption DEF OrdersInv, Types
<1>2. CASE schedule[s].kind = "ONCE"
  BY <1>1, <1>2 DEF Advanced, Typed, Follows, Statuses
<1>3. CASE schedule[s].kind = "RECURRING"
  <2>. DEFINE y == [schedule[s] EXCEPT
             !.remaining = schedule[s].remaining, !.nextRunAt = @ + Interval, !.retryAfter = 0,
             !.status = IF schedule[s].remaining = 0 THEN "COMPLETED" ELSE @]
  <2>1. Advanced(s, FALSE) = y
    BY <1>3 DEF Advanced
  <2>2. /\ DOMAIN y = DOMAIN schedule[s] /\ y.kind = schedule[s].kind
        /\ y.total = schedule[s].total /\ y.remaining = schedule[s].remaining
        /\ y.nextRunAt = schedule[s].nextRunAt + Interval
        /\ y.status = IF schedule[s].remaining = 0 THEN "COMPLETED" ELSE "ACTIVE"
    BY <1>1 DEF Typed
  <2>3. schedule[s].total # Unlimited => schedule[s].remaining # 0
    BY <1>1, <1>3 DEF Terms
  <2>. HIDE DEF y
  <2>4. Typed(y)
    BY <1>1, <2>2 DEF Typed, Statuses
  <2>5. schedule[s].nextRunAt <= schedule[s].nextRunAt + Interval
    BY <1>1 DEF Typed
  <2>6. schedule[s].total # Unlimited => y.status = "ACTIVE"
    BY <2>2, <2>3
  <2>7. schedule'[s] = y
    BY <2>1
  <2>. QED
    BY <1>3, <2>1, <2>2, <2>4, <2>5, <2>6, <2>7 DEF Follows
<1>. QED
  BY <1>1, <1>2, <1>3 DEF Typed

\* Counting, distances and the view after a run that pays nothing.
LEMMA UnpaidEnd ==
  ASSUME OrdersInv, NEW w \in Worker, run[w] # NoRun,
         payments' = payments, UNCHANGED <<view, nudged>>, Types',
         DOMAIN schedule' = DOMAIN schedule, Follows(run[w].id),
         \A x \in DOMAIN schedule \ {run[w].id} : schedule'[x] = schedule[x]
  PROVE  ViewSound' /\ \A x \in DOMAIN schedule : Terms(x)' /\ Spaced(x)'
<1>1. ViewSound'
  BY ViewStays
<1>2. ASSUME NEW x \in DOMAIN schedule PROVE Terms(x)' /\ Spaced(x)'
  <2>1. Types /\ run[w].id \in DOMAIN schedule
    BY OpenRun DEF OrdersInv
  <2>2. Follows(x)
    BY <2>1, SameFollows
  <2>. QED
    BY <2>2, NothingPaid
<1>. QED
  BY <1>1, <1>2

LEMMA DuplicateKeeps ==
  ASSUME OrdersInv, NEW w \in Worker, Duplicate(w)
  PROVE  OrdersInv'
<1>. DEFINE s == run[w].id
            y == Advanced(s, FALSE)
<1>1. /\ Types /\ PaidOnce /\ run[w] # NoRun /\ s \in DOMAIN schedule
      /\ schedule[s].status = "ACTIVE"
      /\ schedule' = [schedule EXCEPT ![s] = y] /\ schedule'[s] = y
      /\ run' = [run EXCEPT ![w] = NoRun]
      /\ UNCHANGED <<clock, occurrence, payments, told, found, view, nudged>>
  BY OpenRun DEF OrdersInv, Duplicate, Claimed
<1>2. Typed(y) /\ Follows(s)
  BY <1>1, AdvancedFollows
<1>. HIDE DEF y
<1>3. /\ DOMAIN schedule' = DOMAIN schedule
      /\ \A x \in DOMAIN schedule \ {s} : schedule'[x] = schedule[x]
      /\ \A x \in DOMAIN schedule' : Typed(schedule'[x])
      /\ found' \in [Worker -> SUBSET DOMAIN schedule']
      /\ run' \in [Worker -> [id: DOMAIN schedule', due: Nat, at: Nat, inTime: Int] \cup {NoRun}]
      /\ RunsHold' /\ RunsDecided'
  BY <1>1, <1>2, RunEnds
<1>4. Types'
  BY <1>1, <1>3 DEF Types
<1>5. PaidOnce'
  BY <1>1 DEF PaidOnce, Count, Events
<1>6. ViewSound' /\ \A x \in DOMAIN schedule : Terms(x)' /\ Spaced(x)'
  BY <1>1, <1>2, <1>3, <1>4, UnpaidEnd
<1>. QED
  BY <1>3, <1>4, <1>5, <1>6 DEF OrdersInv

\* An occurrence that has no outcome yet: no payment, no event.
LEMMA NotYet ==
  ASSUME OrdersInv, NEW w \in Worker, run[w] # NoRun, ~ AlreadySettled(w)
  PROVE  OccurrenceKey(w) \notin DOMAIN payments /\ Events(OccurrenceKey(w)) = << >>
<1>. PICK k : k = OccurrenceKey(w)
  OBVIOUS
<1>1. Types /\ PaidOnce
  BY DEF OrdersInv
<1>2. CASE k \notin DOMAIN occurrence
  BY <1>1, <1>2 DEF Types, Events
<1>3. CASE k \in DOMAIN occurrence
  <2>1. occurrence[k].status = "PENDING"
    BY <1>3 DEF AlreadySettled
  <2>2. Count(payments, k) = 0 /\ Events(k) = << >>
    BY <1>1, <1>3, <2>1 DEF PaidOnce
  <2>. QED
    BY <1>1, <2>2 DEF Types, Count
<1>. QED
  BY <1>2, <1>3

\* A run records an attempt that paid nothing, and its row follows.
LEMMA UnpaidKeeps ==
  ASSUME OrdersInv, NEW w \in Worker, run[w] # NoRun, ~ AlreadySettled(w), NEW y,
         schedule' = [schedule EXCEPT ![run[w].id] = y], Typed(y), Follows(run[w].id),
         NEW status \in {"PENDING", "SKIPPED", "FAILED"},
         occurrence' = With(occurrence, OccurrenceKey(w),
                            [status |-> status, attempts |-> Attempts(w)]),
         IF status = "PENDING" THEN told' = told
         ELSE told' = With(told, OccurrenceKey(w), Append(Events(OccurrenceKey(w)), status)),
         run' = [run EXCEPT ![w] = NoRun],
         UNCHANGED <<clock, found, payments, view, nudged>>
  PROVE  OrdersInv'
<1>. PICK k : k = OccurrenceKey(w)
  OBVIOUS
<1>1. Types /\ PaidOnce /\ run[w].id \in DOMAIN schedule /\ k \in (DOMAIN schedule) \X Nat
  BY OpenRun DEF OrdersInv
<1>2. k \notin DOMAIN payments /\ Events(k) = << >>
  BY NotYet
<1>3. /\ DOMAIN schedule' = DOMAIN schedule
      /\ \A x \in DOMAIN schedule \ {run[w].id} : schedule'[x] = schedule[x]
      /\ \A x \in DOMAIN schedule' : Typed(schedule'[x])
      /\ found' \in [Worker -> SUBSET DOMAIN schedule']
      /\ run' \in [Worker -> [id: DOMAIN schedule', due: Nat, at: Nat, inTime: Int] \cup {NoRun}]
      /\ RunsHold' /\ RunsDecided'
  BY RunEnds
<1>4. /\ DOMAIN occurrence' = DOMAIN occurrence \cup {k}
      /\ occurrence'[k].status = status
      /\ \A x \in DOMAIN occurrence \ {k} : occurrence'[x] = occurrence[x]
  BY DEF With
<1>5. /\ DOMAIN told' \subseteq DOMAIN told \cup {k}
      /\ \A x \in DOMAIN occurrence \ {k} : Events(x)' = Events(x)
      /\ Events(k)' = IF status = "PENDING" THEN << >> ELSE <<status>>
  <2>1. Append(<< >>, status) = <<status>>
    OBVIOUS
  <2>. QED
    BY <1>2, <2>1 DEF With, Events
<1>6. Types'
  <2>1. IsFiniteSet(DOMAIN occurrence')
    <3>1. IsFiniteSet(DOMAIN occurrence) /\ DOMAIN occurrence' = DOMAIN occurrence \cup {k}
      BY <1>1, <1>4 DEF Types
    <3>. QED
      BY <3>1, FS_AddElement
  <2>. QED
    BY <1>1, <1>3, <1>4, <1>5, <2>1 DEF Types
<1>7. PaidOnce'
  <2>1. ASSUME NEW x \in DOMAIN occurrence'
        PROVE  /\ Count(payments', x) = IF occurrence'[x].status = "PAID" THEN 1 ELSE 0
               /\ Events(x)' = IF occurrence'[x].status = "PENDING" THEN << >>
                               ELSE <<occurrence'[x].status>>
    <3>1. CASE x = k
      BY <1>2, <1>4, <1>5, <3>1 DEF Count
    <3>2. CASE x # k
      BY <1>1, <1>4, <1>5, <3>2 DEF PaidOnce, Count
    <3>. QED
      BY <3>1, <3>2
  <2>2. DOMAIN payments' \subseteq DOMAIN occurrence'
    BY <1>6 DEF Types
  <2>. QED
    BY <2>1, <2>2 DEF PaidOnce
<1>8. ViewSound' /\ \A x \in DOMAIN schedule : Terms(x)' /\ Spaced(x)'
  BY <1>3, <1>6, UnpaidEnd
<1>. QED
  BY <1>3, <1>6, <1>7, <1>8 DEF OrdersInv

LEMMA UnpaidSteps ==
  ASSUME OrdersInv, NEW w \in Worker, Skip(w) \/ Fail(w) \/ Defer(w)
  PROVE  OrdersInv'
<1>. DEFINE s == run[w].id
<1>1. /\ run[w] # NoRun /\ ~ AlreadySettled(w) /\ s \in DOMAIN schedule
      /\ Typed(schedule[s]) /\ schedule[s].status = "ACTIVE"
  BY OpenRun DEF Skip, Fail, Defer, Attempting, Claimed, OrdersInv, RunsDecided, Undecided
<1>2. CASE Skip(w) \/ Fail(w)
  <2>1. PICK status \in {"SKIPPED", "FAILED"} : Settle(w, status, FALSE) /\ payments' = payments
    BY <1>2 DEF Skip, Fail
  <2>2. schedule' = [schedule EXCEPT ![s] = Advanced(s, FALSE)]
        /\ schedule'[s] = Advanced(s, FALSE)
    BY <1>1, <2>1 DEF Settle
  <2>3. Typed(Advanced(s, FALSE)) /\ Follows(s)
    BY <1>1, <2>2, AdvancedFollows
  <2>. QED
    BY <1>1, <2>1, <2>2, <2>3, UnpaidKeeps DEF Settle
<1>3. CASE Defer(w)
  <2>. DEFINE y == Deferred(s, run[w].at, RetryBase * 2 ^ (Attempts(w) - 1))
  <2>1. schedule' = [schedule EXCEPT ![s] = y] /\ schedule'[s] = y
    BY <1>1, <1>3 DEF Defer
  <2>2. PICK at : y = [schedule[s] EXCEPT !.retryAfter = at]
    BY DEF Deferred
  <2>. HIDE DEF y
  <2>3. Typed(y) /\ Follows(s)
    <3>1. /\ DOMAIN y = DOMAIN schedule[s] /\ y.kind = schedule[s].kind
          /\ y.status = "ACTIVE" /\ y.nextRunAt = schedule[s].nextRunAt
          /\ y.remaining = schedule[s].remaining /\ y.total = schedule[s].total
      BY <1>1, <2>2 DEF Typed
    <3>. QED
      BY <1>1, <2>1, <3>1 DEF Typed, Follows
  <2>. QED
    BY <1>1, <1>3, <2>1, <2>3, UnpaidKeeps DEF Defer
<1>. QED
  BY <1>2, <1>3

\* Moving on with a run used up.
LEMMA AdvancedCounts ==
  ASSUME OrdersInv, NEW s \in DOMAIN schedule, schedule[s].status = "ACTIVE"
  PROVE  LET z == Advanced(s, TRUE) IN
           /\ Typed(z) /\ z.kind = schedule[s].kind /\ z.total = schedule[s].total
           /\ schedule[s].kind = "ONCE" => z.status = "COMPLETED"
           /\ schedule[s].kind = "RECURRING" => z.nextRunAt = schedule[s].nextRunAt + Interval
           /\ (schedule[s].kind = "RECURRING" /\ schedule[s].total # Unlimited) =>
                /\ z.remaining \in Nat /\ z.remaining = schedule[s].remaining - 1
                /\ z.status = "COMPLETED" <=> z.remaining = 0
<1>1. Typed(schedule[s]) /\ Interval \in Nat /\ Terms(s) /\ Unlimited \notin Nat
  BY SchedulesAssumption DEF OrdersInv, Types
<1>2. CASE schedule[s].kind = "ONCE"
  BY <1>1, <1>2 DEF Advanced, Typed, Statuses
<1>3. CASE schedule[s].kind = "RECURRING"
  <2>. DEFINE left == IF schedule[s].remaining # Unlimited
                      THEN schedule[s].remaining - 1 ELSE schedule[s].remaining
              y == [schedule[s] EXCEPT
                      !.remaining = left, !.nextRunAt = @ + Interval, !.retryAfter = 0,
                      !.status = IF left = 0 THEN "COMPLETED" ELSE @]
  <2>1. Advanced(s, TRUE) = y
    BY <1>3 DEF Advanced
  <2>2. schedule[s].total # Unlimited =>
          schedule[s].remaining \in Nat \ {0} /\ left = schedule[s].remaining - 1
    BY <1>1, <1>3 DEF Terms
  <2>. HIDE DEF left
  <2>3. /\ DOMAIN y = DOMAIN schedule[s] /\ y.kind = schedule[s].kind
        /\ y.total = schedule[s].total /\ y.remaining = left
        /\ y.nextRunAt = schedule[s].nextRunAt + Interval
        /\ y.status = IF left = 0 THEN "COMPLETED" ELSE "ACTIVE"
    BY <1>1 DEF Typed
  <2>. HIDE DEF y
  <2>4. Typed(y)
    BY <1>1, <2>3 DEF Typed, Statuses
  <2>5. schedule[s].total # Unlimited =>
          /\ left \in Nat /\ left = schedule[s].remaining - 1
          /\ y.status = "COMPLETED" <=> left = 0
    BY <2>2, <2>3
  <2>. QED
    BY <1>3, <2>1, <2>3, <2>4, <2>5
<1>. QED
  BY <1>1, <1>2, <1>3 DEF Typed

\* A payment: one transfer, one run used up, one event, and the next instant.
LEMMA PayKeeps ==
  ASSUME OrdersInv, NEW w \in Worker, Pay(w)
  PROVE  OrdersInv'
<1>. PICK k : k = OccurrenceKey(w)
  OBVIOUS
<1>. PICK s : s = run[w].id
  OBVIOUS
<1>1. /\ Types /\ PaidOnce /\ run[w] # NoRun /\ ~ AlreadySettled(w)
      /\ s \in DOMAIN schedule /\ k \in (DOMAIN schedule) \X Nat
      /\ Typed(schedule[s]) /\ schedule[s].status = "ACTIVE"
      /\ k[1] = s /\ k[2] = schedule[s].nextRunAt
      /\ Interval \in Nat \ {0}
  BY OpenRun, SchedulesAssumption DEF OrdersInv, Pay, Attempting, RunsDecided, Undecided
<1>2. k \notin DOMAIN payments /\ Events(k) = << >>
  BY <1>1, NotYet
<1>. PICK y : y = Advanced(s, TRUE)
  OBVIOUS
<1>3. /\ payments' = With(payments, k, 1)
      /\ occurrence' = With(occurrence, k, [status |-> "PAID", attempts |-> Attempts(w)])
      /\ told' = With(told, k, <<"PAID">>)
      /\ schedule' = [schedule EXCEPT ![s] = y] /\ run' = [run EXCEPT ![w] = NoRun]
      /\ UNCHANGED <<clock, found, view, nudged>>
  <2>1. Count(payments, k) + 1 = 1 /\ Append(<< >>, "PAID") = <<"PAID">>
    BY <1>2 DEF Count
  <2>. QED
    BY <1>2, <2>1 DEF Pay, Settle
<1>4. /\ Typed(y) /\ y.kind = schedule[s].kind /\ y.total = schedule[s].total
      /\ schedule[s].kind = "ONCE" => y.status = "COMPLETED"
      /\ schedule[s].kind = "RECURRING" => y.nextRunAt = schedule[s].nextRunAt + Interval
      /\ (schedule[s].kind = "RECURRING" /\ schedule[s].total # Unlimited) =>
           /\ y.remaining \in Nat /\ y.remaining = schedule[s].remaining - 1
           /\ y.status = "COMPLETED" <=> y.remaining = 0
  BY <1>1, AdvancedCounts
<1>5. /\ DOMAIN schedule' = DOMAIN schedule /\ schedule'[s] = y
      /\ \A x \in DOMAIN schedule \ {s} : schedule'[x] = schedule[x]
      /\ \A x \in DOMAIN schedule' : Typed(schedule'[x])
      /\ found' \in [Worker -> SUBSET DOMAIN schedule']
      /\ run' \in [Worker -> [id: DOMAIN schedule', due: Nat, at: Nat, inTime: Int] \cup {NoRun}]
      /\ RunsHold' /\ RunsDecided'
  BY <1>1, <1>3, <1>4, RunEnds
<1>6. /\ DOMAIN payments' = DOMAIN payments \cup {k} /\ payments'[k] = 1
      /\ \A x \in DOMAIN payments : payments'[x] = payments[x]
      /\ DOMAIN occurrence' = DOMAIN occurrence \cup {k} /\ occurrence'[k].status = "PAID"
      /\ \A x \in DOMAIN occurrence \ {k} : occurrence'[x] = occurrence[x]
      /\ DOMAIN told' = DOMAIN told \cup {k} /\ told'[k] = <<"PAID">>
      /\ \A x \in DOMAIN told \ {k} : told'[x] = told[x]
  BY <1>2, <1>3 DEF With
<1>7. Types'
  <2>1. IsFiniteSet(DOMAIN occurrence')
    <3>1. IsFiniteSet(DOMAIN occurrence) /\ DOMAIN occurrence' = DOMAIN occurrence \cup {k}
      BY <1>1, <1>6 DEF Types
    <3>. QED
      BY <3>1, FS_AddElement
  <2>2. IsFiniteSet(DOMAIN payments')
    <3>1. IsFiniteSet(DOMAIN payments) /\ DOMAIN payments' = DOMAIN payments \cup {k}
      BY <1>1, <1>6 DEF Types
    <3>. QED
      BY <3>1, FS_AddElement
  <2>3. \A x \in DOMAIN payments' : payments'[x] = 1
    BY <1>1, <1>6 DEF Types
  <2>4. DOMAIN occurrence' \subseteq (DOMAIN schedule') \X Nat
    BY <1>1, <1>5, <1>6 DEF Types
  <2>5. DOMAIN payments' \subseteq DOMAIN occurrence' /\ DOMAIN told' \subseteq DOMAIN occurrence'
    BY <1>1, <1>6 DEF Types
  <2>6. clock' \in Nat /\ DOMAIN schedule' \subseteq Schedule
    BY <1>1, <1>3, <1>5 DEF Types
  <2>. QED
    BY <1>5, <2>1, <2>2, <2>3, <2>4, <2>5, <2>6 DEF Types
<1>8. PaidOnce'
  <2>1. ASSUME NEW x \in DOMAIN occurrence'
        PROVE  /\ Count(payments', x) = IF occurrence'[x].status = "PAID" THEN 1 ELSE 0
               /\ Events(x)' = IF occurrence'[x].status = "PENDING" THEN << >>
                               ELSE <<occurrence'[x].status>>
    <3>1. CASE x = k
      BY <1>6, <3>1 DEF Count, Events
    <3>2. CASE x # k
      <4>1. x \in DOMAIN occurrence /\ occurrence'[x] = occurrence[x]
        BY <1>6, <3>2
      <4>2. Count(payments', x) = Count(payments, x)
        BY <1>6, <3>2 DEF Count
      <4>3. Events(x)' = Events(x)
        BY <1>6, <3>2 DEF Events
      <4>. QED
        BY <1>1, <4>1, <4>2, <4>3 DEF PaidOnce
    <3>. QED
      BY <3>1, <3>2
  <2>2. DOMAIN payments' \subseteq DOMAIN occurrence'
    BY <1>7 DEF Types
  <2>. QED
    BY <2>1, <2>2 DEF PaidOnce
<1>9. ViewSound'
  BY <1>3, <1>5, <1>6, <1>7, ViewStays
<1>10. ASSUME NEW x \in DOMAIN schedule \ {s} PROVE Terms(x)' /\ Spaced(x)'
  <2>1. Payments(x)' = Payments(x)
    BY <1>1, <1>6 DEF Payments
  <2>2. Terms(x) /\ Spaced(x)
    BY DEF OrdersInv
  <2>. QED
    BY <1>3, <1>5, <2>1, <2>2 DEF Terms, Spaced
<1>11. Terms(s)' /\ Spaced(s)'
  <2>1. Payments(s)' = Payments(s) \cup {k} /\ k \notin Payments(s)
    BY <1>1, <1>2, <1>6 DEF Payments
  <2>2. /\ Cardinality(Payments(s)') = Cardinality(Payments(s)) + 1
        /\ Cardinality(Payments(s)) \in Nat
    BY <1>1, <2>1, PaymentsFinite, FS_AddElement
  <2>3. Terms(s) /\ Spaced(s) /\ \A j \in Payments(s) : j[2] \in Nat
    <3>1. \A j \in (DOMAIN schedule) \X Nat : j[2] \in Nat
      OBVIOUS
    <3>2. Payments(s) \subseteq (DOMAIN schedule) \X Nat
      BY <1>1 DEF Payments, Types
    <3>. QED
      BY <1>1, <3>1, <3>2 DEF OrdersInv
  <2>4. Terms(s)'
    <3>. SUFFICES ASSUME schedule[s].kind = "RECURRING", schedule[s].total # Unlimited
                  PROVE  /\ y.remaining \in Nat
                         /\ y.remaining + Cardinality(Payments(s)') = y.total
                         /\ y.status = "COMPLETED" <=> y.remaining = 0
      BY <1>4, <1>5 DEF Terms
    <3>1. /\ schedule[s].remaining \in Nat /\ schedule[s].total \in Nat
          /\ schedule[s].remaining + Cardinality(Payments(s)) = schedule[s].total
      BY <1>1, <2>3 DEF Terms, Typed
    <3>2. /\ y.remaining \in Nat /\ y.remaining = schedule[s].remaining - 1
          /\ y.total = schedule[s].total
      BY <1>4
    <3>3. y.status = "COMPLETED" <=> y.remaining = 0
      BY <1>4
    <3>4. y.remaining + Cardinality(Payments(s)') = y.total
      <4>1. \A a, b, c, d \in Nat : a + b = c /\ d = b + 1 => (a - 1) + d = c
        OBVIOUS
      <4>2. Cardinality(Payments(s)') \in Nat
        BY <2>2
      <4>3. (schedule[s].remaining - 1) + Cardinality(Payments(s)') = schedule[s].total
        BY <2>2, <3>1, <4>1, <4>2
      <4>. QED
        BY <3>2, <4>3
    <3>. QED
      BY <3>2, <3>3, <3>4
  <2>5. Spaced(s)'
    <3>1. CASE schedule[s].kind = "ONCE"
      <4>1. s \notin nudged => Payments(s) = {}
        BY <1>1, <2>3, <3>1 DEF Spaced
      <4>2. k[2] \in Nat
        BY <1>1
      <4>3. s \notin nudged => Payments(s)' = {k}
        BY <2>1, <4>1
      <4>4. y.kind = "ONCE" /\ y.status = "COMPLETED"
        BY <1>4, <3>1
      <4>6. ~ (k[2] < k[2])
        BY <4>2
      <4>5. s \notin nudged => \A i, j \in Payments(s)' : i = k /\ j = k
        BY <4>3
      <4>. QED
        BY <1>3, <1>5, <4>4, <4>5, <4>6 DEF Spaced
    <3>2. CASE schedule[s].kind = "RECURRING"
      <4>1. k[2] \in Nat
        BY <1>1
      <4>2. s \notin nudged => \A j \in Payments(s) : j[2] + Interval <= k[2]
        BY <1>1, <2>3, <3>2 DEF Spaced
      <4>3. y.kind = "RECURRING" /\ y.nextRunAt = k[2] + Interval
        BY <1>1, <1>4, <3>2
      <4>4. ASSUME s \notin nudged, NEW i \in Payments(s)', NEW j \in Payments(s)'
            PROVE  i[2] + Interval <= y.nextRunAt /\ (i[2] < j[2] => j[2] - i[2] >= Interval)
        <5>1. i \in Payments(s) \/ i = k
          BY <2>1
        <5>2. j \in Payments(s) \/ j = k
          BY <2>1
        <5>3. PICK m, n, c \in Nat : m = i[2] /\ n = j[2] /\ c = k[2]
          BY <2>3, <4>1, <5>1, <5>2
        <5>4. /\ m = c \/ m + Interval <= c
              /\ n = c \/ n + Interval <= c
          BY <4>2, <4>4, <5>1, <5>2, <5>3
        <5>5. m + Interval <= c + Interval
          BY <1>1, <5>4
        <5>6. m < n => n - m >= Interval
          <6>1. CASE n = c
            BY <1>1, <5>4, <6>1
          <6>2. CASE m = c /\ n + Interval <= c
            BY <1>1, <6>2
          <6>3. CASE i \in Payments(s) /\ j \in Payments(s)
            BY <2>3, <4>4, <5>3, <6>3 DEF Spaced
          <6>. QED
            BY <4>2, <4>4, <5>1, <5>2, <5>3, <6>1, <6>2, <6>3
        <5>. QED
          BY <4>3, <5>3, <5>5, <5>6
      <4>. QED
        BY <1>3, <1>5, <4>3, <4>4 DEF Spaced
    <3>. QED
      BY <1>1, <3>1, <3>2 DEF Typed
  <2>. QED
    BY <2>4, <2>5
<1>. QED
  BY <1>5, <1>7, <1>8, <1>9, <1>10, <1>11 DEF OrdersInv

LEMMA OrdersInvInductive == OrdersInv /\ [Next]_vars => OrdersInv'
<1>. SUFFICES ASSUME OrdersInv, [Next]_vars PROVE OrdersInv'
  OBVIOUS
<1>1. ASSUME NEW s \in Schedule,
             \/ CreateSchedule(s) \/ BringForward(s) \/ GetSchedule(s)
             \/ \E to \in {"ACTIVE", "PAUSED", "CANCELLED"} : Transition(s, to)
             \/ \E w \in Worker : RunSchedule(w, s)
      PROVE  OrdersInv'
  BY <1>1, CreateKeeps, OwnerKeeps, LookKeeps, ClaimKeeps
<1>2. ASSUME NEW w \in Worker,
             \/ RunDueSchedules(w)
             \/ Duplicate(w) \/ Skip(w) \/ InTime(w)
             \/ Pay(w) \/ Defer(w) \/ Fail(w) \/ Crash(w)
      PROVE  OrdersInv'
  BY <1>2, ClaimKeeps, InTimeKeeps, DuplicateKeeps, UnpaidSteps, PayKeeps
<1>3. CASE Tick \/ UNCHANGED vars
  <2>1. /\ clock \in Nat /\ found \in [Worker -> SUBSET DOMAIN schedule]
        /\ run \in [Worker -> [id: DOMAIN schedule, due: Nat, at: Nat, inTime: Int] \cup {NoRun}]
    BY DEF OrdersInv, Types
  <2>2. /\ UNCHANGED <<rows, work, view, nudged>>
        /\ clock' = clock + 1 \/ clock' = clock
    BY <1>3 DEF Tick, vars
  <2>3. \A w \in Worker : run'[w] = run[w]
    BY <2>2 DEF work
  <2>4. UNCHANGED <<rows, view, nudged>> /\ clock' \in Nat /\ clock <= clock'
        /\ found' \in [Worker -> SUBSET DOMAIN schedule]
        /\ run' \in [Worker -> [id: DOMAIN schedule, due: Nat, at: Nat, inTime: Int] \cup {NoRun}]
    BY <2>1, <2>2 DEF work
  <2>. QED
    BY <2>3, <2>4, IdleSteps
<1>. QED
  BY <1>1, <1>2, <1>3 DEF Next

LEMMA OrdersInvariance == Spec => []OrdersInv
<1>. QED
  BY InitOrders, OrdersInvInductive, PTL DEF Spec

-----------------------------------------------------------------------------
(* The theorems *)

\* Through any retries, crashes and number of processes: an occurrence is PAID exactly when
\* one transfer was made for it, and its owner hears once of its outcome
\* (claimOccurrence and settle in one transaction, schedule.worker.ts).
THEOREM OccurrencesPaidOnce == Spec => []PaidOnce
<1>1. OrdersInv => PaidOnce
  BY DEF OrdersInv
<1>. QED
  BY <1>1, OrdersInvariance, PTL

\* Each payment uses up one run and nothing else does, whatever is skipped, fails or is
\* tried again (advanceSchedule).
THEOREM RunsAddUp == Spec => []RunsAreHonoured
<1>1. OrdersInv => RunsAreHonoured
  BY DEF OrdersInv, RunsAreHonoured, Terms
<1>. QED
  BY <1>1, OrdersInvariance, PTL

\* Payments of one schedule are an interval apart, through any pause, downtime or retry,
\* unless an operator brought one forward (advanceSchedule, NextRunAfter).
THEOREM PaymentsApart == Spec => []NoBurst
<1>1. OrdersInv => NoBurst
  <2>. SUFFICES ASSUME OrdersInv, NEW s \in Schedule \ nudged,
                       NEW j \in Payments(s), NEW k \in Payments(s), j[2] < k[2]
                PROVE  k[2] - j[2] >= Interval
    BY DEF NoBurst
  <2>1. s \in DOMAIN schedule
    BY DEF OrdersInv, Types, Payments
  <2>. QED
    BY <2>1 DEF OrdersInv, Spaced
<1>. QED
  BY <1>1, OrdersInvariance, PTL

\* Whatever the workers commit between the two statements of getSchedule, the occurrences
\* it lists show a payment for every run that the schedule says is used up; where the list
\* is cut off (listOccurrences, LIMIT), only the oldest payments are missing from it.
THEOREM DetailShowsPayments == Spec => []DetailExplained
<1>1. OrdersInv => DetailExplained
  BY DEF OrdersInv, ViewSound
<1>. QED
  BY <1>1, OrdersInvariance, PTL

\* Every payment is made for a schedule that is ACTIVE when it commits, by a run that has
\* held it since it found the instant come and the grace after it not over
\* (claimDueSchedule, and the catch-up test of runSchedule before it calls pay).
THEOREM PaidWhileWanted == Spec => PaysOnlyWhenWanted
<1>1. OrdersInv /\ [Next]_vars =>
        [\A s \in DOMAIN schedule : Payments(s)' # Payments(s) =>
           /\ schedule[s].status = "ACTIVE"
           /\ \A k \in Payments(s)' \ Payments(s) :
                \E w \in Worker : /\ run[w].id = s
                                 /\ run[w].inTime \in k[2] .. k[2] + Grace]_vars
  <2>. SUFFICES ASSUME OrdersInv, Next, NEW s \in DOMAIN schedule, Payments(s)' # Payments(s)
                PROVE  /\ schedule[s].status = "ACTIVE"
                       /\ \A k \in Payments(s)' \ Payments(s) :
                            \E w \in Worker : /\ run[w].id = s
                                             /\ run[w].inTime \in k[2] .. k[2] + Grace
    OBVIOUS
  <2>1. payments' # payments
    BY DEF Payments
  <2>2. PICK w \in Worker : Pay(w)
    BY <2>1 DEF Next, CreateSchedule, BringForward, GetSchedule, Transition, RunSchedule,
                RunDueSchedules, Duplicate, Skip, InTime, Defer, Fail, Crash, Tick, rows
  <2>3. /\ run[w] # NoRun /\ Undecided(w)
        /\ payments' = With(payments, OccurrenceKey(w), Count(payments, OccurrenceKey(w)) + 1)
    BY <2>2 DEF Pay, Attempting, OrdersInv, RunsDecided
  <2>4. /\ schedule[run[w].id].status = "ACTIVE"
        /\ OccurrenceKey(w)[1] = run[w].id /\ OccurrenceKey(w)[2] = run[w].due
    BY <2>3, OpenRun
  <2>5. DOMAIN payments' = DOMAIN payments \cup {OccurrenceKey(w)}
    BY <2>3 DEF With
  <2>6. s = run[w].id /\ \A k \in Payments(s)' \ Payments(s) : k = OccurrenceKey(w)
    BY <2>4, <2>5 DEF Payments
  <2>. QED
    BY <2>3, <2>4, <2>6 DEF Undecided
<1>. QED
  BY <1>1, OrdersInvariance, PTL DEF Spec, PaysOnlyWhenWanted


-----------------------------------------------------------------------------
(* Calendar: dates and day numbers *)

ADate == {d \in [y: Nat \ {0}, m: 1 .. 12, d: 1 .. 31] : d.d <= DaysIn(d.y, d.m)}

LEMMA MonthLength == ASSUME NEW y, NEW m PROVE DaysIn(y, m) \in 28 .. 31
BY DEF DaysIn

LEMMA NextMonthIs ==
  ASSUME NEW d \in ADate
  PROVE  /\ NextMonth(d) \in [y: Nat \ {0}, m: 1 .. 12]
         /\ MonthNumber(NextMonth(d)) = MonthNumber(d) + 1
         /\ NextMonth(d).y >= d.y
BY DEF ADate, NextMonth, MonthNumber

\* The leap years are those in which the count of days gains one.
LEMMA LeapDay ==
  ASSUME NEW y \in Nat \ {0}
  PROVE  y \div 4 - y \div 100 + y \div 400
           = (y - 1) \div 4 - (y - 1) \div 100 + (y - 1) \div 400 + (IF Leap(y) THEN 1 ELSE 0)
BY DEF Leap

\* A month is as long as the calendar says, in the count of days.
LEMMA MonthCounted ==
  ASSUME NEW d \in ADate
  PROVE  DayNumber([y |-> NextMonth(d).y, m |-> NextMonth(d).m, d |-> 1])
           = DayNumber([d EXCEPT !.d = 1]) + DaysIn(d.y, d.m)
<1>1. /\ d.y \in Nat \ {0} /\ d.m \in 1 .. 12
      /\ [d EXCEPT !.d = 1] = [y |-> d.y, m |-> d.m, d |-> 1]
  BY DEF ADate
<1>2. CASE d.m = 2
  BY <1>1, <1>2, LeapDay DEF DayNumber, NextMonth, DaysIn
<1>3. CASE d.m = 12
  BY <1>1, <1>3 DEF DayNumber, NextMonth, DaysIn
<1>4. CASE d.m = 1
  BY <1>1, <1>4 DEF DayNumber, NextMonth, DaysIn
<1>5. CASE d.m \in 3 .. 11
  BY <1>1, <1>5 DEF DayNumber, NextMonth, DaysIn
<1>. QED
  BY <1>1, <1>2, <1>3, <1>4, <1>5

\* Adding days counts them, over the end of a month as well.
LEMMA DaysCounted ==
  ASSUME NEW d \in ADate, NEW n \in 1 .. 28
  PROVE  /\ PlusDays(d, n) \in ADate
         /\ DayNumber(PlusDays(d, n)) = DayNumber(d) + n
         /\ PlusDays(d, n).y >= d.y
<1>. DEFINE n1 == NextMonth(d)
            L == DaysIn(d.y, d.m)
<1>1. /\ d.y \in Nat \ {0} /\ d.m \in 1 .. 12 /\ d.d \in 1 .. 31 /\ d.d <= L /\ L \in 28 .. 31
      /\ d = [y |-> d.y, m |-> d.m, d |-> d.d]
  BY MonthLength DEF ADate
<1>2. /\ n1 \in [y: Nat \ {0}, m: 1 .. 12] /\ n1.y >= d.y /\ DaysIn(n1.y, n1.m) \in 28 .. 31
  BY NextMonthIs, MonthLength
<1>3. ASSUME NEW y \in Nat \ {0}, NEW m \in 1 .. 12, NEW k \in 1 .. 31
      PROVE  DayNumber([y |-> y, m |-> m, d |-> k]) = DayNumber([y |-> y, m |-> m, d |-> 1]) + k - 1
  BY DEF DayNumber
<1>4. CASE d.d + n <= L
  <2>1. PlusDays(d, n) = [y |-> d.y, m |-> d.m, d |-> d.d + n]
    BY <1>1, <1>4 DEF PlusDays
  <2>2. d.d + n \in 1 .. 31
    BY <1>1, <1>4
  <2>3. DayNumber(PlusDays(d, n)) = DayNumber(d) + n
    <3>1. /\ DayNumber([y |-> d.y, m |-> d.m, d |-> d.d + n])
               = DayNumber([y |-> d.y, m |-> d.m, d |-> 1]) + (d.d + n) - 1
          /\ DayNumber(d) = DayNumber([y |-> d.y, m |-> d.m, d |-> 1]) + d.d - 1
      BY <1>1, <1>3, <2>2
    <3>2. DayNumber([y |-> d.y, m |-> d.m, d |-> 1]) \in Int
      BY <1>1 DEF DayNumber
    <3>. QED
      BY <1>1, <2>1, <3>1, <3>2
  <2>. QED
    BY <1>1, <1>4, <2>1, <2>2, <2>3 DEF ADate
<1>5. CASE ~ (d.d + n <= L)
  <2>. DEFINE k == d.d + n - L
  <2>1. PlusDays(d, n) = [y |-> n1.y, m |-> n1.m, d |-> k]
    BY <1>5 DEF PlusDays
  <2>2. k \in 1 .. 28
    BY <1>1, <1>5
  <2>3. DayNumber([y |-> n1.y, m |-> n1.m, d |-> 1]) = DayNumber([y |-> d.y, m |-> d.m, d |-> 1]) + L
    <3>1. [d EXCEPT !.d = 1] = [y |-> d.y, m |-> d.m, d |-> 1]
      BY <1>1
    <3>. QED
      BY <3>1, MonthCounted
  <2>4. /\ DayNumber([y |-> n1.y, m |-> n1.m, d |-> k])
             = DayNumber([y |-> n1.y, m |-> n1.m, d |-> 1]) + k - 1
        /\ DayNumber(d) = DayNumber([y |-> d.y, m |-> d.m, d |-> 1]) + d.d - 1
    <3>1. n1.y \in Nat \ {0} /\ n1.m \in 1 .. 12 /\ k \in 1 .. 31
      BY <1>2, <2>2
    <3>. HIDE DEF n1, k
    <3>. QED
      BY <1>1, <1>3, <3>1
  <2>5. DayNumber([y |-> d.y, m |-> d.m, d |-> 1]) \in Int
    BY <1>1 DEF DayNumber
  <2>6. DayNumber([y |-> n1.y, m |-> n1.m, d |-> k]) = DayNumber(d) + n
    <3>. HIDE DEF n1, L
    <3>. QED
      BY <1>1, <2>2, <2>3, <2>4, <2>5
  <2>7. [y |-> n1.y, m |-> n1.m, d |-> k] \in ADate
    <3>. HIDE DEF n1, k
    <3>. QED
      BY <1>2, <2>2 DEF ADate
  <2>8. PlusDays(d, n).y = n1.y
    BY <2>1
  <2>. QED
    BY <1>2, <2>1, <2>6, <2>7, <2>8
<1>. QED
  BY <1>4, <1>5

LEMMA MonthAdded ==
  ASSUME NEW d \in ADate
  PROVE  /\ PlusMonth(d) \in ADate
         /\ MonthNumber(PlusMonth(d)) = MonthNumber(d) + 1
         /\ PlusMonth(d).y >= d.y
         /\ PlusMonth(d).d <= d.d
         /\ PlusMonth(d).d <= DaysIn(PlusMonth(d).y, PlusMonth(d).m)
         /\ \/ PlusMonth(d).d = d.d
            \/ PlusMonth(d).d = DaysIn(PlusMonth(d).y, PlusMonth(d).m)
<1>. DEFINE n1 == NextMonth(d)
            k == IF d.d <= DaysIn(n1.y, n1.m) THEN d.d ELSE DaysIn(n1.y, n1.m)
<1>1. /\ n1 \in [y: Nat \ {0}, m: 1 .. 12] /\ MonthNumber(n1) = MonthNumber(d) + 1
      /\ n1.y >= d.y /\ DaysIn(n1.y, n1.m) \in 28 .. 31 /\ d.d \in 1 .. 31
  BY NextMonthIs, MonthLength DEF ADate
<1>2. PlusMonth(d) = [y |-> n1.y, m |-> n1.m, d |-> k]
  BY DEF PlusMonth
<1>. HIDE DEF n1
<1>3. k \in 1 .. 31 /\ k <= d.d /\ k <= DaysIn(n1.y, n1.m)
      /\ (k = d.d \/ k = DaysIn(n1.y, n1.m))
  BY <1>1
<1>. HIDE DEF k
<1>. QED
  BY <1>1, <1>2, <1>3 DEF ADate, MonthNumber

-----------------------------------------------------------------------------
(* Calendar: the inductive invariant *)

Kinds == {"DAILY", "WEEKLY", "MONTHLY"}

\* Besides what is promised: the dates are dates, within the years that are followed.
CalendarInv ==
  /\ kind \in Kinds \cup {"NONE"} /\ runs \in Nat
  /\ kind # "NONE" =>
       /\ start \in ADate /\ due \in ADate /\ start.y = FirstYear
       /\ FirstYear <= due.y /\ due.y <= LastYear
  /\ CalendarKept

LEMMA CreatedKeeps ==
  ASSUME CalendarInv, NEW k \in Kinds, NEW d \in Dates(FirstYear, StartDays), Created(k, d)
  PROVE  CalendarInv'
<1>1. /\ d \in ADate /\ d.y = FirstYear /\ FirstYear \in Nat /\ LastYear \in Nat
      /\ FirstYear <= LastYear /\ d.d <= DaysIn(d.y, d.m)
  BY CalendarAssumption DEF Dates, ADate
<1>2. /\ kind' = k /\ start' = d /\ due' = d /\ runs' = 0 /\ k # "NONE"
  BY DEF Created, CalendarInv, CalendarKept, Kinds
<1>3. DayNumber(d) \in Int /\ MonthNumber(d) \in Int
  BY <1>1 DEF ADate, DayNumber, MonthNumber
<1>4. \A m \in MonthsPassed' : d.d <= DaysIn(m.y, m.m)
  <2>. SUFFICES ASSUME NEW m \in MonthsPassed' PROVE m.y = d.y /\ m.m = d.m
    BY <1>1
  <2>1. m \in [y: FirstYear .. LastYear, m: 1 .. 12] /\ MonthNumber(m) = MonthNumber(d)
    BY <1>2, <1>3 DEF MonthsPassed, MonthNumber
  <2>. QED
    BY <1>1, <2>1 DEF MonthNumber, ADate
<1>5. CalendarKept'
  <2>1. /\ DayNumber(due)' = DayNumber(d) /\ DayNumber(start)' = DayNumber(d)
        /\ MonthNumber(due)' = MonthNumber(d) /\ MonthNumber(start)' = MonthNumber(d)
    BY <1>2 DEF DayNumber, MonthNumber
  <2>2. d.d \in Nat
    BY <1>1 DEF ADate
  <2>3. CASE k = "DAILY"
    BY <1>2, <1>3, <2>1, <2>3 DEF CalendarKept
  <2>4. CASE k = "WEEKLY"
    BY <1>2, <1>3, <2>1, <2>4 DEF CalendarKept
  <2>5. CASE k = "MONTHLY"
    BY <1>2, <1>3, <1>4, <2>1, <2>2, <2>5 DEF CalendarKept
  <2>. QED
    BY <2>3, <2>4, <2>5 DEF Kinds
<1>. QED
  BY <1>1, <1>2, <1>5 DEF CalendarInv

LEMMA AdvanceKeeps ==
  ASSUME CalendarInv, Advance
  PROVE  CalendarInv'
<1>1. /\ kind \in Kinds /\ kind' = kind /\ start' = start /\ due' = Step(kind, due)
      /\ runs \in Nat /\ runs' = runs + 1 /\ due'.y <= LastYear
      /\ start \in ADate /\ due \in ADate /\ start.y = FirstYear /\ FirstYear <= due.y
      /\ CalendarKept
  BY DEF Advance, CalendarInv
<1>2. /\ FirstYear \in Nat /\ LastYear \in Nat
      /\ DayNumber(start) \in Int /\ DayNumber(due) \in Int
      /\ MonthNumber(start) \in Int /\ MonthNumber(due) \in Int /\ due.y \in Nat
  BY <1>1, CalendarAssumption DEF ADate, DayNumber, MonthNumber
<1>3. CASE kind = "DAILY"
  <2>1. /\ due' \in ADate /\ DayNumber(due') = DayNumber(due) + 1 /\ due'.y >= due.y
    <3>1. due' = PlusDays(due, 1) /\ 1 \in 1 .. 28
      BY <1>1, <1>3 DEF Step
    <3>. QED
      BY <1>1, <3>1, DaysCounted
  <2>2. FirstYear <= due'.y
    BY <1>1, <1>2, <2>1 DEF ADate
  <2>3. CalendarKept'
    BY <1>1, <1>2, <1>3, <2>1 DEF CalendarKept
  <2>. QED
    BY <1>1, <2>1, <2>2, <2>3 DEF CalendarInv
<1>4. CASE kind = "WEEKLY"
  <2>1. /\ due' \in ADate /\ DayNumber(due') = DayNumber(due) + 7 /\ due'.y >= due.y
    <3>1. due' = PlusDays(due, 7) /\ 7 \in 1 .. 28
      BY <1>1, <1>4 DEF Step
    <3>. QED
      BY <1>1, <3>1, DaysCounted
  <2>2. FirstYear <= due'.y
    BY <1>1, <1>2, <2>1 DEF ADate
  <2>3. CalendarKept'
    BY <1>1, <1>2, <1>4, <2>1 DEF CalendarKept
  <2>. QED
    BY <1>1, <2>1, <2>2, <2>3 DEF CalendarInv
<1>5. CASE kind = "MONTHLY"
  <2>. DEFINE new == [y |-> due'.y, m |-> due'.m]
  <2>1. /\ due' \in ADate /\ MonthNumber(due') = MonthNumber(due) + 1 /\ due'.y >= due.y
        /\ due'.d <= due.d /\ due'.d <= DaysIn(due'.y, due'.m)
        /\ due'.d = due.d \/ due'.d = DaysIn(due'.y, due'.m)
    BY <1>1, <1>5, MonthAdded DEF Step
  <2>2. /\ MonthNumber(due) = MonthNumber(start) + runs
        /\ due.d <= start.d
        /\ \A m \in MonthsPassed : due.d <= DaysIn(m.y, m.m)
        /\ due.d = start.d \/ \E m \in MonthsPassed : due.d = DaysIn(m.y, m.m)
    BY <1>1, <1>5 DEF CalendarKept
  <2>3. FirstYear <= due'.y /\ due'.y \in Nat /\ due'.m \in 1 .. 12
    BY <1>1, <1>2, <2>1 DEF ADate
  <2>4. /\ due.d \in Nat /\ due'.d \in Nat /\ start.d \in Nat
        /\ \A y, m : DaysIn(y, m) \in Nat
    BY <1>1, <2>1, MonthLength DEF ADate
  <2>5. MonthsPassed' = MonthsPassed \cup {new}
    <3>1. new \in [y: FirstYear .. LastYear, m: 1 .. 12] /\ MonthNumber(new) = MonthNumber(due')
      BY <1>1, <1>2, <2>3 DEF MonthNumber
    <3>2. ASSUME NEW m \in [y: FirstYear .. LastYear, m: 1 .. 12]
          PROVE  /\ MonthNumber(m) \in Int
                 /\ MonthNumber(m) = MonthNumber(new) => m = new
      <4>1. m = [y |-> m.y, m |-> m.m] /\ m.y \in Int /\ m.m \in 1 .. 12
        BY <1>2
      <4>2. MonthNumber(m) = MonthNumber(new) => m.y = due'.y /\ m.m = due'.m
        BY <2>3, <4>1 DEF MonthNumber
      <4>. QED
        BY <4>1, <4>2 DEF MonthNumber
    <3>3. ASSUME NEW m \in [y: FirstYear .. LastYear, m: 1 .. 12]
          PROVE  MonthNumber(m) \in MonthNumber(start) .. MonthNumber(due')
                   <=> MonthNumber(m) \in MonthNumber(start) .. MonthNumber(due) \/ m = new
      <4>. HIDE DEF new
      <4>. QED
        BY <1>1, <1>2, <2>1, <2>2, <3>1, <3>2
    <3>4. MonthsPassed' = {m \in [y: FirstYear .. LastYear, m: 1 .. 12] :
                             MonthNumber(m) \in MonthNumber(start) .. MonthNumber(due')}
      BY <1>1 DEF MonthsPassed, MonthNumber
    <3>. HIDE DEF new
    <3>. QED
      BY <3>1, <3>3, <3>4 DEF MonthsPassed
  <2>6. \A m \in MonthsPassed' : due'.d <= DaysIn(m.y, m.m)
    <3>1. \A m \in MonthsPassed : due'.d <= DaysIn(m.y, m.m)
      BY <2>1, <2>2, <2>4
    <3>. QED
      BY <2>1, <2>5, <3>1
  <2>7. due'.d = start.d \/ \E m \in MonthsPassed' : due'.d = DaysIn(m.y, m.m)
    <3>1. new \in MonthsPassed' /\ new.y = due'.y /\ new.m = due'.m
      BY <2>5
    <3>2. CASE due'.d = DaysIn(due'.y, due'.m)
      BY <3>1, <3>2
    <3>3. CASE due'.d = due.d
      BY <2>2, <2>5, <3>3
    <3>. QED
      BY <2>1, <3>2, <3>3
  <2>8. MonthNumber(due') = MonthNumber(start) + (runs + 1) /\ due'.d <= start.d
    BY <1>1, <1>2, <2>1, <2>2, <2>4
  <2>9. CalendarKept'
    <3>1. MonthNumber(due)' = MonthNumber(due') /\ MonthNumber(start)' = MonthNumber(start)
      BY <1>1 DEF MonthNumber
    <3>2. kind' = "MONTHLY" /\ start' = start /\ runs' = runs + 1
      BY <1>1, <1>5
    <3>. QED
      BY <2>6, <2>7, <2>8, <3>1, <3>2 DEF CalendarKept
  <2>. QED
    BY <1>1, <2>1, <2>3, <2>9 DEF CalendarInv
<1>. QED
  BY <1>1, <1>3, <1>4, <1>5 DEF Kinds

\* However often a standing order has run, over the ends of months, leap days and years: a
\* daily one is due as many days after its first occurrence, a weekly one seven times as
\* many, a monthly one as many months, on its day or on the last of the shortest month
\* since (schedule.repo.ts, advanceSchedule).
THEOREM DatesKept == CalendarSpec => []CalendarKept
<1>1. CalendarInit => CalendarInv
  BY DEF CalendarInit, CalendarInv, CalendarKept
<1>2. CalendarInv /\ [CalendarNext]_calendarVars => CalendarInv'
  <2>. SUFFICES ASSUME CalendarInv, [CalendarNext]_calendarVars PROVE CalendarInv'
    OBVIOUS
  <2>1. CASE UNCHANGED calendarVars
    BY <2>1 DEF calendarVars, CalendarInv, CalendarKept, MonthsPassed
  <2>2. CASE CalendarNext
    BY <2>2, CreatedKeeps, AdvanceKeeps DEF CalendarNext, Kinds
  <2>. QED
    BY <2>1, <2>2
<1>3. CalendarInv => CalendarKept
  BY DEF CalendarInv
<1>. QED
  BY <1>1, <1>2, <1>3, PTL DEF CalendarSpec
=============================================================================
