------------------------------- MODULE Splits -------------------------------
(***************************************************************************)
(* The arithmetic of a split bill: what each person is asked for (allocate *)
(* and allocate.ts), what the page announces before it is asked, and what  *)
(* the list and the detail of a bill say of the money collected while its  *)
(* legs are answered.  How a leg is answered is MoneyRequests.tla's        *)
(* matter: here any pending leg may get any outcome.                       *)
(*                                                                         *)
(* Amounts are bigint in the code, so there is no width to overflow.       *)
(***************************************************************************)
EXTENDS Integers, Sequences, FiniteSets, Functions

CONSTANTS
  MaxTotal, MaxWeight, MaxParty,  \* bounds: the bills that are tried
  MinShare                        \* MIN_TRANSFER_MINOR

ASSUME SplitsAssumption ==
  /\ MaxTotal \in Nat /\ MaxParty \in Nat /\ MaxWeight \in Nat \ {0}
  /\ MinShare \in Nat \ {0}

VARIABLES
  bill,  \* the input and the row of bill_splits
  leg    \* its money_requests, in the order of the participants

splitVars == <<bill, leg>>

Total(s) == FoldFunction(+, 0, s)

-----------------------------------------------------------------------------
(* allocate.ts *)

\* The first `total % count` of them pay one poisha more.
AllocateEvenly(total, count) ==
  [i \in 1 .. count |-> total \div count + (IF i <= total % count THEN 1 ELSE 0)]

\* Mutant: the leftover goes to the first positions, as in an even split.
AllocateToTheFirst(total, weight) ==
  LET W     == Total(weight)
      floor == [i \in DOMAIN weight |-> (total * weight[i]) \div W]
  IN  [i \in DOMAIN weight |-> floor[i] + (IF i <= total - Total(floor) THEN 1 ELSE 0)]

\* Largest remainder first, ties by position.  No weight is 0 (split.schemas.ts).
AllocateByWeight(total, weight) ==
  LET W         == Total(weight)
      share     == [i \in DOMAIN weight |-> (total * weight[i]) \div W]
      remainder == [i \in DOMAIN weight |-> (total * weight[i]) % W]
      Before(j, i) == \/ remainder[j] > remainder[i]
                      \/ remainder[j] = remainder[i] /\ j < i
      rank(i)   == Cardinality({j \in DOMAIN weight : Before(j, i)})
      leftover  == total - Total(share)
  IN  [i \in DOMAIN weight |-> share[i] + (IF rank(i) < leftover THEN 1 ELSE 0)]

-----------------------------------------------------------------------------
(* createSplit *)

\* A weight for everyone or for nobody; the creator's weight has a default.
BillInput ==
  [total: 1 .. MaxTotal, includeSelf: BOOLEAN, party: 1 .. MaxParty,
   weight: {<< >>}, selfWeight: {1}]
  \cup UNION {[total: 1 .. MaxTotal, includeSelf: BOOLEAN, party: {n},
               weight: [1 .. n -> 1 .. MaxWeight], selfWeight: 1 .. MaxWeight]
              : n \in 1 .. MaxParty}

\* The creator comes first, so that the legs line up with the participants.
Allocate(b) ==
  IF b.weight # << >>
  THEN AllocateByWeight(b.total,
         IF b.includeSelf THEN <<b.selfWeight>> \o b.weight ELSE b.weight)
  ELSE AllocateEvenly(b.total, b.party + (IF b.includeSelf THEN 1 ELSE 0))

\* Mutant: the creator's share is taken from the other end.
SharesButTheLast(b) ==
  LET share == Allocate(b) IN
    IF b.includeSelf THEN SubSeq(share, 1, Len(share) - 1) ELSE share

LegShares(b) == IF b.includeSelf THEN Tail(Allocate(b)) ELSE Allocate(b)

NoBill == [total |-> 0]

\* Refused, before anything is written, when the shares do not add up to the bill or
\* one of them is below the smallest transfer.
CreateSplit(b) ==
  /\ bill = NoBill
  /\ Total(Allocate(b)) = b.total
  /\ \A i \in DOMAIN LegShares(b) : LegShares(b)[i] >= MinShare
  /\ bill' = b
  /\ leg' = [i \in 1 .. b.party |-> [amount |-> LegShares(b)[i], status |-> "PENDING"]]

\* One of the ends a request can have.
LegEnds(i, status) ==
  /\ leg[i].status = "PENDING"
  /\ leg' = [leg EXCEPT ![i].status = status]
  /\ UNCHANGED bill

SplitInit == bill = NoBill /\ leg = << >>

SplitNext ==
  \/ \E b \in BillInput : CreateSplit(b)
  \/ \E i \in DOMAIN leg, s \in {"ACCEPTED", "DECLINED", "CANCELLED", "EXPIRED"} : LegEnds(i, s)

SplitSpec == SplitInit /\ [][SplitNext]_splitVars

-----------------------------------------------------------------------------
(* What people are shown *)

\* listLegs, one share for each of the people who were asked.
Legs(S) == Total([i \in S |-> leg[i].amount])

\* splitDTO: the creator's share is what nobody was asked for.
Detail ==
  LET requested == Legs(DOMAIN leg)
      collected == Legs({i \in DOMAIN leg : leg[i].status = "ACCEPTED"})
  IN  [total |-> bill.total, yourShare |-> bill.total - requested,
       collected |-> collected, outstanding |-> requested - collected,
       settled |-> Cardinality({i \in DOMAIN leg : leg[i].status = "ACCEPTED"})]

Creator  == 0
NotFound == [total |-> 0, yourShare |-> 0, collected |-> 0, outstanding |-> 0, settled |-> 0]

\* getSplit: for the creator and for those who were asked for a share.
GetSplit(viewer) == IF viewer = Creator \/ viewer \in DOMAIN leg THEN Detail ELSE NotFound

\* listSplits: the same in one aggregate over the joined rows, FILTER (WHERE ...).
Summary ==
  LET accepted == {i \in DOMAIN leg : leg[i].status = "ACCEPTED"}
  IN  [total |-> bill.total, collected |-> Legs(accepted),
       outstanding |-> Legs(DOMAIN leg) - Legs(accepted),
       settled |-> Cardinality(accepted)]

\* The page works out the shares by itself while the form is filled in, evenly.
Preview(total, includeSelf, party) ==
  LET headcount == party + (IF includeSelf THEN 1 ELSE 0) IN
    [k \in 1 .. headcount |->
       IF k - 1 < total % headcount THEN total \div headcount + 1 ELSE total \div headcount]

-----------------------------------------------------------------------------
(* Properties *)

\* The shares of a bill add up to it, each is its exact proportion rounded up or down,
\* and no poisha could be moved from one person to another to bring the two nearer to
\* what is exactly theirs: none is lost, made, or handed to somebody out of turn
\* (allocate.ts:9-13).
SharesAreFair ==
  bill # NoBill =>
    LET asked  == [i \in DOMAIN leg |-> leg[i].amount]
        share  == IF bill.includeSelf THEN <<Detail.yourShare>> \o asked ELSE asked
        weight == IF bill.weight = << >> THEN [i \in DOMAIN share |-> 1]
                  ELSE IF bill.includeSelf THEN <<bill.selfWeight>> \o bill.weight
                  ELSE bill.weight
        W      == Total(weight)
        excess == [i \in DOMAIN share |-> share[i] * W - bill.total * weight[i]]
    IN  /\ Total(share) = bill.total
        /\ \A i \in DOMAIN share : -W < excess[i] /\ excess[i] < W
        /\ \A i, k \in DOMAIN share : excess[i] - excess[k] <= W

\* What the page announced is what people are asked for; and the list of bills and the
\* detail, whoever of the people involved opens it, tell the same of the money that has
\* come in and of what is still out, whatever has become of the legs (Splits.tsx:50-51).
ViewsAgree ==
  bill # NoBill =>
    /\ bill.weight = << >> =>
         LET shown == Preview(bill.total, bill.includeSelf, bill.party) IN
           (IF bill.includeSelf THEN <<Detail.yourShare>> ELSE << >>)
             \o [i \in DOMAIN leg |-> leg[i].amount] = shown
    /\ \A viewer \in {Creator} \cup DOMAIN leg, f \in DOMAIN Summary :
         Summary[f] = GetSplit(viewer)[f]
    /\ Detail.yourShare + Detail.collected + Detail.outstanding = bill.total
=============================================================================
