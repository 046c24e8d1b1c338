---------------------------- MODULE LedgerProofs ----------------------------
(***************************************************************************)
(* Proofs about Ledger, for any accounts, amounts, requests and number of  *)
(* transactions: its invariants, the refinement of AbstractLedger, that    *)
(* nobody waits in a circle for a lock, and that the audit of              *)
(* Reconciliation passes.                                                  *)
(***************************************************************************)
EXTENDS Reconciliation, Sums

-----------------------------------------------------------------------------
(* The inductive invariant *)

Moving == {"gated", "first", "both", "posted"}

\* Which steps a transaction of each kind goes through, that only a committed
\* transaction has a transfer, and that a reversal names one and a
\* freeze a registered account.
Shape(t) ==
  /\ pc[t] = "idle" <=> call[t] = NoCall
  /\ pc[t] = "claimed" => call[t].op \in Keyed
  /\ pc[t] = "loaded" => call[t].op = "REVERSAL"
  /\ pc[t] \in {"gated", "first", "posted"} => call[t].op # "STATUS"
  /\ t \in DOMAIN transfer => pc[t] = "committed" /\ call[t].op # "STATUS"
  /\ call[t].op = "REVERSAL" => call[t].of \in DOMAIN transfer
  /\ call[t].op = "STATUS" => status[call[t].user] # "ABSENT"

\* The movement is that of the request.
Movement(t) ==
  (pc[t] \in Moving \cup {"loaded"} /\ call[t].op # "STATUS") =>
    /\ leg[t] \in LegType /\ leg[t].from # leg[t].to
    /\ call[t].op = "P2P" =>
         /\ leg[t] = [from |-> call[t].from, to |-> call[t].to, amount |-> call[t].amount]
         /\ status[call[t].to] # "ABSENT"
    /\ call[t].op = "MINT" =>
         leg[t] = [from |-> call[t].from, to |-> call[t].user, amount |-> call[t].amount]
    /\ call[t].op = "REVERSAL" =>
         /\ transfer[call[t].of].type \notin {"MINT", "REVERSAL"}
         /\ leg[t] = [from |-> transfer[call[t].of].to, to |-> transfer[call[t].of].from,
                      amount |-> transfer[call[t].of].amount]

\* What a transaction read under its locks is still so.
Held(t) ==
  /\ (pc[t] \in Moving \cup {"claimed", "loaded"} /\ call[t].op \in Keyed) =>
       keyLock[call[t].key] = t /\ call[t].key \notin DOMAIN keyRow
  /\ (pc[t] \in Moving /\ call[t].op = "MINT") =>
       accountLock[call[t].user] = t /\ status[call[t].user] = "ABSENT"
  /\ (pc[t] \in Moving /\ call[t].op = "REVERSAL") =>
       transferLock[call[t].of] = t /\ transfer[call[t].of].status = "COMPLETED"
  /\ pc[t] \in {"first", "posted"} => accountLock[FirstLock(t)] = t
  /\ pc[t] = "posted" => accountLock[SecondLock(t)] = t
  /\ (pc[t] = "both" /\ call[t].op # "STATUS") =>
       accountLock[FirstLock(t)] = t /\ accountLock[SecondLock(t)] = t
  /\ (pc[t] = "both" /\ call[t].op = "STATUS") =>
       accountLock[call[t].user] = t
  /\ pc[t] = "posted" =>
       /\ Payable(t)
       /\ after[t] = [from |-> balance[leg[t].from] - leg[t].amount,
                      to   |-> balance[leg[t].to] + leg[t].amount]

\* Nobody has paid himself.
RowsOK == \A t \in DOMAIN transfer : transfer[t].from # transfer[t].to

IInv ==
  /\ TypeOK
  /\ \A t \in Txn : Shape(t) /\ Movement(t) /\ Held(t)
  /\ RowsOK
  /\ FundsNeverNegative
  /\ ExactlyOnce
  /\ ReplayTellsTruth
  /\ ReversedOnce

-----------------------------------------------------------------------------
(* Lemmas about the operators *)

\* Each kind of request is recognised by its op.
LEMMA Kinds ==
  ASSUME NEW r \in Request \cup {NoCall}
  PROVE  /\ r.op \in {"P2P", "REVERSAL", "MINT", "STATUS", "NONE"}
         /\ r.op = "P2P" => r \in Send
         /\ r.op = "REVERSAL" => r \in Reversal
         /\ r.op = "MINT" => r \in Register
         /\ r.op = "STATUS" => r \in SetFrozen
         /\ r.op = "NONE" <=> r = NoCall
         /\ r.op # "NONE" <=> r \in Request
  BY LedgerAssumption DEF NoCall, Send, Reversal, Register, SetFrozen

\* Adding one row to a table.
LEMMA WithFacts ==
  ASSUME NEW f, NEW k, NEW v
  PROVE  /\ DOMAIN With(f, k, v) = DOMAIN f \cup {k}
         /\ With(f, k, v)[k] = v
         /\ \A x \in DOMAIN f \ {k} : With(f, k, v)[x] = f[x]
         /\ \A S, T : (f \in [S -> T] /\ v \in T) => With(f, k, v) \in [S \cup {k} -> T]
  BY DEF With

\* Freeing the locks of t leaves those of everybody else.
LEMMA FreedFacts ==
  ASSUME NEW S, NEW lock \in [S -> Txn \cup {Nobody}], NEW t \in Txn
  PROVE  /\ Freed(lock, t) \in [S -> Txn \cup {Nobody}]
         /\ \A x \in S, u \in Txn \ {t} : lock[x] = u => Freed(lock, t)[x] = u
  BY DEF Freed

\* The end of a transaction, whichever way, keeps the types of what it touches.
LEMMA EndFacts ==
  ASSUME TypeOK, NEW t \in Txn, NEW outcome \in Over, End(t, outcome)
  PROVE  /\ keyLock' \in [Key -> Txn \cup {Nobody}]
         /\ velocityLock' \in [User -> Txn \cup {Nobody}]
         /\ transferLock' \in [Txn -> Txn \cup {Nobody}]
         /\ accountLock' \in [Account -> Txn \cup {Nobody}]
         /\ pc' \in [Txn -> {"idle"} \cup Live \cup Over]
         /\ pc' = [pc EXCEPT ![t] = outcome]
         /\ UNCHANGED <<call, leg, after>>
         /\ \A u \in Txn \ {t} :
              /\ \A k \in Key : keyLock[k] = u => keyLock'[k] = u
              /\ \A a \in Account : accountLock[a] = u => accountLock'[a] = u
              /\ \A o \in Txn : transferLock[o] = u => transferLock'[o] = u
  <1>1. keyLock \in [Key -> Txn \cup {Nobody}] /\ keyLock' = Freed(keyLock, t)
    BY DEF TypeOK, End
  <1>2. velocityLock \in [User -> Txn \cup {Nobody}] /\ velocityLock' = Freed(velocityLock, t)
    BY DEF TypeOK, End
  <1>3. transferLock \in [Txn -> Txn \cup {Nobody}] /\ transferLock' = Freed(transferLock, t)
    BY DEF TypeOK, End
  <1>4. accountLock \in [Account -> Txn \cup {Nobody}] /\ accountLock' = Freed(accountLock, t)
    BY DEF TypeOK, End
  <1>5. pc' = [pc EXCEPT ![t] = outcome] /\ pc \in [Txn -> {"idle"} \cup Live \cup Over]
    BY DEF TypeOK, End
  <1>6. pc' \in [Txn -> {"idle"} \cup Live \cup Over]
    BY <1>5
  <1>7. UNCHANGED <<call, leg, after>>
    BY DEF End, local
  <1>8. ASSUME NEW u \in Txn \ {t}
        PROVE  /\ \A k \in Key : keyLock[k] = u => keyLock'[k] = u
               /\ \A a \in Account : accountLock[a] = u => accountLock'[a] = u
               /\ \A o \in Txn : transferLock[o] = u => transferLock'[o] = u
    BY <1>1, <1>3, <1>4, <1>8 DEF Freed
  <1>9. /\ keyLock' \in [Key -> Txn \cup {Nobody}]
        /\ velocityLock' \in [User -> Txn \cup {Nobody}]
        /\ transferLock' \in [Txn -> Txn \cup {Nobody}]
        /\ accountLock' \in [Account -> Txn \cup {Nobody}]
    BY <1>1, <1>2, <1>3, <1>4 DEF Freed
  <1> QED
    BY <1>5, <1>6, <1>7, <1>8, <1>9

-----------------------------------------------------------------------------
(* Type correctness *)

LEMMA InitTypeOK == Init => TypeOK
  BY LedgerAssumption DEF Init, TypeOK, Live, Over, NoLeg, NoAfter

LEMMA CommitRowTypes ==
  ASSUME IInv, NEW t \in Txn, Commit(t)
  PROVE  /\ balance' \in [Account -> Int]
         /\ status' \in [Account -> {"ABSENT", "ACTIVE", "FROZEN", "CLOSED"}]
         /\ DOMAIN transfer' = DOMAIN transfer \cup {t}
         /\ transfer' \in [DOMAIN transfer' -> RowType]
         /\ DOMAIN keyRow' \subseteq Key /\ keyRow' \in [DOMAIN keyRow' -> Txn]
  <1> USE DEF IInv
  <1>1. pc[t] = "posted" /\ call[t].op \in {"P2P", "REVERSAL", "MINT"}
        /\ call[t] \in Request /\ leg[t] \in LegType
    BY Kinds DEF Commit, Shape, Movement, Moving, TypeOK, Live, Over
  <1>2. balance' \in [Account -> Int]
    BY <1>1, LedgerAssumption DEF Commit, Moved, TypeOK, LegType
  <1>3. status' \in [Account -> {"ABSENT", "ACTIVE", "FROZEN", "CLOSED"}]
    BY <1>1 DEF Commit, TypeOK
  <1>4. DOMAIN Marked(t) = DOMAIN transfer /\ Marked(t) \in [DOMAIN transfer -> RowType]
    <2>1. CASE call[t].op = "REVERSAL"
      <3>1. call[t].of \in DOMAIN transfer
        BY <2>1 DEF Shape
      <3>2. Marked(t) = [transfer EXCEPT ![call[t].of].status = "REVERSED"]
        BY <2>1 DEF Marked
      <3>3. transfer \in [DOMAIN transfer -> RowType]
        BY DEF TypeOK
      <3>4. [transfer[call[t].of] EXCEPT !.status = "REVERSED"] \in RowType
        BY <3>1, <3>3 DEF RowType
      <3>. QED  BY <3>1, <3>2, <3>3, <3>4
    <2>2. CASE call[t].op # "REVERSAL"
      BY <2>2 DEF Marked, TypeOK
    <2>. QED  BY <2>1, <2>2
  <1>5. Row(t) \in RowType
    BY <1>1, LedgerAssumption DEF Row, RowType, LegType, TypeOK
  <1>6. transfer' \in [DOMAIN transfer \cup {t} -> RowType]
        /\ DOMAIN transfer' = DOMAIN transfer \cup {t}
    BY <1>4, <1>5, WithFacts DEF Commit
  <1>7. DOMAIN keyRow' \subseteq Key /\ keyRow' \in [DOMAIN keyRow' -> Txn]
    <2>1. CASE call[t].op \in Keyed
      <3>1. call[t].key \in Key
        BY <1>1, <2>1, Kinds DEF Keyed, Send, Reversal
      <3>2. keyRow' = With(keyRow, call[t].key, t)
        BY <2>1 DEF Commit, Answered
      <3>3. DOMAIN keyRow' = DOMAIN keyRow \cup {call[t].key}
        BY <3>2 DEF With
      <3>4. keyRow' \in [DOMAIN keyRow \cup {call[t].key} -> Txn]
        BY <3>2, WithFacts DEF TypeOK
      <3>. QED  BY <3>1, <3>3, <3>4 DEF TypeOK
    <2>2. CASE call[t].op \notin Keyed
      BY <2>2 DEF Commit, Answered, TypeOK
    <2>. QED  BY <2>1, <2>2
  <1>. QED  BY <1>2, <1>3, <1>6, <1>7

-----------------------------------------------------------------------------
(* Steps that change no committed row *)

\* What another transaction sees of a step of t.
Elsewhere(t) ==
  \A u \in Txn \ {t} :
    /\ pc'[u] = pc[u] /\ call'[u] = call[u]
    /\ leg'[u] = leg[u] /\ after'[u] = after[u]
    /\ \A k \in Key : keyLock[k] = u => keyLock'[k] = u
    /\ \A a \in Account : accountLock[a] = u => accountLock'[a] = u
    /\ \A o \in Txn : transferLock[o] = u => transferLock'[o] = u

Quiet(t) ==
  \/ Begin(t) \/ ClaimIdempotencyKey(t) \/ Replay(t)
  \/ EnforceVelocity(t) \/ LoadOriginal(t) \/ MarkReversed(t) \/ InsertAccount(t)
  \/ LockFirst(t) \/ LockSecond(t) \/ PostDoubleEntry(t)
  \/ LockOwnAccount(t) \/ Refuse(t) \/ Abort(t)

\* Such a step leaves the rows alone, keeps the types, and takes no lock from others.
LEMMA QuietStep ==
  ASSUME IInv, NEW t \in Txn, Quiet(t)
  PROVE  UNCHANGED rows /\ TypeOK' /\ Elsewhere(t) /\ t \notin DOMAIN transfer
  <1> USE DEF IInv
  <1>0. TypeOK /\ Shape(t) /\ Movement(t)
    OBVIOUS
  <1>1. CASE Begin(t)
    <2>1. PICK r \in Request : call' = [call EXCEPT ![t] = r]
      BY <1>1 DEF Begin
    <2>. QED  BY <1>0, <1>1, <2>1
           DEF Begin, Step, rows, locks, TypeOK, Elsewhere, Live, Over, Shape
  <1>2. CASE ClaimIdempotencyKey(t)
    <2>1. call[t].key \in Key /\ call[t].op \in Keyed
      BY <1>0, <1>2, Kinds DEF ClaimIdempotencyKey, AtKey, Keyed, TypeOK, Send, Reversal
    <2>. QED  BY <1>0, <1>2, <2>1, LedgerAssumption
           DEF ClaimIdempotencyKey, AtKey, Step, rows, local, TypeOK, Elsewhere, Live, Over, Shape
  <1>3. CASE \/ Replay(t) \/ Refuse(t) \/ Abort(t)
    <2>1. PICK outcome \in Over : End(t, outcome)
      BY <1>3 DEF Replay, Refuse, Abort, Over
    <2>2. UNCHANGED rows /\ pc[t] \in Live
      BY <1>3 DEF Replay, Refuse, Refused, Abort, Live
    <2>3. t \notin DOMAIN transfer
      BY <1>0, <2>2 DEF Shape, Live
    <2>4. TypeOK' /\ Elsewhere(t)
      BY <1>0, <2>1, <2>2, EndFacts DEF TypeOK, Elsewhere, rows
    <2>. QED  BY <2>2, <2>3, <2>4
  <1>4. CASE EnforceVelocity(t)
    <2>1. call[t] \in Send
      BY <1>0, <1>4, Kinds DEF EnforceVelocity, TypeOK
    <2>2. [from |-> call[t].from, to |-> call[t].to, amount |-> call[t].amount] \in LegType
      BY <2>1, LedgerAssumption DEF Send, LegType, User
    <2>3. call[t].from \in User
      BY <2>1 DEF Send
    <2>. QED  BY <1>0, <1>4, <2>2, <2>3, LedgerAssumption
           DEF EnforceVelocity, Takes, Step, rows, TypeOK, Elsewhere, Live, Over, Shape
  <1>5. CASE LoadOriginal(t)
    <2>1. call[t] \in Reversal /\ call[t].of \in DOMAIN transfer
      BY <1>0, <1>5, Kinds DEF LoadOriginal, TypeOK, Shape
    <2>2. PICK o \in RowType : o = transfer[call[t].of]
      BY <1>0, <2>1 DEF TypeOK
    <2>3. leg' = [leg EXCEPT ![t] = [from |-> o.to, to |-> o.from, amount |-> o.amount]]
          /\ [from |-> o.to, to |-> o.from, amount |-> o.amount] \in LegType
      BY <1>5, <2>2 DEF LoadOriginal, LegType, RowType
    <2>. QED  BY <1>0, <1>5, <2>3
           DEF LoadOriginal, Step, rows, locks, TypeOK, Elsewhere, Live, Over, Shape
  <1>6. CASE MarkReversed(t)
    <2>1. call[t].of \in Txn
      BY <1>0, <1>6, Kinds DEF MarkReversed, Step, TypeOK, Shape, Reversal
    <2>. QED  BY <1>0, <1>6, <2>1, LedgerAssumption
           DEF MarkReversed, Takes, Step, rows, local, TypeOK, Elsewhere, Live, Over, Shape
  <1>7. CASE InsertAccount(t)
    <2>1. call[t] \in Register
      BY <1>0, <1>7, Kinds DEF InsertAccount, TypeOK
    <2>2. [from |-> call[t].from, to |-> call[t].user, amount |-> call[t].amount] \in LegType
          /\ call[t].user \in Account
      BY <2>1, LedgerAssumption DEF Register, LegType, User
    <2>. QED  BY <1>0, <1>7, <2>2, LedgerAssumption
           DEF InsertAccount, Takes, Step, rows, TypeOK, Elsewhere, Live, Over, Shape
  <1>8. CASE LockFirst(t) \/ LockSecond(t)
    <2>1. leg[t] \in LegType
      BY <1>0, <1>8 DEF LockFirst, LockSecond, Step, Shape, Movement, Moving
    <2>2. FirstLock(t) \in Account /\ SecondLock(t) \in Account
      BY <2>1 DEF FirstLock, SecondLock, LockOrder, LegType
    <2>3. CASE LockFirst(t)
      BY <1>0, <2>2, <2>3, LedgerAssumption
      DEF LockFirst, Takes, Step, rows, local, TypeOK, Elsewhere, Live, Over, Shape
    <2>4. CASE LockSecond(t)
      BY <1>0, <2>2, <2>4, LedgerAssumption
      DEF LockSecond, Takes, Step, rows, local, TypeOK, Elsewhere, Live, Over, Shape
    <2>. QED  BY <1>8, <2>3, <2>4
  <1>9. CASE PostDoubleEntry(t)
    <2>1. leg[t] \in LegType
      BY <1>0, <1>9 DEF PostDoubleEntry, Step, Shape, Movement, Moving
    <2>2. [from |-> balance[leg[t].from] - leg[t].amount,
           to |-> balance[leg[t].to] + leg[t].amount] \in [from: Int, to: Int]
      BY <1>0, <2>1, LedgerAssumption DEF TypeOK, LegType
    <2>. QED  BY <1>0, <1>9, <2>2
           DEF PostDoubleEntry, Step, rows, locks, TypeOK, Elsewhere, Live, Over, Shape
  <1>10. CASE LockOwnAccount(t)
    <2>1. call[t].user \in Account
      BY <1>0, <1>10, Kinds DEF LockOwnAccount, TypeOK, SetFrozen, User
    <2>. QED  BY <1>0, <1>10, <2>1, LedgerAssumption
           DEF LockOwnAccount, Takes, Step, rows, local, TypeOK, Elsewhere, Live, Over, Shape
  <1>. QED  BY <1>1, <1>2, <1>3, <1>4, <1>5, <1>6, <1>7, <1>8, <1>9, <1>10 DEF Quiet

\* So what every other transaction has read and locked stands.
LEMMA QuietOthers ==
  ASSUME IInv, NEW t \in Txn, Quiet(t), NEW u \in Txn \ {t}
  PROVE  Shape(u)' /\ Movement(u)' /\ Held(u)'
  <1>1. Shape(u) /\ Movement(u) /\ Held(u) /\ TypeOK
    BY DEF IInv
  <1>2. UNCHANGED rows /\ Elsewhere(t)
    BY QuietStep
  <1>3. Shape(u)'
    BY <1>1, <1>2 DEF Shape, rows, Elsewhere
  <1>4. Movement(u)'
    BY <1>1, <1>2 DEF Movement, rows, Elsewhere
  <1>5. Held(u)'
    <2>1. /\ call[u].op \in Keyed => call[u].key \in Key
          /\ call[u].op \in {"MINT", "STATUS"} => call[u].user \in Account
          /\ call[u].op = "REVERSAL" => call[u].of \in Txn
      BY <1>1, Kinds DEF TypeOK, Keyed, Send, Reversal, Register, SetFrozen, User
    <2>2. pc[u] \in Moving /\ call[u].op # "STATUS" =>
            FirstLock(u) \in Account /\ SecondLock(u) \in Account
      BY <1>1 DEF Movement, FirstLock, SecondLock, LockOrder, LegType
    <2>3. FirstLock(u)' = FirstLock(u) /\ SecondLock(u)' = SecondLock(u)
      BY <1>2 DEF Elsewhere, FirstLock, SecondLock
    <2>4. Payable(u)' <=> Payable(u)
      BY <1>2 DEF Elsewhere, Payable, rows
    <2>. QED  BY <1>1, <1>2, <2>1, <2>2, <2>3, <2>4
           DEF Held, Elsewhere, rows, Moving, Keyed, Shape
  <1>. QED  BY <1>3, <1>4, <1>5

\* And the transaction itself knows what it has just read and locked.
LEMMA QuietSelf ==
  ASSUME IInv, NEW t \in Txn, Quiet(t)
  PROVE  Shape(t)' /\ Movement(t)' /\ Held(t)'
  <1>0. TypeOK /\ Shape(t) /\ Movement(t) /\ Held(t) /\ RowsOK
    BY DEF IInv
  <1>a. UNCHANGED rows /\ t \notin DOMAIN transfer /\ TypeOK'
    BY QuietStep
  <1>b. UNCHANGED <<balance, status, transfer, keyRow>>
    BY <1>a DEF rows
  <1>1. CASE Begin(t)
    <2>1. PICK r \in Request : Admitted(r) /\ call' = [call EXCEPT ![t] = r]
      BY <1>1 DEF Begin
    <2>2. call'[t] = r /\ pc'[t] = "begun" /\ r # NoCall
      BY <1>0, <1>1, <2>1, Kinds DEF Begin, Step, TypeOK, NoCall
    <2>3. Shape(t)'
      BY <1>a, <1>b, <2>1, <2>2 DEF Shape, Admitted
    <2>. QED  BY <2>2, <2>3 DEF Movement, Held, Moving
  <1>2. CASE ClaimIdempotencyKey(t)
    <2>1. call[t].op \in Keyed /\ call[t].key \in Key
      BY <1>0, <1>2, Kinds DEF ClaimIdempotencyKey, AtKey, Keyed, TypeOK, Send, Reversal
    <2>2. pc'[t] = "claimed" /\ UNCHANGED local /\ keyLock'[call[t].key] = t
          /\ call[t].key \notin DOMAIN keyRow /\ pc[t] = "begun"
      BY <1>0, <1>2, <2>1 DEF ClaimIdempotencyKey, Step, TypeOK
    <2>. QED  BY <1>0, <1>a, <1>b, <2>1, <2>2 DEF Shape, Movement, Held, Moving, local, Keyed
  <1>3. CASE Replay(t) \/ Refuse(t) \/ Abort(t)
    <2>1. PICK outcome \in Over : End(t, outcome)
      BY <1>3 DEF Replay, Refuse, Abort, Over
    <2>2. pc'[t] = outcome /\ UNCHANGED local /\ pc[t] \in Live
      BY <1>0, <1>3, <2>1 DEF End, TypeOK, Replay, Refuse, Refused, Abort, Live
    <2>. QED  BY <1>0, <1>a, <1>b, <2>1, <2>2
           DEF Shape, Movement, Held, Moving, local, Over, Live
  <1>4. CASE EnforceVelocity(t)
    <2>1. call[t] \in Send
      BY <1>0, <1>4, Kinds DEF EnforceVelocity, TypeOK
    <2>2. /\ pc[t] = "claimed" /\ pc'[t] = "gated" /\ UNCHANGED <<call, keyLock>>
          /\ leg'[t] = [from |-> call[t].from, to |-> call[t].to, amount |-> call[t].amount]
          /\ status[call[t].to] # "ABSENT" /\ call[t].to # call[t].from
      BY <1>0, <1>4 DEF EnforceVelocity, Step, TypeOK
    <2>3. leg'[t] \in LegType /\ leg'[t].from # leg'[t].to
      BY <2>1, <2>2 DEF LegType, Send, User
    <2>. QED  BY <1>0, <1>a, <1>b, <2>1, <2>2, <2>3
           DEF Shape, Movement, Held, Moving, Keyed, Send
  <1>5. CASE LoadOriginal(t)
    <2>1. call[t] \in Reversal /\ call[t].of \in DOMAIN transfer
      BY <1>0, <1>5, Kinds DEF LoadOriginal, TypeOK, Shape
    <2>2. PICK o \in RowType : o = transfer[call[t].of]
      BY <1>0, <2>1 DEF TypeOK
    <2>3. /\ pc[t] = "claimed" /\ pc'[t] = "loaded" /\ UNCHANGED <<call, keyLock>>
          /\ leg'[t] = [from |-> o.to, to |-> o.from, amount |-> o.amount]
          /\ o.type \notin {"MINT", "REVERSAL"}
      BY <1>0, <1>5, <2>2 DEF LoadOriginal, Step, TypeOK, Reversible, locks
    <2>4. leg'[t] \in LegType /\ leg'[t].from # leg'[t].to
      BY <1>0, <2>1, <2>2, <2>3 DEF LegType, RowType, RowsOK
    <2>. QED  BY <1>0, <1>a, <1>b, <2>1, <2>2, <2>3, <2>4
           DEF Shape, Movement, Held, Moving, Keyed, Reversal
  <1>6. CASE MarkReversed(t)
    <2>1. call[t] \in Reversal /\ call[t].op = "REVERSAL"
      BY <1>0, <1>6, Kinds DEF MarkReversed, Step, TypeOK, Shape
    <2>2. /\ pc[t] = "loaded" /\ pc'[t] = "gated" /\ UNCHANGED local /\ UNCHANGED keyLock
          /\ transferLock'[call[t].of] = t /\ transfer[call[t].of].status = "COMPLETED"
      BY <1>0, <1>6, <2>1 DEF MarkReversed, Step, TypeOK, StillCompleted, Takes, Reversal
    <2>. QED  BY <1>0, <1>a, <1>b, <2>1, <2>2
           DEF Shape, Movement, Held, Moving, Keyed, local
  <1>7. CASE InsertAccount(t)
    <2>1. call[t] \in Register /\ call[t].op = "MINT"
      BY <1>0, <1>7, Kinds DEF InsertAccount, TypeOK
    <2>2. /\ pc[t] = "begun" /\ pc'[t] = "gated" /\ UNCHANGED call
          /\ leg'[t] = [from |-> call[t].from, to |-> call[t].user, amount |-> call[t].amount]
          /\ status[call[t].user] = "ABSENT" /\ accountLock'[call[t].user] = t
      BY <1>0, <1>7, <2>1 DEF InsertAccount, Step, TypeOK, Takes, Register, User
    <2>3. leg'[t] \in LegType /\ leg'[t].from # leg'[t].to
      <3>1. call[t].from \in System /\ call[t].user \in Account \ System
            /\ call[t].amount \in Amount /\ System \subseteq Account
        BY <2>1, LedgerAssumption DEF Register, User
      <3>. QED  BY <2>2, <3>1 DEF LegType
    <2>. QED  BY <1>0, <1>a, <1>b, <2>1, <2>2, <2>3
           DEF Shape, Movement, Held, Moving, Keyed
  <1>8. CASE LockFirst(t)
    <2>1. leg[t] \in LegType /\ FirstLock(t) \in Account
      BY <1>0, <1>8 DEF LockFirst, Step, Shape, Movement, Moving, FirstLock, LockOrder, LegType
    <2>2. /\ pc[t] = "gated" /\ pc'[t] = "first" /\ UNCHANGED local
          /\ UNCHANGED <<keyLock, transferLock>> /\ accountLock'[FirstLock(t)] = t
          /\ \A a \in Account : accountLock[a] = t => accountLock'[a] = t
      BY <1>0, <1>8, <2>1 DEF LockFirst, Step, TypeOK, Takes
    <2>3. FirstLock(t)' = FirstLock(t)
      BY <2>2 DEF FirstLock, local
    <2>4. call[t].op = "MINT" => call[t].user \in Account
      BY <1>0, Kinds DEF TypeOK, Register, User
    <2>. QED  BY <1>0, <1>a, <1>b, <2>1, <2>2, <2>3, <2>4
           DEF Shape, Movement, Held, Moving, Keyed, local
  <1>9. CASE LockSecond(t)
    <2>1. leg[t] \in LegType /\ FirstLock(t) \in Account /\ SecondLock(t) \in Account
      BY <1>0, <1>9
      DEF LockSecond, Step, Shape, Movement, Moving, FirstLock, SecondLock, LockOrder, LegType
    <2>2. /\ pc[t] = "first" /\ pc'[t] = "both" /\ UNCHANGED local
          /\ UNCHANGED <<keyLock, transferLock>> /\ accountLock'[SecondLock(t)] = t
          /\ \A a \in Account : accountLock[a] = t => accountLock'[a] = t
      BY <1>0, <1>9, <2>1 DEF LockSecond, Step, TypeOK, Takes
    <2>3. FirstLock(t)' = FirstLock(t) /\ SecondLock(t)' = SecondLock(t)
      BY <2>2 DEF FirstLock, SecondLock, local
    <2>4. call[t].op = "MINT" => call[t].user \in Account
      BY <1>0, Kinds DEF TypeOK, Register, User
    <2>5. call[t].op # "STATUS"
      BY <1>0, <2>2 DEF Shape
    <2>. QED  BY <1>0, <1>a, <1>b, <2>1, <2>2, <2>3, <2>4, <2>5
           DEF Shape, Movement, Held, Moving, Keyed, local
  <1>10. CASE PostDoubleEntry(t)
    <2>1. /\ pc[t] = "both" /\ pc'[t] = "posted" /\ call[t].op # "STATUS"
          /\ UNCHANGED <<call, leg, keyLock, transferLock, accountLock>> /\ Payable(t)
          /\ after'[t] = [from |-> balance[leg[t].from] - leg[t].amount,
                          to   |-> balance[leg[t].to] + leg[t].amount]
      BY <1>0, <1>10 DEF PostDoubleEntry, Step, TypeOK, locks
    <2>2. /\ FirstLock(t)' = FirstLock(t) /\ SecondLock(t)' = SecondLock(t)
          /\ Payable(t)'
      BY <1>b, <2>1 DEF FirstLock, SecondLock, Payable
    <2>. QED  BY <1>0, <1>a, <1>b, <2>1, <2>2 DEF Shape, Movement, Held, Moving, Keyed
  <1>11. CASE LockOwnAccount(t)
    <2>1. call[t] \in SetFrozen /\ call[t].op = "STATUS" /\ call[t].user \in Account
      BY <1>0, <1>11, Kinds DEF LockOwnAccount, TypeOK, SetFrozen, User
    <2>2. /\ pc[t] = "begun" /\ pc'[t] = "both" /\ UNCHANGED local
          /\ accountLock'[call[t].user] = t
      BY <1>0, <1>11, <2>1 DEF LockOwnAccount, Step, TypeOK, Takes
    <2>. QED  BY <1>0, <1>a, <1>b, <2>1, <2>2 DEF Shape, Movement, Held, Moving, Keyed, local
  <1>. QED  BY <1>1, <1>2, <1>3, <1>4, <1>5, <1>6, <1>7, <1>8, <1>9, <1>10, <1>11 DEF Quiet

-----------------------------------------------------------------------------
(* Steps that commit *)

\* A posted transaction holds both its rows.
LEMMA PostedHolds ==
  ASSUME IInv, NEW t \in Txn, pc[t] = "posted"
  PROVE  /\ leg[t] \in LegType
         /\ accountLock[leg[t].from] = t /\ accountLock[leg[t].to] = t
  <1>1. Shape(t) /\ Movement(t) /\ Held(t)
    BY DEF IInv
  <1>2. leg[t] \in LegType
    BY <1>1 DEF Shape, Movement, Moving
  <1>. QED  BY <1>1, <1>2 DEF Held, FirstLock, SecondLock, LockOrder, LegType

\* What COMMIT writes, row by row.
Written(t) ==
  /\ pc[t] = "posted" /\ call[t] \in Request
  /\ call[t].op \in {"P2P", "REVERSAL", "MINT"}
  /\ t \notin DOMAIN transfer /\ DOMAIN transfer' = DOMAIN transfer \cup {t}
  /\ transfer'[t] = Row(t)
  /\ \A o \in DOMAIN transfer :
       /\ transfer'[o].type = transfer[o].type
       /\ transfer'[o].from = transfer[o].from
       /\ transfer'[o].to = transfer[o].to
       /\ transfer'[o].amount = transfer[o].amount
       /\ (call[t].op = "REVERSAL" /\ o = call[t].of) =>
            transfer'[o].status = "REVERSED"
       /\ ~(call[t].op = "REVERSAL" /\ o = call[t].of) =>
            transfer'[o] = transfer[o]
  /\ call[t].op \in Keyed =>
       /\ DOMAIN keyRow' = DOMAIN keyRow \cup {call[t].key}
       /\ keyRow'[call[t].key] = t
       /\ call[t].key \notin DOMAIN keyRow
  /\ call[t].op \notin Keyed => keyRow' = keyRow
  /\ \A k \in DOMAIN keyRow : keyRow'[k] = keyRow[k]

LEMMA CommitFacts ==
  ASSUME IInv, NEW t \in Txn, Commit(t)
  PROVE  Written(t)
  <1>0. TypeOK /\ Shape(t) /\ Movement(t) /\ Held(t)
    BY DEF IInv
  <1>1. pc[t] = "posted" /\ call[t] \in Request /\ call[t].op \in {"P2P", "REVERSAL", "MINT"}
    BY <1>0, Kinds DEF Commit, Shape, TypeOK
  <1>2. t \notin DOMAIN transfer
    BY <1>0, <1>1 DEF Shape
  <1>3. transfer' = With(Marked(t), t, Row(t))
    BY DEF Commit
  <1>4. DOMAIN transfer' = DOMAIN transfer \cup {t}
    BY CommitRowTypes
  <1>5. transfer'[t] = Row(t)
    BY <1>3 DEF With
  <1>6. ASSUME NEW o \in DOMAIN transfer
        PROVE  /\ transfer'[o].type = transfer[o].type
               /\ transfer'[o].from = transfer[o].from
               /\ transfer'[o].to = transfer[o].to
               /\ transfer'[o].amount = transfer[o].amount
               /\ (call[t].op = "REVERSAL" /\ o = call[t].of) =>
                    transfer'[o].status = "REVERSED"
               /\ ~(call[t].op = "REVERSAL" /\ o = call[t].of) =>
                    transfer'[o] = transfer[o]
    <2>1. o # t
      BY <1>2
    <2>2. transfer[o] \in RowType
      BY <1>0 DEF TypeOK
    <2>3. CASE call[t].op = "REVERSAL"
      <3>1. Marked(t) = [transfer EXCEPT ![call[t].of].status = "REVERSED"]
        BY <2>3 DEF Marked
      <3>2. transfer'[o] = Marked(t)[o]
        BY <1>3, <2>1, <3>1 DEF With
      <3>. QED  BY <2>2, <2>3, <3>1, <3>2 DEF RowType
    <2>4. CASE call[t].op # "REVERSAL"
      <3>1. transfer'[o] = transfer[o]
        BY <1>3, <2>1, <2>4 DEF With, Marked
      <3>. QED  BY <2>4, <3>1
    <2>. QED  BY <2>3, <2>4
  <1>7. call[t].op \in Keyed =>
          /\ DOMAIN keyRow' = DOMAIN keyRow \cup {call[t].key}
          /\ keyRow'[call[t].key] = t
          /\ call[t].key \notin DOMAIN keyRow
    BY <1>0, <1>1 DEF Commit, Answered, With, Held, Moving
  <1>8. call[t].op \notin Keyed => keyRow' = keyRow
    BY DEF Commit, Answered
  <1>9. \A k \in DOMAIN keyRow : keyRow'[k] = keyRow[k]
    BY <1>0, <1>1, <1>8 DEF Commit, Answered, With, Held, Moving
  <1>. QED  BY <1>1, <1>2, <1>4, <1>5, <1>6, <1>7, <1>8, <1>9 DEF Written

LEMMA CommitTypeOK ==
  ASSUME IInv, NEW t \in Txn, Commit(t)
  PROVE  TypeOK'
  <1>1. TypeOK /\ End(t, "committed") /\ "committed" \in Over
    BY DEF IInv, Commit, Over
  <1>. QED  BY <1>1, CommitRowTypes, EndFacts DEF TypeOK

\* The transactions still running keep what they read: they hold other rows.
LEMMA CommitOthers ==
  ASSUME IInv, NEW t \in Txn, Commit(t), NEW u \in Txn \ {t}
  PROVE  Shape(u)' /\ Movement(u)' /\ Held(u)'
  <1>0. TypeOK /\ Shape(u) /\ Movement(u) /\ Held(u) /\ Held(t) /\ Shape(t)
    BY DEF IInv
  <1>w. Written(t)
    BY CommitFacts
  <1>1. End(t, "committed") /\ "committed" \in Over
    BY DEF Commit, Over
  <1>2. /\ UNCHANGED <<call, leg, after>> /\ pc'[u] = pc[u]
        /\ \A k \in Key : keyLock[k] = u => keyLock'[k] = u
        /\ \A a \in Account : accountLock[a] = u => accountLock'[a] = u
        /\ \A o \in Txn : transferLock[o] = u => transferLock'[o] = u
    BY <1>0, <1>1, EndFacts DEF TypeOK
  <1>3. pc[t] = "posted" /\ leg[t] \in LegType
        /\ accountLock[leg[t].from] = t /\ accountLock[leg[t].to] = t
    BY <1>w, PostedHolds DEF Written
  <1>4. \A a \in Account : accountLock[a] = u =>
          balance'[a] = balance[a] /\ status'[a] = status[a]
    BY <1>0, <1>3 DEF Commit, Moved, TypeOK
  <1>5. \A a \in Account : status[a] # "ABSENT" => status'[a] # "ABSENT"
    BY <1>0, <1>3 DEF Commit, TypeOK, LegType
  <1>6. /\ call[u].op \in Keyed => call[u].key \in Key
        /\ call[u].op \in {"MINT", "STATUS"} => call[u].user \in Account
        /\ call[u].op = "P2P" => call[u].to \in Account
        /\ call[u].op = "REVERSAL" => call[u].of \in Txn
    BY <1>0, Kinds DEF TypeOK, Keyed, Send, Reversal, Register, SetFrozen, User
  <1>7. Shape(u)'
    BY <1>0, <1>2, <1>5, <1>6, <1>w DEF Shape, Written
  <1>8. Movement(u)'
    BY <1>0, <1>2, <1>5, <1>6, <1>w DEF Movement, Shape, Written
  <1>9. Held(u)'
    <2>1. FirstLock(u)' = FirstLock(u) /\ SecondLock(u)' = SecondLock(u)
      BY <1>2 DEF FirstLock, SecondLock
    <2>2. pc[u] \in Moving /\ call[u].op # "STATUS" =>
            FirstLock(u) \in Account /\ SecondLock(u) \in Account
      BY <1>0 DEF Movement, FirstLock, SecondLock, LockOrder, LegType
    <2>3. (pc[u] \in Moving \cup {"claimed", "loaded"} /\ call[u].op \in Keyed) =>
            keyLock'[call[u].key] = u /\ call[u].key \notin DOMAIN keyRow'
      <3>1. SUFFICES ASSUME pc[u] \in Moving \cup {"claimed", "loaded"}, call[u].op \in Keyed
                     PROVE  keyLock'[call[u].key] = u /\ call[u].key \notin DOMAIN keyRow'
        OBVIOUS
      <3>2. keyLock[call[u].key] = u /\ call[u].key \notin DOMAIN keyRow
        BY <1>0, <3>1 DEF Held
      <3>3. call[t].op \in Keyed => keyLock[call[t].key] = t
        BY <1>0, <1>3 DEF Held, Moving
      <3>. QED  BY <1>2, <1>6, <1>w, <3>1, <3>2, <3>3 DEF Written
    <2>4. (pc[u] \in Moving /\ call[u].op = "MINT") =>
            accountLock'[call[u].user] = u /\ status'[call[u].user] = "ABSENT"
      BY <1>0, <1>2, <1>4, <1>6 DEF Held
    <2>5. (pc[u] \in Moving /\ call[u].op = "REVERSAL") =>
            transferLock'[call[u].of] = u /\ transfer'[call[u].of].status = "COMPLETED"
      <3>1. SUFFICES ASSUME pc[u] \in Moving, call[u].op = "REVERSAL"
                     PROVE  transferLock'[call[u].of] = u
                            /\ transfer'[call[u].of].status = "COMPLETED"
        OBVIOUS
      <3>2. transferLock[call[u].of] = u /\ transfer[call[u].of].status = "COMPLETED"
            /\ call[u].of \in DOMAIN transfer
        BY <1>0, <3>1 DEF Held, Shape
      <3>3. call[t].op = "REVERSAL" => transferLock[call[t].of] = t
        BY <1>0, <1>3 DEF Held, Moving
      <3>. QED  BY <1>2, <1>6, <1>w, <3>1, <3>2, <3>3 DEF Written
    <2>6. pc[u] = "posted" =>
            /\ Payable(u)'
            /\ after'[u] = [from |-> balance'[leg'[u].from] - leg'[u].amount,
                            to   |-> balance'[leg'[u].to] + leg'[u].amount]
      <3>1. SUFFICES ASSUME pc[u] = "posted"
                     PROVE  /\ Payable(u)'
                            /\ after'[u] = [from |-> balance'[leg'[u].from] - leg'[u].amount,
                                            to   |-> balance'[leg'[u].to] + leg'[u].amount]
        OBVIOUS
      <3>2. leg[u] \in LegType
            /\ accountLock[leg[u].from] = u /\ accountLock[leg[u].to] = u
        BY <3>1, PostedHolds
      <3>3. /\ balance'[leg[u].from] = balance[leg[u].from]
            /\ balance'[leg[u].to] = balance[leg[u].to]
            /\ status'[leg[u].from] = status[leg[u].from]
            /\ status'[leg[u].to] = status[leg[u].to]
        BY <1>4, <3>2 DEF LegType
      <3>. QED  BY <1>0, <1>2, <3>1, <3>3 DEF Held, Payable
    <2>. QED  BY <1>0, <1>2, <1>6, <2>1, <2>2, <2>3, <2>4, <2>5, <2>6
           DEF Held, Moving, Shape
  <1>. QED  BY <1>7, <1>8, <1>9

\* A freeze takes effect between the movements of the account, never inside one.
LEMMA StatusStep ==
  ASSUME IInv, NEW t \in Txn, SetAccountStatus(t)
  PROVE  /\ TypeOK' /\ UNCHANGED <<balance, transfer, keyRow>>
         /\ \A u \in Txn \ {t} : Shape(u)' /\ Movement(u)' /\ Held(u)'
  <1>0. TypeOK /\ Shape(t) /\ Held(t)
    BY DEF IInv
  <1>1. End(t, "committed") /\ "committed" \in Over
    BY DEF SetAccountStatus, Over
  <1>2. UNCHANGED <<balance, transfer, keyRow>>
    BY DEF SetAccountStatus
  <1>3. call[t] \in SetFrozen /\ call[t].user \in Account
    BY <1>0, Kinds DEF SetAccountStatus, TypeOK, SetFrozen, User
  <1>4. /\ status' = [status EXCEPT ![call[t].user] = call[t].target]
        /\ call[t].target \in {"ACTIVE", "FROZEN"} /\ accountLock[call[t].user] = t
    BY <1>0, <1>3 DEF SetAccountStatus, SetFrozen, Held
  <1>5. TypeOK'
    BY <1>0, <1>1, <1>2, <1>3, <1>4, EndFacts DEF TypeOK
  <1>6. ASSUME NEW u \in Txn \ {t}
        PROVE  Shape(u)' /\ Movement(u)' /\ Held(u)'
    <2>0. Shape(u) /\ Movement(u) /\ Held(u)
      BY DEF IInv
    <2>1. /\ UNCHANGED <<call, leg, after>> /\ pc'[u] = pc[u]
          /\ \A k \in Key : keyLock[k] = u => keyLock'[k] = u
          /\ \A a \in Account : accountLock[a] = u => accountLock'[a] = u
          /\ \A o \in Txn : transferLock[o] = u => transferLock'[o] = u
      BY <1>0, <1>1, EndFacts DEF TypeOK
    <2>2. /\ call[u].op \in Keyed => call[u].key \in Key
          /\ call[u].op \in {"MINT", "STATUS"} => call[u].user \in Account
          /\ call[u].op = "P2P" => call[u].to \in Account
          /\ call[u].op = "REVERSAL" => call[u].of \in Txn
      BY <1>0, Kinds DEF TypeOK, Keyed, Send, Reversal, Register, SetFrozen, User
    <2>3. /\ \A a \in Account : status[a] # "ABSENT" => status'[a] # "ABSENT"
          /\ \A a \in Account : accountLock[a] = u => status'[a] = status[a]
      BY <1>0, <1>3, <1>4 DEF TypeOK
    <2>4. Shape(u)' /\ Movement(u)'
      BY <1>2, <2>0, <2>1, <2>2, <2>3 DEF Shape, Movement
    <2>5. FirstLock(u)' = FirstLock(u) /\ SecondLock(u)' = SecondLock(u)
      BY <2>1 DEF FirstLock, SecondLock
    <2>6. pc[u] \in Moving /\ call[u].op # "STATUS" =>
            FirstLock(u) \in Account /\ SecondLock(u) \in Account
      BY <2>0 DEF Movement, FirstLock, SecondLock, LockOrder, LegType
    <2>7. pc[u] = "posted" => Payable(u)'
      <3>1. SUFFICES ASSUME pc[u] = "posted"
                     PROVE  Payable(u)'
        OBVIOUS
      <3>2. leg[u] \in LegType
            /\ accountLock[leg[u].from] = u /\ accountLock[leg[u].to] = u
        BY <3>1, PostedHolds
      <3>3. /\ status'[leg[u].from] = status[leg[u].from]
            /\ status'[leg[u].to] = status[leg[u].to]
        BY <2>3, <3>2 DEF LegType
      <3>. QED  BY <1>2, <2>0, <2>1, <3>1, <3>3 DEF Held, Payable
    <2>8. Held(u)'
      BY <1>2, <2>0, <2>1, <2>2, <2>3, <2>5, <2>6, <2>7 DEF Held, Moving, Shape
    <2>. QED  BY <2>4, <2>8
  <1>. QED  BY <1>2, <1>5, <1>6

\* A transaction that is over has nothing left to keep.
LEMMA OverSelf ==
  ASSUME IInv, NEW t \in Txn, Commit(t) \/ SetAccountStatus(t)
  PROVE  Shape(t)' /\ Movement(t)' /\ Held(t)'
  <1>0. TypeOK /\ Shape(t)
    BY DEF IInv
  <1>1. pc'[t] = "committed" /\ UNCHANGED local /\ pc[t] \in {"posted", "both"}
    BY <1>0 DEF Commit, SetAccountStatus, End, TypeOK
  <1>2. Shape(t)'
    <2>1. CASE Commit(t)
      <3>1. Written(t)
        BY <2>1, CommitFacts
      <3>. QED  BY <1>0, <1>1, <3>1 DEF Shape, Written, local
    <2>2. CASE SetAccountStatus(t)
      <3>1. UNCHANGED transfer /\ t \notin DOMAIN transfer
            /\ call[t].op = "STATUS" /\ status'[call[t].user] # "ABSENT"
        <4>1. call[t] \in SetFrozen
          BY <1>0, <2>2, Kinds DEF SetAccountStatus, TypeOK
        <4>2. call[t].target # "ABSENT" /\ call[t].user \in Account
          BY <4>1 DEF SetFrozen, User
        <4>. QED  BY <1>0, <2>2, <4>2 DEF SetAccountStatus, TypeOK, Shape
      <3>. QED  BY <1>0, <1>1, <3>1 DEF Shape, local
    <2>. QED  BY <2>1, <2>2
  <1>. QED  BY <1>1, <1>2 DEF Movement, Held, Moving

-----------------------------------------------------------------------------
(* The tables *)

\* A step that writes no row, or only a status, keeps what the tables say.
LEMMA TablesStand ==
  ASSUME IInv, NEW t \in Txn, Quiet(t) \/ SetAccountStatus(t)
  PROVE  (RowsOK /\ FundsNeverNegative /\ ExactlyOnce /\ ReplayTellsTruth /\ ReversedOnce)'
  <1>0. /\ TypeOK /\ Shape(t) /\ \A u \in Txn : Shape(u)
        /\ RowsOK /\ FundsNeverNegative /\ ExactlyOnce /\ ReplayTellsTruth /\ ReversedOnce
    BY DEF IInv
  <1>1. UNCHANGED <<balance, transfer, keyRow>>
    BY QuietStep, StatusStep DEF rows
  <1>2. \A u \in DOMAIN transfer : call'[u] = call[u] /\ u \in Txn
    BY <1>0, QuietStep DEF Elsewhere, SetAccountStatus, End, local, TypeOK
  <1>3. RowsOK' /\ FundsNeverNegative'
    BY <1>0, <1>1 DEF RowsOK, FundsNeverNegative
  <1>4. ExactlyOnce'
    BY <1>0, <1>1, <1>2 DEF ExactlyOnce
  <1>5. ReversedOnce'
    <2>1. \A o : Compensations(o)' = Compensations(o)
      BY <1>1, <1>2 DEF Compensations
    <2>. QED  BY <1>0, <1>1, <2>1 DEF ReversedOnce
  <1>6. ReplayTellsTruth'
    <2>1. SUFFICES ASSUME NEW v \in Txn, pc'[v] = "replayed"
                   PROVE  \E u \in DOMAIN transfer : call'[u] = call'[v]
      BY <1>1 DEF ReplayTellsTruth
    <2>2. CASE v = t /\ Replay(t)
      <3>1. /\ call[t].key \in DOMAIN keyRow /\ call[t] = call[keyRow[call[t].key]]
            /\ UNCHANGED call
        BY <1>0, <2>1, <2>2 DEF Replay, End, SameRequest, local, TypeOK
      <3>. QED  BY <1>0, <2>2, <3>1 DEF ExactlyOnce
    <2>3. CASE ~(v = t /\ Replay(t))
      <3>1. pc[v] = "replayed" /\ call'[v] = call[v]
        <4>1. CASE v # t
          BY <2>1, <4>1, <1>0, QuietStep
          DEF Elsewhere, SetAccountStatus, End, local, TypeOK
        <4>2. CASE v = t
          BY <1>0, <2>1, <2>3, <4>2
          DEF Quiet, SetAccountStatus, End, Step, TypeOK, Begin, ClaimIdempotencyKey,
              EnforceVelocity, LoadOriginal, MarkReversed, InsertAccount, LockFirst,
              LockSecond, PostDoubleEntry, LockOwnAccount, Refuse, Abort
        <4>. QED  BY <4>1, <4>2
      <3>. QED  BY <1>0, <1>2, <3>1 DEF ReplayTellsTruth
    <2>. QED  BY <2>2, <2>3
  <1>. QED  BY <1>3, <1>4, <1>5, <1>6

\* The payer had the money, and the movement is between two accounts.
LEMMA CommitMovesFunds ==
  ASSUME IInv, NEW t \in Txn, Commit(t)
  PROVE  /\ leg[t] \in LegType /\ leg[t].from # leg[t].to /\ Payable(t)
         /\ balance' = [balance EXCEPT ![leg[t].from] = @ - leg[t].amount,
                                       ![leg[t].to] = @ + leg[t].amount]
         /\ after[t] = [from |-> balance[leg[t].from] - leg[t].amount,
                        to   |-> balance[leg[t].to] + leg[t].amount]
  <1>1. Written(t) /\ Movement(t) /\ Held(t)
    BY CommitFacts DEF IInv
  <1>. QED  BY <1>1 DEF Written, Movement, Held, Moving, Commit, Moved

LEMMA CommitTables ==
  ASSUME IInv, NEW t \in Txn, Commit(t)
  PROVE  (RowsOK /\ FundsNeverNegative /\ ExactlyOnce /\ ReplayTellsTruth /\ ReversedOnce)'
  <1>0. /\ TypeOK /\ Shape(t) /\ Movement(t) /\ Held(t) /\ \A u \in Txn : Shape(u)
        /\ RowsOK /\ FundsNeverNegative /\ ExactlyOnce /\ ReplayTellsTruth /\ ReversedOnce
    BY DEF IInv
  <1>w. Written(t)
    BY CommitFacts
  <1>1. UNCHANGED call /\ pc' = [pc EXCEPT ![t] = "committed"]
    BY DEF Commit, End, local
  <1>2. \A u \in DOMAIN transfer : u \in Txn /\ u # t
    BY <1>0, <1>w DEF TypeOK, Written
  <1>3. RowsOK'
    <2>1. transfer'[t].from # transfer'[t].to
      <3>1. leg[t].from # leg[t].to
        BY CommitMovesFunds
      <3>. QED  BY <1>w, <3>1 DEF Written, Row
    <2>. QED  BY <1>0, <1>w, <2>1 DEF RowsOK, Written
  <1>4. FundsNeverNegative'
    <2>1. SUFFICES ASSUME NEW a \in User
                   PROVE  balance'[a] >= 0
      BY DEF FundsNeverNegative
    <2>2. a \in Account /\ balance[a] >= 0 /\ balance[a] \in Int /\ a \notin System
      BY <1>0, <2>1 DEF FundsNeverNegative, User, TypeOK
    <2>3. leg[t].amount \in Nat /\ leg[t].from # leg[t].to
          /\ leg[t].from \in Account /\ leg[t].to \in Account
      BY CommitMovesFunds, LedgerAssumption DEF LegType
    <2>4. a = leg[t].from => balance[a] >= leg[t].amount
      BY <2>2, CommitMovesFunds DEF Payable
    <2>5. balance' = [balance EXCEPT ![leg[t].from] = @ - leg[t].amount,
                                     ![leg[t].to] = @ + leg[t].amount]
      BY CommitMovesFunds
    <2>. QED  BY <1>0, <2>2, <2>3, <2>4, <2>5 DEF TypeOK
  <1>5. ExactlyOnce'
    BY <1>0, <1>1, <1>2, <1>w DEF ExactlyOnce, Written
  <1>6. ReplayTellsTruth'
    BY <1>0, <1>1, <1>w DEF ReplayTellsTruth, Written, TypeOK
  <1>7. ReversedOnce'
    <2>1. ASSUME NEW o \in DOMAIN transfer, call[t].op # "REVERSAL" \/ call[t].of # o
          PROVE  Compensations(o)' = Compensations(o)
                 /\ transfer'[o].status = transfer[o].status
      BY <1>1, <1>w, <2>1 DEF Compensations, Written
    <2>2. ASSUME call[t].op = "REVERSAL"
          PROVE  /\ Compensations(call[t].of)' = {t}
                 /\ transfer'[call[t].of].status = "REVERSED"
      <3>1. call[t].of \in DOMAIN transfer /\ transfer[call[t].of].status = "COMPLETED"
        BY <1>0, <1>w, <2>2 DEF Shape, Held, Moving, Written
      <3>2. Compensations(call[t].of) = {}
        BY <1>0, <3>1 DEF ReversedOnce
      <3>. QED  BY <1>1, <1>w, <2>2, <3>1, <3>2 DEF Compensations, Written
    <2>3. Compensations(t)' = {} /\ transfer'[t].status = "COMPLETED"
      BY <1>0, <1>1, <1>2, <1>w DEF Compensations, Written, Row, Shape
    <2>4. ASSUME NEW o \in DOMAIN transfer'
          PROVE  /\ transfer'[o].status = "REVERSED" <=> Compensations(o)' # {}
                 /\ \A u, v \in Compensations(o)' : u = v
      <3>1. o = t \/ o \in DOMAIN transfer
        BY <1>w DEF Written
      <3>2. CASE o = t
        BY <2>3, <3>2
      <3>3. CASE o \in DOMAIN transfer /\ call[t].op = "REVERSAL" /\ call[t].of = o
        <4>1. Compensations(call[t].of)' = {t} /\ transfer'[o].status = "REVERSED"
          BY <2>2, <3>3
        <4>2. Compensations(o)' = Compensations(call[t].of)'
          BY <1>1, <3>3 DEF Compensations
        <4>. QED  BY <4>1, <4>2
      <3>4. CASE o \in DOMAIN transfer /\ (call[t].op # "REVERSAL" \/ call[t].of # o)
        BY <1>0, <2>1, <3>4 DEF ReversedOnce
      <3>. QED  BY <3>1, <3>2, <3>3, <3>4
    <2>. QED  BY <2>4 DEF ReversedOnce
  <1>. QED  BY <1>3, <1>4, <1>5, <1>6, <1>7

-----------------------------------------------------------------------------
(* The invariant is inductive *)

LEMMA InitIInv == Init => IInv
  <1> SUFFICES ASSUME Init PROVE IInv
    OBVIOUS
  <1>1. TypeOK
    BY InitTypeOK
  <1>2. \A t \in Txn : pc[t] = "idle" /\ call[t] = NoCall
    BY DEF Init
  <1>3. DOMAIN transfer = {} /\ DOMAIN keyRow = {}
    BY DEF Init
  <1>4. \A t \in Txn : Shape(t) /\ Movement(t) /\ Held(t)
    BY <1>2, <1>3 DEF Shape, Movement, Held, Moving, NoCall
  <1>5. RowsOK /\ ExactlyOnce /\ ReplayTellsTruth /\ ReversedOnce
    BY <1>2, <1>3 DEF RowsOK, ExactlyOnce, ReplayTellsTruth, ReversedOnce
  <1>6. FundsNeverNegative
    BY LedgerAssumption DEF Init, FundsNeverNegative
  <1>. QED  BY <1>1, <1>4, <1>5, <1>6 DEF IInv

\* Each step of the system is quiet, a commit, or a change of status.
LEMMA StepKinds ==
  ASSUME Next
  PROVE  \E t \in Txn : Quiet(t) \/ Commit(t) \/ SetAccountStatus(t)
  BY DEF Next, Progress, Quiet

LEMMA IInvInductive == IInv /\ [Next]_vars => IInv'
  <1> SUFFICES ASSUME IInv, [Next]_vars PROVE IInv'
    OBVIOUS
  <1>1. CASE Next
    <2>1. PICK t \in Txn : Quiet(t) \/ Commit(t) \/ SetAccountStatus(t)
      BY <1>1, StepKinds
    <2>2. CASE Quiet(t)
      <3>1. TypeOK'
        BY <2>2, QuietStep
      <3>2. \A u \in Txn : Shape(u)' /\ Movement(u)' /\ Held(u)'
        BY <2>2, QuietOthers, QuietSelf
      <3>. QED  BY <2>2, <3>1, <3>2, TablesStand DEF IInv
    <2>3. CASE Commit(t)
      <3>1. TypeOK'
        BY <2>3, CommitTypeOK
      <3>2. \A u \in Txn : Shape(u)' /\ Movement(u)' /\ Held(u)'
        BY <2>3, CommitOthers, OverSelf
      <3>. QED  BY <2>3, <3>1, <3>2, CommitTables DEF IInv
    <2>4. CASE SetAccountStatus(t)
      <3>1. TypeOK' /\ \A u \in Txn : Shape(u)' /\ Movement(u)' /\ Held(u)'
        BY <2>4, StatusStep, OverSelf
      <3>. QED  BY <2>4, <3>1, TablesStand DEF IInv
    <2>. QED  BY <2>1, <2>2, <2>3, <2>4
  <1>2. CASE UNCHANGED vars
    <2>1. UNCHANGED <<balance, status, transfer, keyRow, keyLock, velocityLock,
                      transferLock, accountLock, pc, call, leg, after>>
      BY <1>2 DEF vars, rows, locks, local
    <2>2. TypeOK'
      BY <2>1 DEF IInv, TypeOK
    <2>3. \A u \in Txn : Shape(u)' /\ Movement(u)' /\ Held(u)'
      BY <2>1 DEF IInv, Shape, Movement, Held, FirstLock, SecondLock, Payable
    <2>4. (RowsOK /\ FundsNeverNegative /\ ExactlyOnce /\ ReplayTellsTruth /\ ReversedOnce)'
      BY <2>1 DEF IInv, RowsOK, FundsNeverNegative, ExactlyOnce, ReplayTellsTruth,
                  ReversedOnce, Compensations
    <2>. QED  BY <2>2, <2>3, <2>4 DEF IInv
  <1>. QED  BY <1>1, <1>2

\* The inductive invariant holds in every reachable state of the ledger.
THEOREM Invariance == Spec => []IInv
  <1>. QED  BY InitIInv, IInvInductive, PTL DEF Spec

-----------------------------------------------------------------------------
(* The invariants *)

\* Every variable keeps its type, for any accounts, requests and transactions.
THEOREM TypeCorrect == Spec => []TypeOK
  <1>1. IInv => TypeOK
    BY DEF IInv
  <1>. QED  BY <1>1, Invariance, PTL

\* However payments, reversals and retries interleave, no user is overdrawn.
THEOREM NoOverdraft == Spec => []FundsNeverNegative
  <1>1. IInv => FundsNeverNegative
    BY DEF IInv
  <1>. QED  BY <1>1, Invariance, PTL

\* A key and its transfer exist together, and no key ever has two transfers.
THEOREM OncePerKey == Spec => []ExactlyOnce
  <1>1. IInv => ExactlyOnce
    BY DEF IInv
  <1>. QED  BY <1>1, Invariance, PTL

\* A replayed answer always stands for the very request that is answered.
THEOREM TrueReplays == Spec => []ReplayTellsTruth
  <1>1. IInv => ReplayTellsTruth
    BY DEF IInv
  <1>. QED  BY <1>1, Invariance, PTL

\* A transfer is marked reversed exactly when one compensation exists for it.
THEOREM OneReversal == Spec => []ReversedOnce
  <1>1. IInv => ReversedOnce
    BY DEF IInv
  <1>. QED  BY <1>1, Invariance, PTL

-----------------------------------------------------------------------------
(* What a step may never do *)

\* Only a commit changes a balance.
LEMMA BalanceSteps ==
  ASSUME IInv, [Next]_vars
  PROVE  \/ \E t \in Txn : Commit(t)
         \/ UNCHANGED <<balance, transfer>>
  <1>1. CASE Next
    <2>1. PICK t \in Txn : Quiet(t) \/ Commit(t) \/ SetAccountStatus(t)
      BY <1>1, StepKinds
    <2>. QED  BY <2>1, QuietStep, StatusStep DEF rows
  <1>2. CASE UNCHANGED vars
    BY <1>2 DEF vars, rows
  <1>. QED  BY <1>1, <1>2

\* A freeze that has committed is never overtaken by a payment under way.
THEOREM FrozenPaysNothing == Spec => FrozenNeverPays
  <1>1. ASSUME IInv, [Next]_vars
        PROVE  [\A a \in Account : balance'[a] < balance[a] => status[a] = "ACTIVE"]_vars
    <2>1. CASE \E t \in Txn : Commit(t)
      <3>1. PICK t \in Txn : Commit(t)
        BY <2>1
      <3>2. /\ leg[t] \in LegType /\ leg[t].from # leg[t].to /\ Payable(t)
            /\ balance' = [balance EXCEPT ![leg[t].from] = @ - leg[t].amount,
                                          ![leg[t].to] = @ + leg[t].amount]
        BY <1>1, <3>1, CommitMovesFunds
      <3>3. balance \in [Account -> Int] /\ leg[t].amount \in Nat
        BY <1>1, <3>2, LedgerAssumption DEF IInv, TypeOK, LegType
      <3>4. ASSUME NEW a \in Account, balance'[a] < balance[a]
            PROVE  status[a] = "ACTIVE"
        <4>1. a = leg[t].from
          BY <3>2, <3>3, <3>4 DEF LegType
        <4>. QED  BY <3>2, <4>1 DEF Payable
      <3>. QED  BY <3>4
    <2>2. CASE UNCHANGED <<balance, transfer>>
      <3>1. \A a \in Account : balance'[a] = balance[a] /\ balance[a] \in Int
        BY <1>1, <2>2 DEF IInv, TypeOK
      <3>. QED  BY <3>1
    <2>. QED  BY <1>1, <2>1, <2>2, BalanceSteps
  <1>. QED  BY <1>1, Invariance, PTL DEF Spec, FrozenNeverPays

\* The balance_after written in the entries is the balance the commit leaves.
THEOREM TrueAfterImages == Spec => AfterImagesTrue
  <1>1. ASSUME IInv, [Next]_vars
        PROVE  [\A t \in DOMAIN transfer' \ DOMAIN transfer :
                  /\ transfer'[t].fromAfter = balance'[transfer'[t].from]
                  /\ transfer'[t].toAfter = balance'[transfer'[t].to]]_vars
    <2>1. CASE \E t \in Txn : Commit(t)
      <3>1. PICK t \in Txn : Commit(t)
        BY <2>1
      <3>2. /\ leg[t] \in LegType /\ leg[t].from # leg[t].to
            /\ balance' = [balance EXCEPT ![leg[t].from] = @ - leg[t].amount,
                                          ![leg[t].to] = @ + leg[t].amount]
            /\ after[t] = [from |-> balance[leg[t].from] - leg[t].amount,
                           to   |-> balance[leg[t].to] + leg[t].amount]
        BY <1>1, <3>1, CommitMovesFunds
      <3>3. DOMAIN transfer' = DOMAIN transfer \cup {t} /\ transfer'[t] = Row(t)
        BY <1>1, <3>1, CommitFacts DEF Written
      <3>4. /\ transfer'[t].from = leg[t].from /\ transfer'[t].to = leg[t].to
            /\ transfer'[t].fromAfter = after[t].from /\ transfer'[t].toAfter = after[t].to
        BY <3>3 DEF Row
      <3>5. /\ balance'[leg[t].from] = balance[leg[t].from] - leg[t].amount
            /\ balance'[leg[t].to] = balance[leg[t].to] + leg[t].amount
        BY <1>1, <3>2 DEF IInv, TypeOK, LegType
      <3>6. \A s \in DOMAIN transfer' \ DOMAIN transfer : s = t
        BY <3>3
      <3>7. /\ transfer'[t].fromAfter = balance'[transfer'[t].from]
            /\ transfer'[t].toAfter = balance'[transfer'[t].to]
        <4>1. /\ after[t].from = balance[leg[t].from] - leg[t].amount
              /\ after[t].to = balance[leg[t].to] + leg[t].amount
          BY <3>2
        <4>. QED  BY <3>4, <3>5, <4>1
      <3>. QED  BY <3>6, <3>7
    <2>2. CASE UNCHANGED <<balance, transfer>>
      BY <2>2
    <2>. QED  BY <1>1, <2>1, <2>2, BalanceSteps
  <1>. QED  BY <1>1, Invariance, PTL DEF Spec, AfterImagesTrue

-----------------------------------------------------------------------------
(* The refinement of AbstractLedger *)

LEMMA SameWith == \A f, k, v : Promise!With(f, k, v) = With(f, k, v)
  BY DEF Promise!With, With

LEMMA CommitPromised ==
  ASSUME IInv, NEW t \in Txn, Commit(t)
  PROVE  Promise!Next
  <1>0. TypeOK /\ Shape(t) /\ Movement(t) /\ Held(t) /\ Written(t)
    BY CommitFacts DEF IInv
  <1>1. pc[t] = "posted" /\ call[t].op \in {"P2P", "REVERSAL", "MINT"}
        /\ call[t] \in Request /\ t \notin DOMAIN transfer
    BY <1>0 DEF Written
  <1>2. /\ leg[t] \in LegType /\ leg[t].from # leg[t].to /\ Payable(t)
        /\ balance' = [balance EXCEPT ![leg[t].from] = @ - leg[t].amount,
                                      ![leg[t].to] = @ + leg[t].amount]
        /\ after[t] = [from |-> balance[leg[t].from] - leg[t].amount,
                       to   |-> balance[leg[t].to] + leg[t].amount]
    BY CommitMovesFunds
  <1>3. /\ Promise!MayPay(leg[t].from, leg[t].to, leg[t].amount)
        /\ balance' = Promise!Moved(leg[t].from, leg[t].to, leg[t].amount)
        /\ Row(t) = Promise!Row(call[t].op, leg[t].from, leg[t].to, leg[t].amount)
    BY <1>2 DEF Promise!MayPay, Promise!Moved, Promise!Row, Row, Payable
  <1>4. CASE call[t].op = "P2P"
    <2>1. /\ call[t].key \in Key /\ call[t].key \notin DOMAIN keyRow
          /\ leg[t].from \in User /\ leg[t].to \in User
          /\ status[leg[t].to] # "ABSENT"
      BY <1>0, <1>1, <1>4, Kinds DEF Held, Moving, Keyed, Movement, Send
    <2>2. /\ transfer' = With(transfer, t, Row(t))
          /\ keyRow' = With(keyRow, call[t].key, t) /\ status' = status
      BY <1>4 DEF Commit, Marked, Answered, Keyed
    <2>3. /\ transfer' = Promise!With(transfer, t,
                           Promise!Row("P2P", leg[t].from, leg[t].to, leg[t].amount))
          /\ keyRow' = Promise!With(keyRow, call[t].key, t)
      BY <1>3, <1>4, <2>2, SameWith
    <2>4. Promise!Pay(t, call[t].key, leg[t].from, leg[t].to, leg[t].amount)
      BY <1>1, <1>3, <2>1, <2>2, <2>3 DEF Promise!Pay, User
    <2>. QED  BY <1>2, <2>1, <2>4 DEF Promise!Next, LegType
  <1>5. CASE call[t].op = "REVERSAL"
    <2>1. /\ call[t].key \in Key /\ call[t].key \notin DOMAIN keyRow
          /\ call[t].of \in DOMAIN transfer /\ call[t].of \in Txn
          /\ transfer[call[t].of].type \notin {"MINT", "REVERSAL"}
          /\ transfer[call[t].of].status = "COMPLETED"
          /\ leg[t] = [from |-> transfer[call[t].of].to, to |-> transfer[call[t].of].from,
                       amount |-> transfer[call[t].of].amount]
      BY <1>0, <1>1, <1>5, Kinds DEF Held, Moving, Keyed, Movement, Reversal, Shape
    <2>2. /\ transfer' = With(Marked(t), t, Row(t))
          /\ keyRow' = With(keyRow, call[t].key, t) /\ status' = status
      BY <1>5 DEF Commit, Answered, Keyed
    <2>3. Marked(t) = With(transfer, call[t].of,
                           [transfer[call[t].of] EXCEPT !.status = "REVERSED"])
      <3>1. transfer \in [DOMAIN transfer -> RowType]
        BY <1>0 DEF TypeOK
      <3>2. Marked(t) = [transfer EXCEPT ![call[t].of] =
                           [transfer[call[t].of] EXCEPT !.status = "REVERSED"]]
        BY <1>5, <2>1, <3>1 DEF Marked
      <3>3. DOMAIN transfer \cup {call[t].of} = DOMAIN transfer
        BY <2>1
      <3>. QED  BY <2>1, <3>1, <3>2, <3>3 DEF With
    <2>4. Promise!Reverse(t, call[t].key, call[t].of)
      BY <1>1, <1>3, <1>5, <2>1, <2>2, <2>3, SameWith DEF Promise!Reverse
    <2>. QED  BY <2>1, <2>4 DEF Promise!Next
  <1>6. CASE call[t].op = "MINT"
    <2>1. call[t] \in Register
          /\ leg[t] = [from |-> call[t].from, to |-> call[t].user, amount |-> call[t].amount]
          /\ status[leg[t].to] = "ABSENT"
      BY <1>0, <1>1, <1>6, Kinds DEF Held, Moving, Movement
    <2>2. leg[t].from \in System
      BY <2>1 DEF Register
    <2>3. /\ transfer' = With(transfer, t, Row(t)) /\ keyRow' = keyRow
          /\ status' = [status EXCEPT ![leg[t].to] = "ACTIVE"]
      BY <1>6 DEF Commit, Marked, Answered, Keyed
    <2>4. Promise!Mint(t, leg[t].from, leg[t].to, leg[t].amount)
      BY <1>1, <1>3, <1>6, <2>1, <2>2, <2>3, SameWith DEF Promise!Mint
    <2>. QED  BY <1>2, <2>4 DEF Promise!Next, LegType
  <1>. QED  BY <1>1, <1>4, <1>5, <1>6

LEMMA StatusPromised ==
  ASSUME IInv, NEW t \in Txn, SetAccountStatus(t)
  PROVE  Promise!Next
  <1>1. call[t] \in SetFrozen /\ status[call[t].user] # "ABSENT"
    BY Kinds DEF SetAccountStatus, IInv, TypeOK, Shape
  <1>2. /\ call[t].user \in Account /\ call[t].user \notin System
        /\ call[t].target \in {"ACTIVE", "FROZEN"}
    BY <1>1 DEF SetFrozen, User
  <1>3. Promise!SetStatus(call[t].user, call[t].target)
    BY <1>1, <1>2 DEF SetAccountStatus, Promise!SetStatus
  <1>. QED  BY <1>2, <1>3 DEF Promise!Next

\* The locking protocol implements the atomic ledger: each commit is one of its
\* steps, taken when its guard holds, and nothing else can be seen.
THEOREM Refinement == Spec => ImplementsPromise
  <1>1. Init => Promise!Init
    BY DEF Init, Promise!Init
  <1>2. ASSUME IInv, [Next]_vars
        PROVE  [Promise!Next]_(Promise!vars)
    <2>1. CASE Next
      <3>1. PICK t \in Txn : Quiet(t) \/ Commit(t) \/ SetAccountStatus(t)
        BY <2>1, StepKinds
      <3>2. CASE Quiet(t)
        BY <1>2, <3>2, QuietStep DEF rows, Promise!vars
      <3>. QED  BY <1>2, <3>1, <3>2, CommitPromised, StatusPromised
    <2>2. CASE UNCHANGED vars
      BY <2>2 DEF vars, rows, Promise!vars
    <2>. QED  BY <1>2, <2>1, <2>2
  <1>. QED  BY <1>1, <1>2, Invariance, PTL DEF Spec, Promise!Spec, ImplementsPromise

-----------------------------------------------------------------------------
(* Who holds what *)

\* The account a registration has inserted and nobody else can see yet.
Fresh(u, a) == call[u].op = "MINT" /\ a = call[u].user

\* A lock is held by somebody who has passed the statement that takes it, and, of the
\* accounts, a transaction between its two locks holds the first one only.
KeysHeld == \A k \in Key, u \in Txn : keyLock[k] = u => pc[u] \in Moving \cup {"claimed", "loaded"}

VelocityHeld == \A a \in User, u \in Txn : velocityLock[a] = u => pc[u] \in Moving

TransfersHeld == \A o, u \in Txn : transferLock[o] = u => pc[u] \in Moving

AccountsHeld ==
  \A a \in Account, u \in Txn : accountLock[a] = u =>
    /\ pc[u] \in Moving
    /\ pc[u] = "gated" => Fresh(u, a)
    /\ pc[u] = "first" => a = FirstLock(u) \/ Fresh(u, a)

\* Who pays, has paid or was paid is registered.
Registered ==
  /\ \A t \in Txn : call[t].op = "P2P" => status[call[t].from] # "ABSENT"
  /\ \A t \in DOMAIN transfer : \A a \in {transfer[t].from, transfer[t].to} \cap User :
       status[a] # "ABSENT"

\* Only so many transactions have begun, so one of them holds the greatest first lock.
Bounded == \E n \in Nat : \A t \in Txn : pc[t] = "first" => FirstLock(t) <= n

LockInv ==
  KeysHeld /\ VelocityHeld /\ TransfersHeld /\ AccountsHeld /\ Registered /\ Bounded

-----------------------------------------------------------------------------
(* A fact about numbers *)

LEMMA Greatest ==
  ASSUME NEW S, S \subseteq Nat, S # {}, NEW b \in Nat, \A n \in S : n <= b
  PROVE  \E m \in S : \A n \in S : n <= m
<1>. DEFINE D == {d \in Nat : \E n \in S : d = b - n}
<1>1. D # {}
  <2>1. PICK n \in S : n <= b /\ n \in Nat
    OBVIOUS
  <2>2. b - n \in D
    BY <2>1
  <2>. QED
    BY <2>2
<1>2. PICK d \in D : \A e \in D : d <= e
  <2>. HIDE DEF D
  <2>1. D \subseteq Nat
    BY DEF D
  <2>. QED
    BY <1>1, <2>1, Least
<1>3. PICK m \in S : d = b - m
  OBVIOUS
<1>4. ASSUME NEW n \in S PROVE n <= m
  <2>1. b - n \in D /\ n \in Nat /\ m \in Nat
    OBVIOUS
  <2>2. b - m <= b - n
    BY <1>2, <1>3, <2>1
  <2>. QED
    BY <2>1, <2>2
<1>. QED
  BY <1>4

-----------------------------------------------------------------------------
(* The steps *)

LEMMA LocksInitially == Init => LockInv
<1>. SUFFICES ASSUME Init PROVE LockInv
  OBVIOUS
<1>1. \A t \in Txn : pc[t] = "idle" /\ call[t].op = "NONE"
  BY DEF Init, NoCall
<1>2. KeysHeld /\ VelocityHeld /\ TransfersHeld /\ AccountsHeld
  BY LedgerAssumption DEF Init, KeysHeld, VelocityHeld, TransfersHeld, AccountsHeld
<1>3. Registered
  BY <1>1 DEF Init, Registered
<1>4. Bounded
  <2>1. 0 \in Nat /\ \A t \in Txn : pc[t] = "first" => FirstLock(t) <= 0
    BY <1>1
  <2>. QED
    BY <2>1 DEF Bounded
<1>. QED
  BY <1>2, <1>3, <1>4 DEF LockInv

\* The end of a transaction frees what it holds and nothing else.
LEMMA EndLocks ==
  ASSUME IInv, LockInv, NEW t \in Txn, NEW outcome \in Over, End(t, outcome)
  PROVE  KeysHeld' /\ VelocityHeld' /\ TransfersHeld' /\ AccountsHeld' /\ Bounded'
<1>1. /\ TypeOK
      /\ \A u \in Txn \ {t} : pc'[u] = pc[u] /\ FirstLock(u)' = FirstLock(u)
      /\ UNCHANGED call /\ pc'[t] \notin Moving \cup {"claimed", "loaded", "first"}
  BY EndFacts DEF IInv, TypeOK, FirstLock, Over, Moving
<1>2. /\ \A k \in Key, u \in Txn : keyLock'[k] = u => u # t /\ keyLock[k] = u
      /\ \A a \in User, u \in Txn : velocityLock'[a] = u => u # t /\ velocityLock[a] = u
      /\ \A o, u \in Txn : transferLock'[o] = u => u # t /\ transferLock[o] = u
      /\ \A a \in Account, u \in Txn : accountLock'[a] = u => u # t /\ accountLock[a] = u
  BY <1>1, LedgerAssumption DEF End, Freed, TypeOK
<1>3. KeysHeld' /\ VelocityHeld' /\ TransfersHeld'
  BY <1>1, <1>2 DEF LockInv, KeysHeld, VelocityHeld, TransfersHeld
<1>4. AccountsHeld'
  BY <1>1, <1>2 DEF LockInv, AccountsHeld, Fresh
<1>5. Bounded'
  BY <1>1 DEF LockInv, Bounded
<1>. QED
  BY <1>3, <1>4, <1>5

\* The two accounts of a movement, in the order they are locked.
LEMMA Ascending ==
  ASSUME IInv, NEW t \in Txn, pc[t] \in Moving, call[t].op # "STATUS"
  PROVE  /\ FirstLock(t) \in Account /\ SecondLock(t) \in Account
         /\ FirstLock(t) \in Nat /\ SecondLock(t) \in Nat /\ FirstLock(t) < SecondLock(t)
         /\ {FirstLock(t), SecondLock(t)} = {leg[t].from, leg[t].to}
<1>1. leg[t] \in LegType /\ leg[t].from # leg[t].to
  BY DEF IInv, Movement
<1>2. /\ leg[t].from \in Account /\ leg[t].to \in Account
      /\ leg[t].from \in Nat /\ leg[t].to \in Nat
  BY <1>1, LedgerAssumption DEF LegType
<1>. QED
  BY <1>1, <1>2 DEF FirstLock, SecondLock, LockOrder

\* A step of t by which no lock goes to anybody else, and t keeps to what it holds.
LEMMA OwnStep ==
  ASSUME IInv, LockInv, NEW t \in Txn,
         \A u \in Txn \ {t} : pc'[u] = pc[u] /\ call'[u] = call[u] /\ leg'[u] = leg[u],
         \A k \in Key : keyLock'[k] # t => keyLock'[k] = keyLock[k],
         \A a \in User : velocityLock'[a] # t => velocityLock'[a] = velocityLock[a],
         \A o \in Txn : transferLock'[o] # t => transferLock'[o] = transferLock[o],
         \A a \in Account : accountLock'[a] # t => accountLock'[a] = accountLock[a],
         \A k \in Key : keyLock'[k] = t => pc'[t] \in Moving \cup {"claimed", "loaded"},
         \A a \in User : velocityLock'[a] = t => pc'[t] \in Moving,
         \A o \in Txn : transferLock'[o] = t => pc'[t] \in Moving,
         \A a \in Account : accountLock'[a] = t =>
           /\ pc'[t] \in Moving
           /\ pc'[t] = "gated" => Fresh(t, a)'
           /\ pc'[t] = "first" => a = FirstLock(t)' \/ Fresh(t, a)',
         pc'[t] = "first" => FirstLock(t)' \in Nat
  PROVE  KeysHeld' /\ VelocityHeld' /\ TransfersHeld' /\ AccountsHeld' /\ Bounded'
<1>1. \A u \in Txn \ {t} : FirstLock(u)' = FirstLock(u) /\ \A a : Fresh(u, a)' <=> Fresh(u, a)
  BY DEF FirstLock, Fresh
<1>2. KeysHeld' /\ VelocityHeld' /\ TransfersHeld'
  BY DEF LockInv, KeysHeld, VelocityHeld, TransfersHeld
<1>3. AccountsHeld'
  BY <1>1 DEF LockInv, AccountsHeld
<1>4. Bounded'
  <2>1. PICK n \in Nat : \A u \in Txn : pc[u] = "first" => FirstLock(u) <= n
    BY DEF LockInv, Bounded
  <2>2. CASE pc'[t] # "first"
    BY <1>1, <2>1, <2>2 DEF Bounded
  <2>3. CASE pc'[t] = "first"
    <3>. DEFINE m == IF FirstLock(t)' <= n THEN n ELSE FirstLock(t)'
    <3>1. m \in Nat /\ n <= m /\ FirstLock(t)' <= m
      BY <2>3
    <3>2. \A u \in Txn : pc'[u] = "first" => FirstLock(u)' <= m
      <4>. SUFFICES ASSUME NEW u \in Txn, u # t, pc'[u] = "first" PROVE FirstLock(u)' <= m
        BY <3>1
      <4>1. pc[u] = "first" /\ FirstLock(u)' = FirstLock(u) /\ FirstLock(u) <= n
        BY <1>1, <2>1
      <4>2. FirstLock(u) \in Nat
        BY <4>1, Ascending DEF IInv, Shape, Moving
      <4>. QED
        BY <3>1, <4>1, <4>2
    <3>. QED
      BY <3>1, <3>2 DEF Bounded
  <2>. QED
    BY <2>2, <2>3
<1>. QED
  BY <1>2, <1>3, <1>4

\* The steps that wait for a lock and take it, or take none.
Going(t) ==
  \/ Begin(t) \/ ClaimIdempotencyKey(t) \/ EnforceVelocity(t) \/ LoadOriginal(t)
  \/ MarkReversed(t) \/ InsertAccount(t) \/ LockFirst(t) \/ LockSecond(t)
  \/ PostDoubleEntry(t) \/ LockOwnAccount(t)

LEMMA TakingStep ==
  ASSUME IInv, LockInv, NEW t \in Txn, Going(t)
  PROVE  KeysHeld' /\ VelocityHeld' /\ TransfersHeld' /\ AccountsHeld' /\ Bounded'
<1>. USE DEF Step, Takes, rows, locks, local
<1>0. /\ TypeOK /\ Shape(t) /\ Movement(t)
      /\ KeysHeld /\ VelocityHeld /\ TransfersHeld /\ AccountsHeld
  BY DEF IInv, LockInv
<1>1. \A u \in Txn \ {t} : pc'[u] = pc[u] /\ call'[u] = call[u] /\ leg'[u] = leg[u]
  BY <1>0 DEF TypeOK, Going, Begin, ClaimIdempotencyKey, EnforceVelocity, LoadOriginal,
     MarkReversed, InsertAccount, LockFirst, LockSecond, PostDoubleEntry, LockOwnAccount
<1>2. /\ \A k \in Key : keyLock'[k] # t => keyLock'[k] = keyLock[k]
      /\ \A a \in User : velocityLock'[a] # t => velocityLock'[a] = velocityLock[a]
      /\ \A o \in Txn : transferLock'[o] # t => transferLock'[o] = transferLock[o]
      /\ \A a \in Account : accountLock'[a] # t => accountLock'[a] = accountLock[a]
  BY <1>0 DEF TypeOK, Going, Begin, ClaimIdempotencyKey, EnforceVelocity, LoadOriginal,
     MarkReversed, InsertAccount, LockFirst, LockSecond, PostDoubleEntry, LockOwnAccount
<1>3. \/ Begin(t)
      \/ /\ pc'[t] \in Moving \cup {"claimed", "loaded"}
         /\ pc'[t] \in {"claimed", "loaded"} =>
              pc[t] \in {"begun", "claimed"} /\ UNCHANGED <<velocityLock, transferLock, accountLock>>
  BY <1>0 DEF TypeOK, Going, ClaimIdempotencyKey, EnforceVelocity, LoadOriginal, MarkReversed,
     InsertAccount, LockFirst, LockSecond, PostDoubleEntry, LockOwnAccount, Moving
<1>4. /\ \A k \in Key : keyLock'[k] = t => pc'[t] \in Moving \cup {"claimed", "loaded"}
      /\ \A a \in User : velocityLock'[a] = t => pc'[t] \in Moving
      /\ \A o \in Txn : transferLock'[o] = t => pc'[t] \in Moving
      /\ \A a \in Account : accountLock'[a] = t => pc'[t] \in Moving
  <2>1. CASE Begin(t)
    BY <1>0, <2>1 DEF Begin, KeysHeld, VelocityHeld, TransfersHeld, AccountsHeld, Moving
  <2>2. CASE ~ Begin(t)
    BY <1>0, <1>3, <2>2 DEF VelocityHeld, TransfersHeld, AccountsHeld, Moving
  <2>. QED
    BY <2>1, <2>2
<1>5. ASSUME NEW a \in Account, accountLock'[a] = t
      PROVE  /\ pc'[t] = "gated" => Fresh(t, a)'
             /\ pc'[t] = "first" => a = FirstLock(t)' \/ Fresh(t, a)'
  <2>1. CASE EnforceVelocity(t) \/ MarkReversed(t) \/ InsertAccount(t)
    BY <1>0, <1>5, <2>1 DEF EnforceVelocity, MarkReversed, InsertAccount, TypeOK, AccountsHeld,
                            Moving, Fresh
  <2>2. CASE LockFirst(t)
    BY <1>0, <1>5, <2>2 DEF LockFirst, TypeOK, AccountsHeld, Fresh, FirstLock
  <2>. QED
    BY <1>0, <2>1, <2>2 DEF TypeOK, Going, Begin, ClaimIdempotencyKey, LoadOriginal, LockSecond,
                            PostDoubleEntry, LockOwnAccount
<1>6. pc'[t] = "first" => FirstLock(t)' \in Nat
  <2>. SUFFICES ASSUME pc'[t] = "first" PROVE FirstLock(t)' \in Nat
    OBVIOUS
  <2>1. LockFirst(t)
    BY <1>0 DEF TypeOK, Going, Begin, ClaimIdempotencyKey, EnforceVelocity, LoadOriginal,
       MarkReversed, InsertAccount, LockSecond, PostDoubleEntry, LockOwnAccount
  <2>2. FirstLock(t)' = FirstLock(t) /\ pc[t] = "gated" /\ call[t].op # "STATUS"
    BY <1>0, <2>1 DEF LockFirst, FirstLock, Shape
  <2>. QED
    BY <2>2, Ascending DEF Moving
<1>. QED
  BY <1>1, <1>2, <1>4, <1>5, <1>6, OwnStep

\* A payment and its reversal are between accounts that are registered.
LEMMA PartiesRegistered ==
  ASSUME IInv, Registered, NEW t \in Txn, pc[t] \in Moving, call[t].op \in Keyed,
         NEW a \in {leg[t].from, leg[t].to} \cap User
  PROVE  status[a] # "ABSENT"
<1>1. Movement(t) /\ Shape(t)
  BY DEF IInv
<1>2. CASE call[t].op = "P2P"
  BY <1>1, <1>2 DEF Movement, Registered
<1>3. CASE call[t].op = "REVERSAL"
  <2>1. /\ call[t].of \in DOMAIN transfer
        /\ {leg[t].from, leg[t].to} = {transfer[call[t].of].from, transfer[call[t].of].to}
    BY <1>1, <1>3 DEF Movement, Shape
  <2>. QED
    BY <2>1 DEF Registered
<1>. QED
  BY <1>2, <1>3 DEF Keyed

LEMMA CommitRegisters ==
  ASSUME IInv, Registered, NEW t \in Txn, Commit(t)
  PROVE  Registered'
<1>1. /\ pc[t] = "posted" /\ pc[t] \in Moving /\ TypeOK /\ Movement(t) /\ Shape(t)
      /\ call[t] \in Request \cup {NoCall}
  BY DEF Commit, IInv, TypeOK, Moving
<1>2. call[t].op \in {"P2P", "REVERSAL", "MINT"} /\ UNCHANGED call
  BY <1>1, Kinds DEF Shape, Commit, End, local, NoCall
<1>3. \A a \in Account : status[a] # "ABSENT" => status'[a] # "ABSENT"
  BY <1>1 DEF Commit, TypeOK
<1>4. ASSUME NEW a \in {leg[t].from, leg[t].to} \cap User
      PROVE  status'[a] # "ABSENT"
  <2>0. a \in Account
    BY <1>4 DEF User
  <2>1. CASE call[t].op \in Keyed
    BY <1>1, <1>3, <2>0, <2>1, PartiesRegistered
  <2>2. CASE call[t].op = "MINT"
    <3>1. call[t] \in Register /\ leg[t].from = call[t].from
      BY <1>1, <2>2, Kinds DEF Movement
    <3>2. a = leg[t].to
      BY <1>4, <3>1 DEF Register, User
    <3>. QED
      BY <1>1, <2>0, <2>2, <3>2 DEF Commit, TypeOK
  <2>. QED
    BY <1>2, <2>1, <2>2 DEF Keyed
<1>5. /\ DOMAIN transfer' = DOMAIN transfer \cup {t}
      /\ transfer'[t].from = leg[t].from /\ transfer'[t].to = leg[t].to
      /\ \A u \in DOMAIN transfer \ {t} :
           transfer'[u].from = transfer[u].from /\ transfer'[u].to = transfer[u].to
  <2>1. Written(t)
    BY CommitFacts
  <2>. QED
    BY <2>1 DEF Written, Row
<1>6. ASSUME NEW u \in DOMAIN transfer', NEW a \in {transfer'[u].from, transfer'[u].to} \cap User
      PROVE  status'[a] # "ABSENT"
  <2>0. a \in Account
    BY <1>6 DEF User
  <2>1. CASE u = t
    BY <1>4, <1>5, <1>6, <2>1
  <2>2. CASE u # t
    <3>1. u \in DOMAIN transfer /\ a \in {transfer[u].from, transfer[u].to} \cap User
      BY <1>5, <1>6, <2>2
    <3>. QED
      BY <1>3, <2>0, <3>1 DEF Registered
  <2>. QED
    BY <2>1, <2>2
<1>7. ASSUME NEW u \in Txn, call[u].op = "P2P" PROVE status'[call[u].from] # "ABSENT"
  <2>1. call[u] \in Request \cup {NoCall}
    BY <1>1 DEF TypeOK
  <2>2. call[u].from \in Account
    BY <1>7, <2>1, Kinds DEF Send, User
  <2>. QED
    BY <1>3, <1>7, <2>2 DEF Registered
<1>. QED
  BY <1>2, <1>6, <1>7 DEF Registered

LEMMA OthersRegister ==
  ASSUME IInv, Registered, NEW t \in Txn,
         Going(t) \/ SetAccountStatus(t) \/ (UNCHANGED rows /\ UNCHANGED call)
  PROVE  Registered'
<1>. USE DEF rows, locks, local
<1>1. TypeOK
  BY DEF IInv
<1>2. CASE UNCHANGED rows /\ UNCHANGED call
  BY <1>2 DEF Registered
<1>3. CASE Begin(t)
  <2>1. PICK r \in Request : Admitted(r) /\ call' = [call EXCEPT ![t] = r]
    BY <1>3 DEF Begin
  <2>2. r.op = "P2P" => status[r.from] # "ABSENT"
    BY <2>1 DEF Admitted, Actor, Keyed
  <2>. QED
    BY <1>1, <1>3, <2>1, <2>2 DEF Begin, Registered, TypeOK
<1>4. CASE Going(t) /\ ~ Begin(t)
  BY <1>2, <1>4 DEF Going, ClaimIdempotencyKey, EnforceVelocity, LoadOriginal,
     MarkReversed, InsertAccount, LockFirst, LockSecond, PostDoubleEntry, LockOwnAccount
<1>5. CASE SetAccountStatus(t)
  <2>1. call[t] \in Request \cup {NoCall} /\ call[t].op = "STATUS"
    BY <1>1, <1>5 DEF SetAccountStatus, TypeOK
  <2>2. call[t].target # "ABSENT"
    BY <2>1, Kinds DEF SetFrozen
  <2>3. \A a : status[a] # "ABSENT" => status'[a] # "ABSENT"
    BY <1>1, <1>5, <2>2 DEF SetAccountStatus, TypeOK
  <2>4. UNCHANGED <<transfer, call>>
    BY <1>5 DEF SetAccountStatus, End
  <2>. QED
    BY <2>3, <2>4 DEF Registered
<1>. QED
  BY <1>2, <1>3, <1>4, <1>5

LEMMA LockInvInductive == IInv /\ LockInv /\ [Next]_vars => LockInv'
<1>. SUFFICES ASSUME IInv, LockInv, [Next]_vars PROVE LockInv'
  OBVIOUS
<1>1. CASE UNCHANGED vars
  BY <1>1 DEF vars, rows, locks, local, LockInv, KeysHeld, VelocityHeld, TransfersHeld,
              AccountsHeld, Registered, Bounded, Fresh, FirstLock
<1>2. ASSUME NEW t \in Txn, Begin(t) \/ Progress(t) \/ Abort(t) PROVE LockInv'
  <2>1. CASE Going(t)
    <3>1. KeysHeld' /\ VelocityHeld' /\ TransfersHeld' /\ AccountsHeld' /\ Bounded'
      BY <2>1, TakingStep
    <3>2. Registered'
      BY <2>1, OthersRegister DEF LockInv
    <3>. QED
      BY <3>1, <3>2 DEF LockInv
  <2>2. CASE Commit(t)
    <3>1. End(t, "committed") /\ "committed" \in Over
      BY <2>2 DEF Commit, Over
    <3>. QED
      BY <2>2, <3>1, EndLocks, CommitRegisters DEF LockInv
  <2>3. CASE SetAccountStatus(t)
    <3>1. End(t, "committed") /\ "committed" \in Over
      BY <2>3 DEF SetAccountStatus, Over
    <3>2. KeysHeld' /\ VelocityHeld' /\ TransfersHeld' /\ AccountsHeld' /\ Bounded'
      BY <3>1, EndLocks
    <3>3. Registered'
      BY <2>3, OthersRegister DEF LockInv
    <3>. QED
      BY <3>2, <3>3 DEF LockInv
  <2>4. CASE Replay(t) \/ Refuse(t) \/ Abort(t)
    <3>1. \E outcome \in Over : End(t, outcome)
      BY <2>4 DEF Replay, Refuse, Abort, Over
    <3>2. UNCHANGED rows /\ UNCHANGED call
      BY <2>4 DEF Replay, Refuse, Abort, End, local
    <3>. QED
      BY <3>1, <3>2, EndLocks, OthersRegister DEF LockInv
  <2>. QED
    BY <1>2, <2>1, <2>2, <2>3, <2>4 DEF Progress, Going
<1>. QED
  BY <1>1, <1>2 DEF Next

LEMMA LocksInvariance == Spec => [](IInv /\ LockInv)
<1>1. Init => IInv /\ LockInv
  BY InitIInv, LocksInitially
<1>2. IInv /\ LockInv /\ [Next]_vars => (IInv /\ LockInv)'
  BY IInvInductive, LockInvInductive
<1>. QED
  BY <1>1, <1>2, PTL DEF Spec

-----------------------------------------------------------------------------
(* Nobody waits in a circle *)

\* The stages at which a transaction may wait.
Waiting == {"begun", "claimed", "loaded", "gated", "first"}

\* A registration keeps nobody but registrations of the same number waiting for its
\* account, and these wait before they hold anything.
LEMMA FreshIsAlone ==
  ASSUME IInv, LockInv, NEW t \in Txn, NEW u \in Txn, t # u,
         pc[t] \in {"gated", "first"}, NEW a \in {FirstLock(t), SecondLock(t)},
         accountLock[a] = u
  PROVE  ~ Fresh(u, a)
<1>. SUFFICES ASSUME Fresh(u, a) PROVE FALSE
  OBVIOUS
<1>1. /\ TypeOK /\ Shape(t) /\ Movement(t) /\ Held(t) /\ Held(u) /\ AccountsHeld /\ Registered
  BY DEF IInv, LockInv
<1>2. pc[t] \in Moving /\ call[t].op # "STATUS"
  BY <1>1 DEF Moving, Shape
<1>3. a \in Account /\ a \in {leg[t].from, leg[t].to}
  BY <1>2, Ascending
<1>4. pc[u] \in Moving /\ call[u].op = "MINT" /\ a = call[u].user
  BY <1>1, <1>3 DEF AccountsHeld, Fresh
<1>5. status[a] = "ABSENT" /\ a \in User
  <2>1. call[u] \in Request \cup {NoCall}
    BY <1>1 DEF TypeOK
  <2>. QED
    BY <1>1, <1>4, <2>1, Kinds DEF Held, Register
<1>6. CASE call[t].op \in Keyed
  BY <1>1, <1>2, <1>3, <1>5, <1>6, PartiesRegistered
<1>7. CASE call[t].op = "MINT"
  <2>1. call[t] \in Register
    BY <1>1, <1>7, Kinds DEF TypeOK
  <2>2. /\ leg[t].from \in System /\ leg[t].to = call[t].user
        /\ accountLock[call[t].user] = t
    BY <1>1, <1>2, <1>7, <2>1 DEF Movement, Held, Moving, Register
  <2>. QED
    BY <1>3, <1>5, <2>2 DEF User
<1>8. call[t].op \in Keyed \cup {"MINT"}
  BY <1>1, <1>2, Kinds DEF TypeOK, Shape, Keyed, NoCall
<1>. QED
  BY <1>6, <1>7, <1>8

\* Whoever another waits for is further on; between two account locks, further up.
LEMMA WaitsAscend ==
  ASSUME IInv, LockInv, NEW t \in Txn, NEW u \in Txn, t # u, WaitsFor(t, u)
  PROVE  /\ pc[t] \in Waiting
         /\ pc[t] = "begun" => pc[u] # "begun"
         /\ pc[t] \in {"claimed", "loaded"} => pc[u] \in Moving
         /\ pc[t] = "gated" => pc[u] \in {"first", "both", "posted"}
         /\ pc[t] = "first" => \/ pc[u] \in {"both", "posted"}
                               \/ pc[u] = "first" /\ FirstLock(t) < FirstLock(u)
<1>1. /\ TypeOK /\ Shape(t) /\ KeysHeld /\ VelocityHeld /\ TransfersHeld /\ AccountsHeld
      /\ call[t] \in Request \cup {NoCall}
  BY DEF IInv, LockInv, TypeOK
<1>2. CASE pc[t] = "begun"
  <2>1. call[t].op \in Keyed => call[t].key \in Key
    BY <1>1, Kinds DEF Send, Reversal, Keyed
  <2>2. call[t].op \in {"MINT", "STATUS"} => call[t].user \in Account
    BY <1>1, Kinds DEF Register, SetFrozen, User
  <2>. QED
    BY <1>1, <1>2, <2>1, <2>2
       DEF WaitsFor, KeysHeld, AccountsHeld, Waiting, Moving
<1>3. CASE pc[t] \in {"claimed", "loaded"}
  <2>1. pc[t] = "claimed" /\ call[t].op = "P2P" => call[t].from \in User
    BY <1>1, Kinds DEF Send
  <2>2. pc[t] = "loaded" => call[t].of \in Txn
    BY <1>1, Kinds DEF Reversal, Shape
  <2>. QED
    BY <1>1, <1>3, <2>1, <2>2 DEF WaitsFor, VelocityHeld, TransfersHeld, Waiting, Moving
<1>4. ASSUME pc[t] \in {"gated", "first"}
      PROVE  /\ pc[t] = "gated" => pc[u] \in {"first", "both", "posted"}
             /\ pc[t] = "first" => \/ pc[u] \in {"both", "posted"}
                                   \/ pc[u] = "first" /\ FirstLock(t) < FirstLock(u)
  <2>1. pc[t] \in Moving /\ call[t].op # "STATUS"
    BY <1>1, <1>4 DEF Moving, Shape
  <2>2. PICK a \in {FirstLock(t), SecondLock(t)} :
          /\ accountLock[a] = u /\ a \in Account
          /\ pc[t] = "first" => a = SecondLock(t)
    BY <1>4, <2>1, Ascending DEF WaitsFor
  <2>3. ~ Fresh(u, a)
    BY <1>4, <2>2, FreshIsAlone
  <2>. QED
    BY <1>1, <2>1, <2>2, <2>3, Ascending DEF AccountsHeld, Moving
<1>. QED
  BY <1>2, <1>3, <1>4 DEF WaitsFor, Waiting

\* For any number of transactions, accounts and requests: of every group, one waits for
\* nobody in it, because keys come before advisory locks and transfers, those before
\* accounts, and accounts in ascending order (lockAccountPair).
THEOREM NobodyInACircle == Spec => []NoDeadlock
<1>1. IInv /\ LockInv => NoDeadlock
  <2>. SUFFICES ASSUME IInv, LockInv, NEW group \in SUBSET Txn, group # {}
                PROVE  \E t \in group : \A u \in group \ {t} : ~ WaitsFor(t, u)
    BY DEF NoDeadlock
  <2>1. CASE \E t \in group : pc[t] \notin Waiting
    BY <2>1, WaitsAscend
  <2>2. CASE (\A t \in group : pc[t] \in Waiting) /\ \E t \in group : pc[t] = "first"
    <3>. DEFINE S == {n \in Nat : \E t \in group : pc[t] = "first" /\ n = FirstLock(t)}
    <3>1. \A t \in group : pc[t] = "first" => FirstLock(t) \in S
      <4>1. \A t \in group : pc[t] = "first" => Shape(t) /\ t \in Txn
        BY DEF IInv
      <4>. QED
        BY <4>1, Ascending DEF Shape, Moving
    <3>2. PICK b \in Nat : \A n \in S : n <= b
      BY DEF LockInv, Bounded
    <3>3. S \subseteq Nat /\ S # {}
      BY <2>2, <3>1
    <3>4. PICK m \in S : \A n \in S : n <= m
      <4>. HIDE DEF S
      <4>. QED
        BY <3>2, <3>3, Greatest
    <3>5. PICK t \in group : pc[t] = "first" /\ m = FirstLock(t)
      BY <3>4
    <3>6. ASSUME NEW u \in group \ {t}, WaitsFor(t, u) PROVE FALSE
      <4>1. pc[u] = "first" /\ FirstLock(t) < FirstLock(u)
        BY <2>2, <3>5, <3>6, WaitsAscend DEF Waiting
      <4>2. FirstLock(u) \in S /\ FirstLock(u) \in Nat /\ m \in Nat
        BY <3>1, <4>1
      <4>3. FirstLock(u) <= m
        BY <3>4, <4>2
      <4>. QED
        BY <3>5, <4>1, <4>2, <4>3
    <3>. QED
      BY <3>6
  <2>3. CASE /\ \A t \in group : pc[t] \in Waiting \ {"first"}
             /\ \E t \in group : pc[t] = "gated"
    BY <2>3, WaitsAscend DEF Waiting
  <2>4. CASE /\ \A t \in group : pc[t] \in Waiting \ {"first", "gated"}
             /\ \E t \in group : pc[t] \in {"claimed", "loaded"}
    BY <2>4, WaitsAscend DEF Waiting, Moving
  <2>5. CASE \A t \in group : pc[t] = "begun"
    BY <2>5, WaitsAscend
  <2>. QED
    BY <2>1, <2>2, <2>3, <2>4, <2>5 DEF Waiting
<1>. QED
  BY <1>1, LocksInvariance, PTL

-----------------------------------------------------------------------------
(* The audit *)

\* What the entries say is what the accounts hold, and nothing was made or lost.
AuditInv ==
  /\ IsFiniteSet(DOMAIN transfer)
  /\ \A a \in Account : balance[a] = LedgerSum(a)
  /\ SumFunctionOnSet(balance, Account) = 0

\* A commit adds one transfer, whose amount both balances follow.
LEMMA CommitAudit ==
  ASSUME IInv, AuditInv, NEW t \in Txn, Commit(t)
  PROVE  AuditInv'
<1>1. /\ balance \in [Account -> Int] /\ DOMAIN transfer \subseteq Txn
      /\ transfer \in [DOMAIN transfer -> RowType]
  BY DEF IInv, TypeOK
<1>2. PICK from \in Account, to \in Account, n \in Nat :
        /\ from # to /\ from = leg[t].from /\ to = leg[t].to /\ n = leg[t].amount
        /\ balance' = [balance EXCEPT ![from] = @ - n, ![to] = @ + n]
  <2>1. /\ leg[t].from \in Account /\ leg[t].to \in Account /\ leg[t].amount \in Nat
        /\ leg[t].from # leg[t].to
    BY CommitMovesFunds, LedgerAssumption DEF LegType
  <2>2. balance' = [balance EXCEPT ![leg[t].from] = @ - leg[t].amount,
                                   ![leg[t].to] = @ + leg[t].amount]
    BY CommitMovesFunds
  <2>. QED
    BY <2>1, <2>2
<1>3. /\ DOMAIN transfer' = DOMAIN transfer \cup {t} /\ t \notin DOMAIN transfer
      /\ transfer'[t].from = from /\ transfer'[t].to = to /\ transfer'[t].amount = n
      /\ \A u \in DOMAIN transfer :
           /\ transfer'[u].from = transfer[u].from /\ transfer'[u].to = transfer[u].to
           /\ transfer'[u].amount = transfer[u].amount
  <2>1. Written(t)
    BY CommitFacts
  <2>2. /\ Row(t).from = leg[t].from /\ Row(t).to = leg[t].to
        /\ Row(t).amount = leg[t].amount
    BY DEF Row
  <2>. QED
    BY <1>2, <2>1, <2>2 DEF Written
<1>4. IsFiniteSet(DOMAIN transfer')
  BY <1>3, FS_AddElement DEF AuditInv
<1>5. SumFunctionOnSet(balance', Account) = 0
  <2>. DEFINE R == Account \ {from, to}
  <2>1. /\ balance'[from] = balance[from] - n /\ balance'[to] = balance[to] + n
        /\ balance[from] \in Int /\ balance[to] \in Int
        /\ \A z \in Account : balance[z] \in Int /\ balance'[z] \in Int
        /\ \A z \in R : balance'[z] = balance[z]
    BY <1>1, <1>2
  <2>2. /\ from # to
        /\ \A z \in Account : balance[z] \in Int
        /\ \A z \in Account : balance'[z] \in Int
    BY <1>2, <2>1
  <2>3. IsFiniteSet(Account) /\ IsFiniteSet(R)
    BY ReconciliationAssumption, FS_Subset
  <2>4. SumFunctionOnSet(balance', R) = SumFunctionOnSet(balance, R)
    <3>. HIDE DEF R
    <3>. QED
      BY <2>1, <2>3, SumSame
  <2>5. /\ SumFunctionOnSet(balance, Account)
             = balance[from] + (balance[to] + SumFunctionOnSet(balance, R))
        /\ SumFunctionOnSet(balance, R) \in Int
    BY <2>2, <2>3, SumRemoveTwo
  <2>6. SumFunctionOnSet(balance', Account)
          = balance'[from] + (balance'[to] + SumFunctionOnSet(balance', R))
    BY <2>2, <2>3, SumRemoveTwo
  <2>. HIDE DEF R
  <2>. QED
    BY <2>1, <2>4, <2>5, <2>6 DEF AuditInv
<1>6. ASSUME NEW S \in SUBSET DOMAIN transfer
      PROVE  /\ SumFunctionOnSet(Amounts, S) \in Int
             /\ SumFunctionOnSet(Amounts', S) = SumFunctionOnSet(Amounts, S)
             /\ SumFunctionOnSet(Amounts', S \cup {t}) = n + SumFunctionOnSet(Amounts, S)
  <2>1. IsFiniteSet(S) /\ t \notin S
    BY <1>3, FS_Subset DEF AuditInv
  <2>2. \A u \in S : Amounts[u] \in Int /\ Amounts'[u] = Amounts[u]
    BY <1>1, <1>3, LedgerAssumption DEF Amounts, RowType
  <2>3. Amounts'[t] = n
    BY <1>3 DEF Amounts
  <2>4. SumFunctionOnSet(Amounts', S) = SumFunctionOnSet(Amounts, S)
    BY <2>1, <2>2, SumSame
  <2>5. SumFunctionOnSet(Amounts', S \cup {t}) = Amounts'[t] + SumFunctionOnSet(Amounts', S)
    BY <2>1, <2>2, <2>3, SumAdd
  <2>. QED
    BY <2>1, <2>2, <2>3, <2>4, <2>5, SumInt
<1>7. ASSUME NEW a \in Account PROVE balance'[a] = LedgerSum(a)'
  <2>1. /\ Credited(a) \in SUBSET DOMAIN transfer /\ Debited(a) \in SUBSET DOMAIN transfer
        /\ Credited(a)' = IF a = to THEN Credited(a) \cup {t} ELSE Credited(a)
        /\ Debited(a)' = IF a = from THEN Debited(a) \cup {t} ELSE Debited(a)
    BY <1>2, <1>3 DEF Credited, Debited
  <2>2. /\ SumFunctionOnSet(Amounts, Credited(a)) \in Int
        /\ SumFunctionOnSet(Amounts, Debited(a)) \in Int
        /\ SumFunctionOnSet(Amounts', Credited(a)') =
             IF a = to THEN n + SumFunctionOnSet(Amounts, Credited(a))
             ELSE SumFunctionOnSet(Amounts, Credited(a))
        /\ SumFunctionOnSet(Amounts', Debited(a)') =
             IF a = from THEN n + SumFunctionOnSet(Amounts, Debited(a))
             ELSE SumFunctionOnSet(Amounts, Debited(a))
    BY <1>6, <2>1
  <2>3. /\ balance[a] = Opening[a] + SumFunctionOnSet(Amounts, Credited(a))
                                   - SumFunctionOnSet(Amounts, Debited(a))
        /\ LedgerSum(a)' = Opening[a] + SumFunctionOnSet(Amounts', Credited(a)')
                                      - SumFunctionOnSet(Amounts', Debited(a)')
        /\ Opening[a] \in Int
    BY LedgerAssumption DEF AuditInv, LedgerSum
  <2>4. balance'[a] = IF a = from THEN balance[a] - n ELSE IF a = to THEN balance[a] + n
                      ELSE balance[a]
    BY <1>1, <1>2
  <2>. QED
    BY <1>2, <2>2, <2>3, <2>4
<1>. QED
  BY <1>4, <1>5, <1>7 DEF AuditInv

LEMMA AuditInvariance == Spec => []AuditInv
<1>1. ASSUME Init PROVE AuditInv
  <2>1. DOMAIN transfer = {} /\ balance = Opening
    BY <1>1 DEF Init
  <2>2. \A a \in Account : Credited(a) = {} /\ Debited(a) = {} /\ Opening[a] \in Int
    BY <2>1, LedgerAssumption DEF Credited, Debited
  <2>3. ASSUME NEW a \in Account PROVE balance[a] = LedgerSum(a)
    <3>1. SumFunctionOnSet(Amounts, {}) = 0
      BY SumEmpty
    <3>2. LedgerSum(a) = Opening[a] + 0 - 0
      BY <2>2, <3>1 DEF LedgerSum
    <3>. QED
      BY <2>1, <2>2, <3>2
  <2>. QED
    BY <2>1, <2>3, FS_EmptySet, ReconciliationAssumption DEF AuditInv
<1>2. ASSUME IInv, AuditInv, [Next]_vars PROVE AuditInv'
  <2>1. CASE UNCHANGED <<balance, transfer>>
    BY <1>2, <2>1 DEF AuditInv, LedgerSum, Credited, Debited, Amounts
  <2>. QED
    BY <1>2, <2>1, BalanceSteps, CommitAudit
<1>. QED
  BY <1>1, <1>2, Invariance, PTL DEF Spec

\* No money is made or lost: between any two commits, for any number of accounts and
\* transactions, the balances add up to nothing, each is the sum of its entries, and no
\* query of the report finds anything (reconcile).
THEOREM AuditAlwaysPasses == Spec => []AuditPasses
<1>1. ASSUME IInv, AuditInv PROVE AuditPasses
  <2>1. OutOfBalance = {} /\ Drifted = {}
    BY <1>1 DEF AuditInv, OutOfBalance, Drifted
  <2>2. Overdrawn = {}
    BY <1>1 DEF IInv, FundsNeverNegative, Overdrawn, TypeOK, User
  <2>3. Stranded = {}
    BY <1>1 DEF IInv, ExactlyOnce, Stranded
  <2>4. SumFunctionOnSet(balance, User \cup System)
          = SumFunctionOnSet(balance, User) + SumFunctionOnSet(balance, System)
    <3>1. IsFiniteSet(User) /\ IsFiniteSet(System) /\ User \cap System = {}
      BY ReconciliationAssumption, LedgerAssumption, FS_Subset DEF User
    <3>2. \A a \in User \cup System : balance[a] \in Int
      BY <1>1, LedgerAssumption DEF IInv, TypeOK, User
    <3>. QED
      BY <3>1, <3>2, SumUnion
  <2>5. User \cup System = Account
    BY LedgerAssumption DEF User
  <2>. QED
    BY <2>1, <2>2, <2>3, <2>4, <2>5 DEF AuditPasses, Report, Totals
<1>. QED
  BY <1>1, Invariance, AuditInvariance, PTL
=============================================================================
