---------------------------- MODULE BrowserProofs ----------------------------
(***************************************************************************)
(* Proofs about Sessions and Client: tokens are single-use, and payments   *)
(* are made once and reported truly, for any number of tabs, transactions, *)
(* calls and visits.                                                       *)
(***************************************************************************)
EXTENDS Sessions, Client, FiniteSetTheorems, TLAPS

-----------------------------------------------------------------------------
(* Sessions: the inductive invariant *)

Phases == {"NEW", "CALLED", "ROTATING", "REVOKED", "REVOKING", "ISSUED", "REFUSED", "DONE"}

SessionTypes ==
  /\ DOMAIN tokens \subseteq AuthTxn
  /\ \A x \in DOMAIN tokens : tokens[x] \in TokenRow
  /\ rowLock \in [AuthTxn -> AuthTxn \cup {None}]
  /\ srv \in [AuthTxn -> [op: {"NONE", "LOGIN", "REFRESH", "LOGOUT"}, pc: Phases,
                      arg: DOMAIN tokens \cup {None}, left: SUBSET AuthTxn]]
  /\ stored \in DOMAIN tokens \cup {None}
  /\ tab \in [Page -> [page: {"OUT", "LOADING", "IN"}, memory: DOMAIN tokens \cup {None},
                       refresh: AuthTxn \cup {None}, call: AuthTxn \cup {None},
                       spent: SUBSET DOMAIN tokens]]

\* A token is that of the transaction that issued it, in a family that is in the table.
Issued ==
  /\ \A t \in AuthTxn : t \in DOMAIN tokens <=> srv[t].pc = "ISSUED"
  /\ \A x \in DOMAIN tokens : tokens[x].family \in DOMAIN tokens

\* A rotation holds the row of the token it found live.
Rotating(t) ==
  /\ srv[t].op \in {"REFRESH", "LOGOUT"} => srv[t].arg \in DOMAIN tokens
  /\ srv[t].pc = "NEW" <=> srv[t] = New
  /\ srv[t].pc \in {"ROTATING", "REVOKED", "REVOKING"} => srv[t].op = "REFRESH"
  /\ srv[t].pc = "ROTATING" => rowLock[srv[t].arg] = t /\ LiveToken(srv[t].arg)

\* A transaction a tab still waits for is that tab's alone, and no tab has its token.
Unknown(t) ==
  /\ srv[t] # New /\ stored # t
  /\ \A p \in Page : tab[p].memory # t /\ t \notin tab[p].spent

Awaited ==
  \A p \in Page :
    /\ tab[p].refresh # None => Unknown(tab[p].refresh)
    /\ tab[p].call # None => Unknown(tab[p].call) /\ tab[p].call # tab[p].refresh
    /\ \A q \in Page \ {p} :
         {tab[p].refresh, tab[p].call} \cap {tab[q].refresh, tab[q].call} \subseteq {None}

\* The token a tab would present next is one it has not presented.
Unspent == \A p \in Page : tab[p].refresh = None => tab[p].memory \notin tab[p].spent

SessionInv ==
  /\ SessionTypes /\ Issued /\ OneLiveToken
  /\ \A t \in AuthTxn : Rotating(t)
  /\ Awaited /\ Unspent

-----------------------------------------------------------------------------
(* Sessions: the server *)

SrvType == [op: {"NONE", "LOGIN", "REFRESH", "LOGOUT"}, pc: Phases,
            arg: AuthTxn \cup {None}, left: SUBSET AuthTxn]

\* The end of a transaction: its rows are free, all others stay held.
LEMMA SessionEnds ==
  ASSUME SessionTypes, NEW t \in AuthTxn, NEW end \in Phases, Ends(t, end)
  PROVE  /\ \A u \in AuthTxn \ {t} : srv'[u] = srv[u]
         /\ srv'[t].pc = end /\ srv'[t].op = srv[t].op /\ srv'[t].arg = srv[t].arg
         /\ srv' \in [AuthTxn -> [op: {"NONE", "LOGIN", "REFRESH", "LOGOUT"}, pc: Phases,
                              arg: DOMAIN tokens \cup {None}, left: SUBSET AuthTxn]]
         /\ rowLock' \in [AuthTxn -> AuthTxn \cup {None}]
         /\ \A x \in AuthTxn : rowLock[x] # t => rowLock'[x] = rowLock[x]
<1>1. srv'[t] = [srv[t] EXCEPT !.pc = end, !.left = {}]
  BY DEF SessionTypes, Ends
<1>2. srv[t] \in [op: {"NONE", "LOGIN", "REFRESH", "LOGOUT"}, pc: Phases,
                  arg: DOMAIN tokens \cup {None}, left: SUBSET AuthTxn]
  BY DEF SessionTypes
<1>3. /\ srv'[t].pc = end /\ srv'[t].op = srv[t].op /\ srv'[t].arg = srv[t].arg
      /\ srv'[t] \in [op: {"NONE", "LOGIN", "REFRESH", "LOGOUT"}, pc: Phases,
                      arg: DOMAIN tokens \cup {None}, left: SUBSET AuthTxn]
  BY <1>1, <1>2
<1>4. srv' = [srv EXCEPT ![t] = srv'[t]] /\ \A u \in AuthTxn \ {t} : srv'[u] = srv[u]
  BY DEF SessionTypes, Ends
<1>. QED
  BY <1>3, <1>4 DEF SessionTypes, Ends

\* What the server does, the tabs see only when they are answered.
LEMMA TabsWait ==
  ASSUME SessionInv, UNCHANGED <<stored, tab>>,
         \A t \in AuthTxn : srv[t] # New => srv'[t] # New
  PROVE  Awaited' /\ Unspent'
<1>1. \A t \in AuthTxn : Unknown(t) => Unknown(t)'
  BY DEF Unknown
<1>2. \A p \in Page : tab[p].refresh \in AuthTxn \cup {None} /\ tab[p].call \in AuthTxn \cup {None}
  BY DEF SessionInv, SessionTypes
<1>3. Awaited'
  BY <1>1, <1>2 DEF SessionInv, Awaited
<1>. QED
  BY <1>3 DEF SessionInv, Unspent

\* The end of a transaction that writes nothing.
LEMMA RefusedKeeps ==
  ASSUME SessionInv, NEW t \in AuthTxn, srv[t].pc \in {"CALLED", "ROTATING", "REVOKED", "REVOKING"},
         Ends(t, "REFUSED"), UNCHANGED <<tokens, stored, tab>>
  PROVE  SessionInv'
<1>1. SessionTypes /\ Issued /\ OneLiveToken
  BY DEF SessionInv
<1>2. /\ \A u \in AuthTxn \ {t} : srv'[u] = srv[u]
      /\ srv'[t].pc = "REFUSED" /\ srv'[t].op = srv[t].op /\ srv'[t].arg = srv[t].arg
      /\ srv' \in [AuthTxn -> [op: {"NONE", "LOGIN", "REFRESH", "LOGOUT"}, pc: Phases,
                           arg: DOMAIN tokens \cup {None}, left: SUBSET AuthTxn]]
      /\ rowLock' \in [AuthTxn -> AuthTxn \cup {None}]
      /\ \A x \in AuthTxn : rowLock[x] # t => rowLock'[x] = rowLock[x]
  BY <1>1, SessionEnds DEF Phases
<1>3. SessionTypes'
  BY <1>1, <1>2 DEF SessionTypes
<1>4. Issued' /\ OneLiveToken'
  <2>1. OneLiveToken'
    BY <1>1 DEF OneLiveToken, LiveToken
  <2>2. \A u \in AuthTxn : u \in DOMAIN tokens <=> srv'[u].pc = "ISSUED"
    <3>1. srv[t].pc # "ISSUED" /\ srv'[t].pc # "ISSUED"
      BY <1>2
    <3>. QED
      BY <1>1, <1>2, <3>1 DEF Issued
  <2>3. \A x \in DOMAIN tokens' : tokens'[x].family \in DOMAIN tokens'
    BY <1>1 DEF Issued
  <2>. QED
    BY <2>1, <2>2, <2>3 DEF Issued
<1>5. srv'[t] # New /\ \A u \in AuthTxn : srv[u] # New => srv'[u] # New
  <2>2. srv'[t] # New
    BY <1>2 DEF New
  <2>. QED
    BY <1>2, <2>2
<1>6. Awaited' /\ Unspent'
  BY <1>5, TabsWait
<1>7. ASSUME NEW u \in AuthTxn PROVE Rotating(u)'
  <2>1. Rotating(u) /\ srv[u].arg \in DOMAIN tokens \cup {None}
    BY <1>1 DEF SessionInv, SessionTypes
  <2>2. CASE u = t
    BY <1>2, <1>5, <2>1, <2>2 DEF Rotating
  <2>3. CASE u # t
    <3>1. srv[u].pc = "ROTATING" => srv[u].arg \in AuthTxn /\ rowLock[srv[u].arg] # t
      BY <1>1, <2>1, <2>3 DEF Rotating, SessionTypes
    <3>. QED
      BY <1>2, <2>1, <2>3, <3>1 DEF Rotating, LiveToken
  <2>. QED
    BY <2>2, <2>3
<1>. QED
  BY <1>3, <1>4, <1>6, <1>7 DEF SessionInv

\* Once a transaction has ended with a write, tokens are typed and rows stay held.
LEMMA WriteEnds ==
  ASSUME SessionInv, NEW t \in AuthTxn, srv[t].pc \in {"CALLED", "ROTATING", "REVOKING"},
         NEW end \in {"ISSUED", "REFUSED", "DONE"}, Ends(t, end), UNCHANGED <<stored, tab>>,
         DOMAIN tokens' = IF end = "ISSUED" THEN DOMAIN tokens \cup {t} ELSE DOMAIN tokens,
         \A x \in DOMAIN tokens' : tokens'[x] \in TokenRow /\ tokens'[x].family \in DOMAIN tokens',
         \A x \in DOMAIN tokens : rowLock[x] # t /\ rowLock[x] # None
                                    => tokens'[x].live = tokens[x].live,
         OneLiveToken'
  PROVE  SessionInv'
<1>1. SessionTypes /\ Issued
  BY DEF SessionInv
<1>2. /\ \A u \in AuthTxn \ {t} : srv'[u] = srv[u]
      /\ srv'[t].pc = end /\ srv'[t].op = srv[t].op /\ srv'[t].arg = srv[t].arg
      /\ srv' \in [AuthTxn -> [op: {"NONE", "LOGIN", "REFRESH", "LOGOUT"}, pc: Phases,
                           arg: DOMAIN tokens \cup {None}, left: SUBSET AuthTxn]]
      /\ rowLock' \in [AuthTxn -> AuthTxn \cup {None}]
      /\ \A x \in AuthTxn : rowLock[x] # t => rowLock'[x] = rowLock[x]
  BY <1>1, SessionEnds DEF Phases
<1>3. DOMAIN tokens \subseteq DOMAIN tokens' /\ DOMAIN tokens' \subseteq AuthTxn
  BY <1>1 DEF SessionTypes
<1>4. SessionTypes'
  <2>1. srv' \in [AuthTxn -> [op: {"NONE", "LOGIN", "REFRESH", "LOGOUT"}, pc: Phases,
                          arg: DOMAIN tokens' \cup {None}, left: SUBSET AuthTxn]]
    BY <1>2, <1>3
  <2>2. tab \in [Page -> [page: {"OUT", "LOADING", "IN"}, memory: DOMAIN tokens' \cup {None},
                          refresh: AuthTxn \cup {None}, call: AuthTxn \cup {None},
                          spent: SUBSET DOMAIN tokens']]
    BY <1>1, <1>3 DEF SessionTypes
  <2>. QED
    BY <1>1, <1>2, <1>3, <2>1, <2>2 DEF SessionTypes
<1>5. Issued'
  <2>1. \A u \in AuthTxn : u \in DOMAIN tokens' <=> srv'[u].pc = "ISSUED"
    <3>1. srv[t].pc # "ISSUED" /\ t \notin DOMAIN tokens
      BY <1>1 DEF Issued
    <3>. QED
      BY <1>1, <1>2, <3>1 DEF Issued
  <2>. QED
    BY <2>1 DEF Issued
<1>6. srv'[t] # New /\ \A u \in AuthTxn : srv[u] # New => srv'[u] # New
  <2>1. srv'[t] # New
    BY <1>2 DEF New
  <2>. QED
    BY <1>2, <2>1
<1>7. Awaited' /\ Unspent'
  BY <1>6, TabsWait
<1>8. ASSUME NEW u \in AuthTxn PROVE Rotating(u)'
  <2>1. Rotating(u) /\ srv[u].arg \in DOMAIN tokens \cup {None}
    BY <1>1 DEF SessionInv, SessionTypes
  <2>2. CASE u = t
    BY <1>2, <1>3, <1>6, <2>1, <2>2 DEF Rotating
  <2>3. CASE u # t
    <3>1. srv[u].pc = "ROTATING" =>
            /\ srv[u].arg \in DOMAIN tokens /\ srv[u].arg \in AuthTxn
            /\ rowLock[srv[u].arg] = u /\ u # None
      BY <1>1, <2>1, SessionsAssumption DEF Rotating, SessionTypes
    <3>. QED
      BY <1>2, <1>3, <2>1, <2>3, <3>1 DEF Rotating, LiveToken
  <2>. QED
    BY <2>2, <2>3
<1>. QED
  BY <1>4, <1>5, <1>7, <1>8 DEF SessionInv

\* A session is issued: a family of its own, or the one rotated, whose token ends.
LEMMA IssueKeeps ==
  ASSUME SessionInv, NEW t \in AuthTxn, CommitLogin(t) \/ CommitRotation(t)
  PROVE  SessionInv'
<1>1. SessionTypes /\ Issued /\ OneLiveToken /\ Rotating(t)
  BY DEF SessionInv
<1>2. srv[t].pc \in {"CALLED", "ROTATING"} /\ Ends(t, "ISSUED") /\ UNCHANGED <<stored, tab>>
      /\ t \notin DOMAIN tokens
  BY <1>1 DEF CommitLogin, CommitRotation, Issued
<1>3. PICK family \in DOMAIN tokens \cup {t} :
        /\ DOMAIN tokens' = DOMAIN tokens \cup {t}
        /\ tokens'[t] = [family |-> family, live |-> TRUE, replacedBy |-> None]
        /\ \A x \in DOMAIN tokens :
             /\ tokens'[x].family = tokens[x].family /\ tokens'[x] \in TokenRow
             /\ tokens'[x].live => tokens[x].live /\ tokens[x].family # family
             /\ rowLock[x] # t => tokens'[x] = tokens[x]
  <2>1. CASE CommitLogin(t)
    <3>1. /\ DOMAIN tokens' = DOMAIN tokens \cup {t}
          /\ tokens'[t] = [family |-> t, live |-> TRUE, replacedBy |-> None]
          /\ \A x \in DOMAIN tokens : tokens'[x] = tokens[x]
      BY <1>2, <2>1 DEF CommitLogin, IssueSession, InsertRefreshToken, Plus
    <3>2. \A x \in DOMAIN tokens : tokens[x].family # t /\ tokens'[x] \in TokenRow
      BY <1>1, <1>2, <3>1 DEF Issued, SessionTypes
    <3>. QED
      BY <3>1, <3>2
  <2>2. CASE CommitRotation(t)
    <3>. PICK old : old = srv[t].arg
      OBVIOUS
    <3>1. old \in DOMAIN tokens /\ rowLock[old] = t /\ LiveToken(old)
      BY <1>1, <2>2 DEF CommitRotation, Rotating
    <3>2. /\ DOMAIN tokens' = DOMAIN tokens \cup {t}
          /\ tokens'[t] = [family |-> tokens[old].family, live |-> TRUE, replacedBy |-> None]
          /\ tokens'[old] = [tokens[old] EXCEPT !.live = FALSE, !.replacedBy = t]
          /\ \A x \in DOMAIN tokens \ {old} : tokens'[x] = tokens[x]
      BY <1>2, <2>2, <3>1 DEF CommitRotation, Rotated, IssueSession, InsertRefreshToken, Plus
    <3>3. tokens'[old] \in TokenRow /\ tokens'[old].family = tokens[old].family
          /\ ~ tokens'[old].live
      BY <1>1, <3>1, <3>2 DEF SessionTypes, TokenRow
    <3>4. \A x \in DOMAIN tokens \ {old} :
            tokens[x].live => tokens[x].family # tokens[old].family
      BY <1>1, <3>1 DEF OneLiveToken, LiveToken
    <3>5. tokens[old].family \in DOMAIN tokens
      BY <1>1, <3>1 DEF Issued
    <3>. QED
      BY <1>1, <3>1, <3>2, <3>3, <3>4, <3>5 DEF SessionTypes
  <2>. QED
    BY <2>1, <2>2
<1>4. \A x \in DOMAIN tokens' : tokens'[x] \in TokenRow /\ tokens'[x].family \in DOMAIN tokens'
  <2>1. tokens'[t] \in TokenRow /\ tokens'[t].family = family
    <3>1. family \in AuthTxn
      BY <1>1, <1>3 DEF SessionTypes
    <3>. QED
      BY <1>3, <3>1 DEF TokenRow
  <2>. QED
    BY <1>1, <1>3, <2>1 DEF Issued
<1>5. OneLiveToken'
  <2>1. tokens'[t].family = family
    BY <1>3
  <2>. QED
    BY <1>1, <1>3, <2>1 DEF OneLiveToken, LiveToken
<1>. QED
  BY <1>2, <1>3, <1>4, <1>5, WriteEnds

\* Tokens end: one signed out, or all of a family's that are live.
LEMMA RevokeKeeps ==
  ASSUME SessionInv, NEW t \in AuthTxn, CommitRevocation(t) \/ CommitLogout(t)
  PROVE  SessionInv'
<1>1. SessionTypes /\ Issued /\ OneLiveToken /\ Rotating(t)
  BY DEF SessionInv
<1>2. PICK end \in {"REFUSED", "DONE"} : Ends(t, end)
  BY DEF CommitRevocation, CommitLogout
<1>3. srv[t].pc \in {"CALLED", "REVOKING"} /\ UNCHANGED <<stored, tab>>
  BY DEF CommitRevocation, CommitLogout
<1>4. /\ DOMAIN tokens' = DOMAIN tokens
      /\ \A x \in DOMAIN tokens :
           \/ tokens'[x] = tokens[x]
           \/ rowLock[x] \in {t, None} /\ tokens'[x] = [tokens[x] EXCEPT !.live = FALSE]
  BY <1>1 DEF CommitRevocation, CommitLogout, RevokeToken, Rotating
<1>5. \A x \in DOMAIN tokens :
        /\ tokens'[x] \in TokenRow /\ tokens'[x].family = tokens[x].family
        /\ tokens'[x].live => tokens[x].live
  <2>. SUFFICES ASSUME NEW x \in DOMAIN tokens
                PROVE  /\ tokens'[x] \in TokenRow /\ tokens'[x].family = tokens[x].family
                       /\ tokens'[x].live => tokens[x].live
    OBVIOUS
  <2>1. tokens[x] \in TokenRow
    BY <1>1 DEF SessionTypes
  <2>2. CASE tokens'[x] = [tokens[x] EXCEPT !.live = FALSE]
    BY <2>1, <2>2 DEF TokenRow
  <2>. QED
    BY <1>4, <2>1, <2>2
<1>6. \A x \in DOMAIN tokens' : tokens'[x] \in TokenRow /\ tokens'[x].family \in DOMAIN tokens'
  BY <1>1, <1>4, <1>5 DEF Issued
<1>7. OneLiveToken'
  BY <1>1, <1>4, <1>5 DEF OneLiveToken, LiveToken
<1>. QED
  BY <1>2, <1>3, <1>4, <1>6, <1>7, WriteEnds

\* A running refresh locks free rows and changes nothing else.
LEMMA LockingKeeps ==
  ASSUME SessionInv, NEW t \in AuthTxn,
         FindToken(t) \/ \E x \in AuthTxn : ReachRow(t, x)
  PROVE  SessionInv'
<1>1. SessionTypes /\ Issued /\ OneLiveToken /\ Rotating(t)
  BY DEF SessionInv
<1>2. /\ UNCHANGED <<tokens, stored, tab>>
      /\ srv[t].pc \in {"CALLED", "REVOKING"} /\ srv[t].op = "REFRESH"
      /\ \A u \in AuthTxn \ {t} : srv'[u] = srv[u]
  BY <1>1 DEF FindToken, ReachRow, SessionTypes, Rotating
<1>3. srv[t].arg \in DOMAIN tokens /\ srv[t].arg \in AuthTxn
  BY <1>1, <1>2 DEF Rotating, SessionTypes
<1>4. /\ rowLock' \in [AuthTxn -> AuthTxn \cup {None}]
      /\ \A x \in AuthTxn : rowLock[x] # None => rowLock'[x] = rowLock[x]
  BY <1>1, <1>3 DEF FindToken, ReachRow, MayLock, SessionTypes
<1>5. /\ srv'[t] \in [op: {"NONE", "LOGIN", "REFRESH", "LOGOUT"}, pc: Phases,
                      arg: DOMAIN tokens \cup {None}, left: SUBSET AuthTxn]
      /\ srv' = [srv EXCEPT ![t] = srv'[t]]
      /\ srv'[t].op = "REFRESH" /\ srv'[t].arg = srv[t].arg
      /\ srv'[t].pc \in {"ROTATING", "REVOKED", "REVOKING"}
      /\ srv'[t].pc = "ROTATING" => rowLock'[srv[t].arg] = t /\ LiveToken(srv[t].arg)
  <2>1. srv[t] \in [op: {"NONE", "LOGIN", "REFRESH", "LOGOUT"}, pc: Phases,
                    arg: DOMAIN tokens \cup {None}, left: SUBSET AuthTxn]
    BY <1>1 DEF SessionTypes
  <2>2. CASE FindToken(t)
    <3>1. PICK pc : pc = IF tokens[srv[t].arg].live THEN "ROTATING"
                       ELSE IF tokens[srv[t].arg].replacedBy = None THEN "REVOKED" ELSE "REVOKING"
      OBVIOUS
    <3>2. PICK left : left = IF ~ tokens[srv[t].arg].live /\ tokens[srv[t].arg].replacedBy # None
                           THEN {x \in DOMAIN tokens :
                                   tokens[x].family = tokens[srv[t].arg].family /\ LiveToken(x)}
                           ELSE {}
      OBVIOUS
    <3>3. srv' = [srv EXCEPT ![t].pc = pc, ![t].left = left]
      BY <2>2, <3>1, <3>2, Zenon DEF FindToken
    <3>4. srv'[t] = [srv[t] EXCEPT !.pc = pc, !.left = left] /\ srv' = [srv EXCEPT ![t] = srv'[t]]
      BY <1>1, <3>3 DEF SessionTypes
    <3>5. rowLock'[srv[t].arg] = t
      BY <1>1, <1>3, <2>2 DEF FindToken, SessionTypes
    <3>6. /\ pc = "ROTATING" => tokens[srv[t].arg].live
          /\ pc \in {"ROTATING", "REVOKED", "REVOKING"}
      BY <3>1
    <3>7. left \in SUBSET AuthTxn /\ pc \in Phases
      <4>1. {x \in DOMAIN tokens :
               tokens[x].family = tokens[srv[t].arg].family /\ LiveToken(x)} \in SUBSET AuthTxn
        BY <1>1 DEF SessionTypes
      <4>. QED
        BY <3>2, <3>6, <4>1 DEF Phases
    <3>8. /\ srv'[t] \in [op: {"NONE", "LOGIN", "REFRESH", "LOGOUT"}, pc: Phases,
                          arg: DOMAIN tokens \cup {None}, left: SUBSET AuthTxn]
          /\ srv'[t].op = "REFRESH" /\ srv'[t].arg = srv[t].arg /\ srv'[t].pc = pc
      BY <1>2, <2>1, <3>4, <3>7
    <3>. QED
      BY <3>4, <3>5, <3>6, <3>8 DEF LiveToken
  <2>3. ASSUME NEW x \in AuthTxn, ReachRow(t, x)
        PROVE  /\ srv'[t] \in [op: {"NONE", "LOGIN", "REFRESH", "LOGOUT"}, pc: Phases,
                               arg: DOMAIN tokens \cup {None}, left: SUBSET AuthTxn]
               /\ srv' = [srv EXCEPT ![t] = srv'[t]]
               /\ srv'[t].op = "REFRESH" /\ srv'[t].arg = srv[t].arg
               /\ srv'[t].pc = "REVOKING"
    <3>1. CASE srv' = srv
      BY <1>1, <1>2, <2>1, <2>3, <3>1 DEF ReachRow, SessionTypes
    <3>2. CASE srv' = [srv EXCEPT ![t].left = @ \ {x}]
      <4>1. srv'[t] = [srv[t] EXCEPT !.left = @ \ {x}] /\ srv' = [srv EXCEPT ![t] = srv'[t]]
        BY <1>1, <3>2 DEF SessionTypes
      <4>. QED
        BY <1>2, <2>1, <2>3, <4>1 DEF ReachRow
    <3>. QED
      BY <2>3, <3>1, <3>2 DEF ReachRow
  <2>. QED
    BY <2>2, <2>3
<1>6. SessionTypes'
  BY <1>1, <1>2, <1>4, <1>5 DEF SessionTypes
<1>7. Issued' /\ OneLiveToken'
  <2>1. OneLiveToken'
    BY <1>1, <1>2 DEF OneLiveToken, LiveToken
  <2>. QED
    BY <1>1, <1>2, <1>5, <2>1 DEF Issued
<1>8. srv'[t] # New /\ \A u \in AuthTxn : srv[u] # New => srv'[u] # New
  <2>1. srv'[t] # New
    BY <1>5 DEF New
  <2>. QED
    BY <1>2, <2>1
<1>9. Awaited' /\ Unspent'
  BY <1>2, <1>8, TabsWait
<1>10. ASSUME NEW u \in AuthTxn PROVE Rotating(u)'
  <2>1. Rotating(u) /\ srv[u].arg \in DOMAIN tokens \cup {None} /\ u # None
    BY <1>1, SessionsAssumption DEF SessionInv, SessionTypes
  <2>2. CASE u = t
    BY <1>2, <1>3, <1>5, <1>8, <2>2 DEF Rotating, LiveToken
  <2>3. CASE u # t
    <3>1. srv[u].pc = "ROTATING" => srv[u].arg \in AuthTxn
      BY <1>1, <2>1 DEF Rotating, SessionTypes
    <3>. QED
      BY <1>2, <1>4, <2>1, <2>3, <3>1 DEF Rotating, LiveToken
  <2>. QED
    BY <2>2, <2>3
<1>. QED
  BY <1>6, <1>7, <1>9, <1>10 DEF SessionInv

LEMMA ServerKeeps ==
  ASSUME SessionInv, NEW t \in AuthTxn, Server(t)
  PROVE  SessionInv'
<1>1. CASE CommitLogin(t) \/ CommitRotation(t)
  BY <1>1, IssueKeeps
<1>2. CASE CommitRevocation(t) \/ CommitLogout(t)
  BY <1>2, RevokeKeeps
<1>3. CASE RefuseRotation(t) \/ RefuseRevoked(t) \/ AbortAuth(t)
  BY <1>3, RefusedKeeps DEF RefuseRotation, RefuseRevoked, AbortAuth
<1>4. CASE FindToken(t) \/ \E x \in AuthTxn : ReachRow(t, x)
  BY <1>4, LockingKeeps
<1>. QED
  BY <1>1, <1>2, <1>3, <1>4 DEF Server

-----------------------------------------------------------------------------
(* Sessions: the tabs *)

View == [page: {"OUT", "LOADING", "IN"}, memory: DOMAIN tokens \cup {None},
         refresh: AuthTxn \cup {None}, call: AuthTxn \cup {None}, spent: SUBSET DOMAIN tokens]

\* A token a tab does not wait for.
Apart(view, x) == x = None \/ (x # view.refresh /\ x # view.call)

\* A tab is loaded, answered or cleared: it waits for nothing new, and what it and
\* localStorage now hold is what no tab still waits for, and has not been presented.
Learns(p, view) ==
  /\ UNCHANGED <<tokens, rowLock, srv>>
  /\ tab' = [tab EXCEPT ![p] = view] /\ view \in View
  /\ stored' \in DOMAIN tokens \cup {None}
  /\ view.refresh \in {tab[p].refresh, None} /\ view.call \in {tab[p].call, None}
  /\ view.spent \subseteq tab[p].spent
  /\ view.refresh = None => view.memory \notin view.spent
  /\ \A x \in {view.memory, stored'} :
       Apart(view, x) /\ \A q \in Page \ {p} : Apart(tab[q], x)

LEMMA LearnsKeeps ==
  ASSUME SessionInv, NEW p \in Page, NEW view, Learns(p, view)
  PROVE  SessionInv'
<1>1. SessionTypes /\ Issued /\ OneLiveToken /\ Awaited
  BY DEF SessionInv
<1>2. tab'[p] = view /\ \A q \in Page \ {p} : tab'[q] = tab[q]
  BY <1>1 DEF Learns, SessionTypes
<1>3. SessionTypes'
  <2>1. tab' \in [Page -> View]
    BY <1>1 DEF Learns, SessionTypes, View
  <2>. QED
    BY <1>1, <2>1 DEF Learns, SessionTypes, View
<1>4. Issued' /\ OneLiveToken' /\ \A t \in AuthTxn : Rotating(t)'
  BY DEF SessionInv, Learns, Issued, OneLiveToken, LiveToken, Rotating
<1>5. ASSUME NEW q \in Page, NEW t \in {tab'[q].refresh, tab'[q].call}, t # None
      PROVE  Unknown(t)'
  <2>1. Unknown(t)
    BY <1>1, <1>2, <1>5 DEF Awaited, Learns
  <2>2. t \notin {view.memory, stored'}
    <3>1. CASE q = p
      BY <1>2, <1>5, <3>1 DEF Learns, Apart
    <3>2. CASE q # p
      BY <1>2, <1>5, <3>2 DEF Learns, Apart
    <3>. QED
      BY <3>1, <3>2
  <2>. QED
    BY <1>2, <2>1, <2>2 DEF Unknown, Learns
<1>6. Awaited'
  <2>1. \A q \in Page : tab'[q].call # None => tab'[q].call # tab'[q].refresh
    BY <1>1, <1>2 DEF Awaited, Learns
  <2>2. \A q \in Page : \A u \in Page \ {q} :
          {tab'[q].refresh, tab'[q].call} \cap {tab'[u].refresh, tab'[u].call} \subseteq {None}
    BY <1>1, <1>2 DEF Awaited, Learns
  <2>. QED
    BY <1>5, <2>1, <2>2 DEF Awaited
<1>7. Unspent'
  BY <1>2 DEF SessionInv, Unspent, Learns
<1>. QED
  BY <1>3, <1>4, <1>6, <1>7 DEF SessionInv

\* A call goes out in a new transaction, which one tab waits for.
Calls(p, view, t, op, arg) ==
  /\ srv[t] = New /\ Called(t, op, arg) /\ UNCHANGED <<tokens, rowLock, stored>>
  /\ op \in {"LOGIN", "REFRESH", "LOGOUT"} /\ arg \in DOMAIN tokens \cup {None}
  /\ op # "LOGIN" => arg # None
  /\ tab' = [tab EXCEPT ![p] = view] /\ view \in View /\ view.memory = tab[p].memory
  /\ view.spent \subseteq tab[p].spent \cup {tab[p].memory}
  /\ \/ view.refresh = t /\ view.call = tab[p].call
     \/ view.call = t /\ view.refresh = tab[p].refresh /\ view.spent = tab[p].spent

LEMMA CallsKeeps ==
  ASSUME SessionInv, NEW p \in Page, NEW view, NEW t \in AuthTxn, NEW op, NEW arg,
         Calls(p, view, t, op, arg)
  PROVE  SessionInv'
<1>1. SessionTypes /\ Issued /\ OneLiveToken /\ Awaited /\ Unspent /\ t # None
  BY SessionsAssumption DEF SessionInv
<1>2. tab'[p] = view /\ \A q \in Page \ {p} : tab'[q] = tab[q]
  BY <1>1 DEF Calls, SessionTypes
<1>3. /\ srv' = [srv EXCEPT ![t] = srv'[t]]
      /\ srv'[t] = [op |-> op, pc |-> "CALLED", arg |-> arg, left |-> {}]
      /\ \A u \in AuthTxn \ {t} : srv'[u] = srv[u]
  BY <1>1 DEF Calls, Called, New, SessionTypes
<1>4. SessionTypes'
  <2>1. tab' \in [Page -> View]
    BY <1>1 DEF Calls, SessionTypes, View
  <2>2. srv'[t] \in [op: {"NONE", "LOGIN", "REFRESH", "LOGOUT"}, pc: Phases,
                     arg: DOMAIN tokens \cup {None}, left: SUBSET AuthTxn]
    BY <1>3 DEF Calls, Phases
  <2>3. srv' \in [AuthTxn -> [op: {"NONE", "LOGIN", "REFRESH", "LOGOUT"}, pc: Phases,
                          arg: DOMAIN tokens \cup {None}, left: SUBSET AuthTxn]]
    BY <1>1, <1>3, <2>2 DEF SessionTypes
  <2>. QED
    BY <1>1, <2>1, <2>3 DEF Calls, SessionTypes, View
<1>5. srv[t].pc = "NEW" /\ srv'[t].pc = "CALLED" /\ t \notin DOMAIN tokens
  BY <1>1, <1>3 DEF Calls, New, Issued
<1>6. Issued' /\ OneLiveToken'
  <2>1. OneLiveToken'
    BY <1>1 DEF Calls, OneLiveToken, LiveToken
  <2>. QED
    BY <1>1, <1>3, <1>5, <2>1 DEF Calls, Issued
<1>7. srv'[t] # New
  BY <1>5 DEF New
<1>8. ASSUME NEW u \in AuthTxn PROVE Rotating(u)'
  <2>1. CASE u = t
    BY <1>3, <1>7, <2>1 DEF Calls, Rotating
  <2>2. CASE u # t
    BY <1>3, <2>2 DEF SessionInv, Calls, Rotating, LiveToken
  <2>. QED
    BY <2>1, <2>2
<1>9. \A q \in Page : t # tab[q].refresh /\ t # tab[q].call
  BY <1>1 DEF Calls, Awaited, Unknown
<1>10. \A q \in Page : view.memory # t /\ tab'[q].memory # t /\ t \notin tab'[q].spent
  <2>1. \A q \in Page : tab'[q] \in View
    BY <1>4 DEF SessionTypes, Calls, View
  <2>2. view.memory # t
    BY <1>1, <1>5 DEF Calls, View
  <2>. QED
    BY <1>1, <1>5, <2>1, <2>2 DEF View
<1>11. Unknown(t)'
  BY <1>1, <1>5, <1>7, <1>10 DEF Unknown, Calls, SessionTypes
<1>12. ASSUME NEW u \in AuthTxn \ {t}, Unknown(u) PROVE Unknown(u)'
  <2>1. tab[p].memory # u /\ view.memory # u
    BY <1>12 DEF Unknown, Calls
  <2>2. u \notin view.spent
    BY <1>12, <2>1 DEF Unknown, Calls
  <2>. QED
    BY <1>2, <1>3, <1>12, <2>1, <2>2 DEF Unknown, Calls
<1>13. Awaited'
  <2>1. ASSUME NEW q \in Page, NEW u \in {tab'[q].refresh, tab'[q].call}, u # None
        PROVE  Unknown(u)'
    <3>1. CASE u = t
      BY <1>11, <3>1
    <3>2. CASE u # t
      <4>1. u \in {tab[q].refresh, tab[q].call}
        BY <1>2, <2>1, <3>2 DEF Calls
      <4>2. u \in AuthTxn /\ Unknown(u)
        BY <1>1, <2>1, <4>1 DEF Awaited, SessionTypes
      <4>. QED
        BY <1>12, <3>2, <4>2
    <3>. QED
      BY <3>1, <3>2
  <2>2. \A q \in Page : tab'[q].call # None => tab'[q].call # tab'[q].refresh
    BY <1>1, <1>2, <1>9 DEF Awaited, Calls
  <2>3. \A q \in Page : \A u \in Page \ {q} :
          {tab'[q].refresh, tab'[q].call} \cap {tab'[u].refresh, tab'[u].call} \subseteq {None}
    BY <1>1, <1>2, <1>9 DEF Awaited, Calls
  <2>. QED
    BY <2>1, <2>2, <2>3 DEF Awaited
<1>14. Unspent'
  BY <1>1, <1>2 DEF Unspent, Calls
<1>. QED
  BY <1>4, <1>6, <1>8, <1>13, <1>14 DEF SessionInv

\* What a tab does is one or the other; only the start of a refresh makes it wait for one.
LEMMA TabMoves ==
  ASSUME SessionInv, NEW p \in Page, Browser(p)
  PROVE  \/ \E view : Learns(p, view)
         \/ \E view : \E t \in AuthTxn : \E op, arg :
              /\ Calls(p, view, t, op, arg)
              /\ view.refresh # tab[p].refresh => tab[p].memory \notin tab[p].spent
<1>1. SessionTypes /\ Issued /\ Awaited /\ Unspent /\ tab[p] \in View /\ None \notin AuthTxn
  BY SessionsAssumption DEF SessionInv, SessionTypes, View
<1>2. /\ None \notin tab[p].spent
      /\ \A q, u \in Page : Apart(tab[q], stored) /\ Apart(tab[q], tab[u].memory)
  BY <1>1 DEF View, Apart, Awaited, Unknown, SessionTypes
<1>3. CASE Load(p)
  <2>1. PICK at : at = IF stored = None THEN "OUT" ELSE "LOADING"
    OBVIOUS
  <2>2. PICK view : view = [Closed EXCEPT !.memory = stored, !.page = at]
    OBVIOUS
  <2>3. tab' = [tab EXCEPT ![p] = view]
    BY <1>3, <2>1, <2>2 DEF Load
  <2>4. /\ view \in View /\ view.memory = stored /\ view.refresh = None /\ view.call = None
        /\ view.spent = {}
    <3>1. at \in {"OUT", "LOADING", "IN"}
      BY <2>1
    <3>. QED
      BY <1>1, <2>2, <3>1 DEF View, Closed, SessionTypes
  <2>9. Learns(p, view)
    BY <1>1, <1>2, <1>3, <2>3, <2>4 DEF Load, Learns, Apart, SessionTypes
  <2>. QED
    BY <2>9
<1>4. CASE Restored(p)
  <2>2. PICK view : view = [tab[p] EXCEPT !.page = "IN"]
    OBVIOUS
  <2>3. tab' = [tab EXCEPT ![p] = view]
    BY <1>4, <2>2 DEF Restored
  <2>4. /\ view \in View /\ view.memory = tab[p].memory /\ view.refresh = tab[p].refresh
        /\ view.call = tab[p].call /\ view.spent = tab[p].spent
    BY <1>1, <2>2 DEF View
  <2>5. UNCHANGED <<tokens, rowLock, srv, stored>> /\ stored \in DOMAIN tokens \cup {None}
    BY <1>1, <1>4 DEF Restored, SessionTypes
  <2>6. /\ view.refresh = None => view.memory \notin view.spent
        /\ Apart(view, view.memory) /\ Apart(view, stored)
    BY <1>1, <1>2, <2>4 DEF Unspent, Apart
  <2>9. Learns(p, view)
    BY <1>2, <2>3, <2>4, <2>5, <2>6 DEF Learns
  <2>. QED
    BY <2>9
<1>5. CASE NotRestored(p)
  <2>2. PICK view : view = [tab[p] EXCEPT !.page = "OUT", !.memory = None]
    OBVIOUS
  <2>3. tab' = [tab EXCEPT ![p] = view] /\ stored' = None
    BY <1>5, <2>2 DEF NotRestored, SetSession
  <2>4. /\ view \in View /\ view.memory = None /\ view.refresh = tab[p].refresh
        /\ view.call = tab[p].call /\ view.spent = tab[p].spent
    BY <1>1, <2>2 DEF View
  <2>9. Learns(p, view)
    BY <1>1, <1>2, <1>5, <2>3, <2>4 DEF NotRestored, Learns, Apart
  <2>. QED
    BY <2>9
<1>6. CASE RefreshAnswered(p)
  <2>1. PICK t : t = tab[p].refresh /\ t \in DOMAIN tokens /\ t # None /\ Unknown(t)
    BY <1>1, <1>6 DEF RefreshAnswered, Issued, Awaited, View
  <2>2. PICK view : view = [tab[p] EXCEPT !.refresh = None, !.memory = t]
    OBVIOUS
  <2>3. tab' = [tab EXCEPT ![p] = view] /\ stored' = t
    BY <1>6, <2>1, <2>2 DEF RefreshAnswered, SetSession
  <2>4. /\ view \in View /\ view.memory = t /\ view.refresh = None
        /\ view.call = tab[p].call /\ view.spent = tab[p].spent
    BY <1>1, <2>1, <2>2 DEF View
  <2>5. /\ t \notin tab[p].spent /\ t # tab[p].call
        /\ \A q \in Page \ {p} : t \notin {tab[q].refresh, tab[q].call}
    BY <1>1, <2>1 DEF Awaited, Unknown
  <2>6. UNCHANGED <<tokens, rowLock, srv>>
    BY <1>6 DEF RefreshAnswered
  <2>9. Learns(p, view)
    BY <2>1, <2>3, <2>4, <2>5, <2>6 DEF Learns, Apart
  <2>. QED
    BY <2>9
<1>7. CASE RefreshFailed(p)
  <2>2. PICK view : view = [tab[p] EXCEPT !.refresh = None, !.page = "OUT", !.memory = None]
    OBVIOUS
  <2>3. tab' = [tab EXCEPT ![p] = view] /\ stored' = None
    BY <1>7, <2>2 DEF RefreshFailed, SetSession
  <2>4. /\ view \in View /\ view.memory = None /\ view.refresh = None
        /\ view.call = tab[p].call /\ view.spent = tab[p].spent
    BY <1>1, <2>2 DEF View
  <2>9. Learns(p, view)
    BY <1>1, <1>2, <1>7, <2>3, <2>4 DEF RefreshFailed, Learns, Apart
  <2>. QED
    BY <2>9
<1>8. CASE SignInAnswered(p)
  <2>1. PICK t : t = tab[p].call /\ t \in DOMAIN tokens /\ t # None /\ Unknown(t)
    BY <1>1, <1>8 DEF SignInAnswered, Issued, Awaited, View
  <2>2. PICK view : view = [tab[p] EXCEPT !.page = "IN", !.call = None, !.memory = t]
    OBVIOUS
  <2>3. tab' = [tab EXCEPT ![p] = view] /\ stored' = t
    BY <1>8, <2>1, <2>2 DEF SignInAnswered, SetSession
  <2>4. /\ view \in View /\ view.memory = t /\ view.refresh = tab[p].refresh
        /\ view.call = None /\ view.spent = tab[p].spent
    BY <1>1, <2>1, <2>2 DEF View
  <2>5. /\ t \notin tab[p].spent /\ t # tab[p].refresh
        /\ \A q \in Page \ {p} : t \notin {tab[q].refresh, tab[q].call}
    BY <1>1, <2>1 DEF Awaited, Unknown
  <2>6. UNCHANGED <<tokens, rowLock, srv>>
    BY <1>8 DEF SignInAnswered
  <2>9. Learns(p, view)
    BY <2>1, <2>3, <2>4, <2>5, <2>6 DEF Learns, Apart
  <2>. QED
    BY <2>9
<1>9. CASE SignInFailed(p)
  <2>2. PICK view : view = [tab[p] EXCEPT !.call = None]
    OBVIOUS
  <2>3. tab' = [tab EXCEPT ![p] = view]
    BY <1>9, <2>2 DEF SignInFailed
  <2>4. /\ view \in View /\ view.memory = tab[p].memory /\ view.refresh = tab[p].refresh
        /\ view.call = None /\ view.spent = tab[p].spent
    BY <1>1, <2>2 DEF View
  <2>5. UNCHANGED <<tokens, rowLock, srv, stored>> /\ stored \in DOMAIN tokens \cup {None}
    BY <1>1, <1>9 DEF SignInFailed, SessionTypes
  <2>6. /\ view.refresh = None => view.memory \notin view.spent
        /\ Apart(view, view.memory) /\ Apart(view, stored)
    BY <1>1, <1>2, <2>4 DEF Unspent, Apart
  <2>9. Learns(p, view)
    BY <1>2, <2>3, <2>4, <2>5, <2>6 DEF Learns
  <2>. QED
    BY <2>9
<1>10. CASE SignedOut(p)
  <2>2. PICK view : view = [tab[p] EXCEPT !.page = "OUT", !.call = None, !.memory = None]
    OBVIOUS
  <2>3. tab' = [tab EXCEPT ![p] = view] /\ stored' = None
    BY <1>10, <2>2 DEF SignedOut, SetSession
  <2>4. /\ view \in View /\ view.memory = None /\ view.refresh = tab[p].refresh
        /\ view.call = None /\ view.spent = tab[p].spent
    BY <1>1, <2>2 DEF View
  <2>9. Learns(p, view)
    BY <1>1, <1>2, <1>10, <2>3, <2>4 DEF SignedOut, Learns, Apart
  <2>. QED
    BY <2>9
<1>11. ASSUME NEW t \in AuthTxn, StartRefresh(p, t)
       PROVE  \E view, op, arg : /\ Calls(p, view, t, op, arg)
                                 /\ tab[p].memory \notin tab[p].spent
  <2>1. PICK view : view = [tab[p] EXCEPT !.refresh = t, !.spent = @ \cup {tab[p].memory}]
    OBVIOUS
  <2>2. tab' = [tab EXCEPT ![p] = view]
    BY <1>1, <1>11, <2>1 DEF StartRefresh, SessionTypes
  <2>3. tab[p].memory \in DOMAIN tokens /\ tab[p].memory \notin tab[p].spent
    BY <1>1, <1>11 DEF StartRefresh, NoneInFlight, Unspent, View
  <2>4. /\ view \in View /\ view.memory = tab[p].memory /\ view.refresh = t
        /\ view.call = tab[p].call /\ view.spent = tab[p].spent \cup {tab[p].memory}
    BY <1>1, <2>1, <2>3 DEF View
  <2>5. Calls(p, view, t, "REFRESH", tab[p].memory)
    BY <1>1, <1>11, <2>2, <2>3, <2>4 DEF StartRefresh, Calls
  <2>. QED
    BY <2>3, <2>5
<1>12. ASSUME NEW t \in AuthTxn, StartSignIn(p, t) \/ StartSignOut(p, t)
       PROVE  \E view, op, arg : /\ Calls(p, view, t, op, arg)
                                 /\ view.refresh = tab[p].refresh
  <2>1. PICK view : view = [tab[p] EXCEPT !.call = t]
    OBVIOUS
  <2>2. tab' = [tab EXCEPT ![p] = view]
    BY <1>1, <1>12, <2>1 DEF StartSignIn, StartSignOut, SessionTypes
  <2>4. /\ view \in View /\ view.memory = tab[p].memory /\ view.refresh = tab[p].refresh
        /\ view.call = t /\ view.spent = tab[p].spent
    BY <1>1, <2>1 DEF View
  <2>5. Calls(p, view, t, "LOGIN", None) \/ Calls(p, view, t, "LOGOUT", stored)
    BY <1>1, <1>12, <2>2, <2>4 DEF StartSignIn, StartSignOut, Calls, SessionTypes
  <2>. QED
    BY <2>4, <2>5
<1>. QED
  BY <1>3, <1>4, <1>5, <1>6, <1>7, <1>8, <1>9, <1>10, <1>11, <1>12 DEF Browser

LEMMA SessionInductive ==
  /\ SessionsInit => SessionInv
  /\ SessionInv /\ [SessionsNext]_sessionsVars => SessionInv'
<1>1. SessionsInit => SessionInv
  <2>. SUFFICES ASSUME SessionsInit PROVE SessionInv
    OBVIOUS
  <2>1. SessionTypes
    BY DEF SessionsInit, SessionTypes, New, Closed, Phases
  <2>. QED
    BY <2>1 DEF SessionsInit, SessionInv, Issued, OneLiveToken, Rotating, Awaited, Unspent, New, Closed
<1>2. ASSUME SessionInv, UNCHANGED sessionsVars PROVE SessionInv'
  BY <1>2 DEF sessionsVars, SessionInv, SessionTypes, Issued, OneLiveToken, LiveToken, Rotating, Awaited,
              Unknown, Unspent
<1>3. ASSUME SessionInv, SessionsNext PROVE SessionInv'
  BY <1>3, ServerKeeps, TabMoves, LearnsKeeps, CallsKeeps DEF SessionsNext
<1>. QED
  BY <1>1, <1>2, <1>3

(***************************************************************************)
(* A refresh token is single-use however many tabs and retries present it  *)
(* at once: the row that is locked before it is read ends in the           *)
(* transaction that inserts its successor, so a family never has two       *)
(* tokens that are still good (auth.service.ts:182).                       *)
(***************************************************************************)
THEOREM TokensSingleUse == SessionsSpec => []OneLiveToken
<1>1. SessionInv => OneLiveToken
  BY DEF SessionInv
<1>. QED
  BY <1>1, SessionInductive, PTL DEF SessionsSpec

(***************************************************************************)
(* A tab presents a token once between two loads: a refresh under way is   *)
(* shared, and when it is over the tab has a token it never presented, or  *)
(* none (frontend/src/lib/api.ts:15-18).                                   *)
(***************************************************************************)
THEOREM PresentedOnce == SessionsSpec => SpentOnce
<1>1. ASSUME SessionInv, SessionsNext, NEW q \in Page, tab'[q].refresh \notin {tab[q].refresh, None}
      PROVE  tab[q].memory \notin tab[q].spent
  <2>1. PICK p \in Page : Browser(p)
    BY <1>1 DEF SessionsNext, Server, CommitLogin, FindToken, CommitRotation, RefuseRotation,
                RefuseRevoked, ReachRow, CommitRevocation, CommitLogout, AbortAuth
  <2>2. ASSUME NEW view, tab' = [tab EXCEPT ![p] = view] PROVE q = p /\ tab'[q] = view
    BY <1>1, <2>2 DEF SessionInv, SessionTypes
  <2>3. ASSUME NEW view, Learns(p, view) PROVE FALSE
    BY <1>1, <2>2, <2>3 DEF Learns
  <2>4. PICK view, t, op, arg :
          /\ Calls(p, view, t, op, arg)
          /\ view.refresh # tab[p].refresh => tab[p].memory \notin tab[p].spent
    BY <1>1, <2>1, <2>3, TabMoves
  <2>. QED
    BY <1>1, <2>2, <2>4 DEF Calls
<1>2. SessionInv /\ [SessionsNext]_sessionsVars =>
        [\A p \in Page : tab'[p].refresh \notin {tab[p].refresh, None}
                           => tab[p].memory \notin tab[p].spent]_sessionsVars
  BY <1>1 DEF sessionsVars
<1>. QED
  BY <1>2, SessionInductive, PTL DEF SessionsSpec, SpentOnce

-----------------------------------------------------------------------------

\* Only a running transaction holds rows.
HoldersRun ==
  \A x \in AuthTxn : rowLock[x] # None => srv[rowLock[x]].pc \in {"ROTATING", "REVOKED", "REVOKING"}

LEMMA HoldersKeep == SessionInv /\ HoldersRun /\ [SessionsNext]_sessionsVars => HoldersRun'
<1>. SUFFICES ASSUME SessionInv, HoldersRun, [SessionsNext]_sessionsVars PROVE HoldersRun'
  OBVIOUS
<1>1. /\ rowLock \in [AuthTxn -> AuthTxn \cup {None}] /\ srv \in [AuthTxn -> SrvType]
      /\ \A t \in AuthTxn : Rotating(t)
  <2>1. SessionTypes /\ \A t \in AuthTxn : Rotating(t)
    BY DEF SessionInv
  <2>. QED
    BY <2>1 DEF SessionTypes, SrvType
<1>2. ASSUME NEW t \in AuthTxn, NEW end, Ends(t, end) PROVE HoldersRun'
  BY <1>1, <1>2 DEF Ends, HoldersRun, SrvType
<1>3. ASSUME UNCHANGED rowLock, \A t \in AuthTxn : srv[t] # New => srv'[t].pc = srv[t].pc
      PROVE  HoldersRun'
  BY <1>1, <1>3 DEF HoldersRun, New
<1>4. ASSUME NEW t \in AuthTxn, FindToken(t) PROVE HoldersRun'
  <2>1. /\ rowLock' = [rowLock EXCEPT ![srv[t].arg] = t]
        /\ srv'[t].pc \in {"ROTATING", "REVOKED", "REVOKING"}
        /\ \A u \in AuthTxn \ {t} : srv'[u] = srv[u]
    BY <1>1, <1>4 DEF FindToken, SrvType
  <2>. QED
    BY <1>1, <2>1 DEF HoldersRun
<1>5. ASSUME NEW t \in AuthTxn, NEW x \in AuthTxn, ReachRow(t, x) PROVE HoldersRun'
  <2>1. CASE LiveToken(x)
    BY <1>1, <1>5, <2>1 DEF ReachRow, HoldersRun
  <2>2. CASE ~ LiveToken(x)
    BY <1>1, <1>5, <2>2, <1>3 DEF ReachRow, SrvType
  <2>. QED
    BY <2>1, <2>2
<1>6. ASSUME NEW t \in AuthTxn, Server(t) PROVE HoldersRun'
  BY <1>2, <1>4, <1>5, <1>6 DEF Server, CommitLogin, CommitRotation, RefuseRotation,
     RefuseRevoked, CommitRevocation, CommitLogout, AbortAuth
<1>7. ASSUME NEW p \in Page, Browser(p) PROVE HoldersRun'
  <2>1. ASSUME NEW t \in AuthTxn, NEW op, NEW arg, srv[t] = New, Called(t, op, arg),
               UNCHANGED rowLock
        PROVE  HoldersRun'
    BY <1>1, <1>3, <2>1 DEF Called
  <2>2. ASSUME UNCHANGED <<rowLock, srv>> PROVE HoldersRun'
    BY <1>3, <2>2
  <2>3. ASSUME NEW t \in AuthTxn, StartRefresh(p, t) \/ StartSignIn(p, t) \/ StartSignOut(p, t)
        PROVE  HoldersRun'
    BY <2>1, <2>3 DEF StartRefresh, StartSignIn, StartSignOut
  <2>. QED
    BY <1>7, <2>2, <2>3 DEF Browser, Load, Restored, NotRestored, RefreshAnswered,
       RefreshFailed, SignInAnswered, SignInFailed, SignedOut
<1>8. CASE UNCHANGED sessionsVars
  BY <1>3, <1>8 DEF sessionsVars
<1>. QED
  BY <1>6, <1>7, <1>8 DEF SessionsNext

(***************************************************************************)
(* Every variable has its type; what is stored and remembered is a token   *)
(* that was issued; and no row of a token stays locked by a transaction    *)
(* that is over (auth.repo.ts, FOR UPDATE until COMMIT or ROLLBACK).       *)
(***************************************************************************)
THEOREM SessionsTyped == SessionsSpec => []SessionsTypeOK
<1>1. SessionsInit => HoldersRun
  BY DEF SessionsInit, HoldersRun
<1>2. SessionInv /\ HoldersRun => SessionsTypeOK
  BY DEF SessionInv, SessionTypes, Phases, HoldersRun, SessionsTypeOK
<1>. QED
  BY <1>1, <1>2, SessionInductive, HoldersKeep, PTL DEF SessionsSpec

-----------------------------------------------------------------------------
(* Client: the inductive invariant *)

Fields == {"pc", "on", "visit", "key", "form", "tries", "mayRefresh", "sent", "givenUp", "answer"}

Started(c) == call[c].pc # "UNUSED"

ClientTypes ==
  /\ minted \in Nat /\ visits \in Nat
  /\ DOMAIN page = {"is", "key", "form", "step", "waits"}
  /\ page.key \in Nat /\ page.waits \in Call \cup {NoCall}
  /\ DOMAIN call = Call /\ \A c \in Call : DOMAIN call[c] = Fields
  /\ \A c \in Call : Started(c) \/ call[c] = Unused
  /\ \A c \in Call : Started(c) => call[c].key \in 1 .. minted /\ call[c].visit \in 0 .. visits

\* What was executed under a key is what the call that brought it said.
RowsTrue ==
  \A k \in DOMAIN rows :
    /\ rows[k].by \in Call /\ Started(rows[k].by)
    /\ call[rows[k].by].key = k /\ call[rows[k].by].on = rows[k].on

\* A call that has heard or shown success is in the rows.
HeardTrue ==
  \A c \in Call : call[c].answer = "OK" \/ call[c].pc = "SHOWN" =>
    /\ Started(c)
    /\ call[c].key \in DOMAIN rows /\ rows[call[c].key].form = call[c].form

\* The call a page waits for is under way, and no success was reported under its key; on
\* SEND it is the page's key, which is new.
PageKey ==
  /\ page.waits # NoCall => /\ call[page.waits].pc = "WAITING"
                            /\ ~ Reported(call[page.waits].key)
                            /\ page.is = "SEND" => call[page.waits].key = page.key
  /\ page.is = "SEND" => page.key \in 1 .. minted /\ ~ Reported(page.key)

ShownApart ==
  \A c, d \in Call : call[c].pc = "SHOWN" /\ call[d].pc = "SHOWN" /\ c # d
                       => call[c].key # call[d].key

\* Of the keys of one visit to SEND at most one has not been reported, and it is the one
\* the page still has.
OneOpenKey ==
  \A c \in Call : Started(c) /\ call[c].on = "SEND" /\ ~ Reported(call[c].key) =>
    /\ page.is = "SEND" /\ call[c].visit = visits => call[c].key = page.key
    /\ \A d \in Call : /\ Started(d) /\ call[d].on = "SEND" /\ ~ Reported(call[d].key)
                       /\ call[d].visit = call[c].visit
                       => call[d].key = call[c].key

ClientInv ==
  ClientTypes /\ RowsTrue /\ HeardTrue /\ PageKey /\ ShownApart /\ OneOpenKey

-----------------------------------------------------------------------------
(* Client: steps that report nothing *)

\* The page that is mounted, or none.
PageStays ==
  /\ DOMAIN page' = DOMAIN page /\ page'.key \in Nat
  /\ page'.is \in {page.is, "NONE"} /\ page'.waits \in {page.waits, NoCall}
  /\ page'.is = "SEND" => page'.key = page.key

\* What a call is about is settled when it starts.
Quiet(d) ==
  /\ DOMAIN call'[d] = Fields
  /\ ~ Started(d) => call'[d] = call[d]
  /\ Started(d) =>
       /\ call'[d].pc # "UNUSED"
       /\ call'[d].key = call[d].key /\ call'[d].form = call[d].form
       /\ call'[d].on = call[d].on /\ call'[d].visit = call[d].visit
  /\ call'[d].pc = "SHOWN" <=> call[d].pc = "SHOWN"
  /\ page'.waits = d => call'[d].pc = call[d].pc
  /\ call'[d].answer = "OK" =>
       \/ call[d].answer = "OK"
       \/ Started(d) /\ call[d].key \in DOMAIN rows' /\ rows'[call[d].key].form = call[d].form

\* A key executes once.
Grows == rows' = rows \/ \E c \in Call : Started(c) /\ Executes(c) /\ Execute(c)

LEMMA RowsStand ==
  ASSUME Grows
  PROVE  /\ \A k \in DOMAIN rows : k \in DOMAIN rows' /\ rows'[k] = rows[k]
         /\ \A k \in (DOMAIN rows') \ (DOMAIN rows) : \E c \in Call :
              /\ Started(c) /\ k = call[c].key
              /\ rows'[k].by = c /\ rows'[k].on = call[c].on /\ rows'[k].form = call[c].form
<1>1. CASE rows' = rows
  BY <1>1
<1>2. ASSUME NEW c \in Call, Started(c), Executes(c), Execute(c)
      PROVE  /\ \A k \in DOMAIN rows : k \in DOMAIN rows' /\ rows'[k] = rows[k]
             /\ \A k \in (DOMAIN rows') \ (DOMAIN rows) :
                  /\ Started(c) /\ k = call[c].key
                  /\ rows'[k].by = c /\ rows'[k].on = call[c].on /\ rows'[k].form = call[c].form
  <2>1. /\ DOMAIN rows' = DOMAIN rows \cup {call[c].key} /\ call[c].key \notin DOMAIN rows
        /\ rows'[call[c].key] = [form |-> call[c].form, on |-> call[c].on, by |-> c]
        /\ \A k \in DOMAIN rows : rows'[k] = rows[k]
    BY <1>2 DEF Executes, Execute
  <2>. QED
    BY <1>2, <2>1
<1>. QED
  BY <1>1, <1>2 DEF Grows

LEMMA QuietKeeps ==
  ASSUME ClientInv, PageStays, UNCHANGED <<minted, visits>>, Grows,
         DOMAIN call' = Call, \A d \in Call : Quiet(d)
  PROVE  ClientInv'
<1>1. \A d \in Call : (Started(d) <=> Started(d)')
  BY DEF Quiet, Started
<1>2. \A d \in Call : call'[d].key = call[d].key /\ call'[d].form = call[d].form
                      /\ call'[d].on = call[d].on /\ call'[d].visit = call[d].visit
  BY DEF Quiet
<1>3. \A k : Reported(k)' <=> Reported(k)
  BY <1>2 DEF Reported, Quiet
<1>4. ClientTypes'
  BY <1>1, <1>2 DEF ClientInv, ClientTypes, PageStays, Quiet
<1>5. RowsTrue'
  <2>. SUFFICES ASSUME NEW k \in DOMAIN rows'
                PROVE  /\ rows'[k].by \in Call /\ call'[rows'[k].by].pc # "UNUSED"
                       /\ call'[rows'[k].by].key = k /\ call'[rows'[k].by].on = rows'[k].on
    BY DEF RowsTrue, Started
  <2>1. CASE k \in DOMAIN rows
    BY <1>1, <1>2, <2>1, RowsStand DEF ClientInv, RowsTrue, Started
  <2>2. CASE k \notin DOMAIN rows
    BY <1>1, <1>2, <2>2, RowsStand DEF Started
  <2>. QED
    BY <2>1, <2>2
<1>6. HeardTrue'
  <2>. SUFFICES ASSUME NEW d \in Call, call'[d].answer = "OK" \/ call'[d].pc = "SHOWN"
                PROVE  /\ Started(d) /\ call[d].key \in DOMAIN rows'
                       /\ rows'[call[d].key].form = call[d].form
    BY <1>1, <1>2 DEF HeardTrue
  <2>1. CASE call[d].answer = "OK" \/ call[d].pc = "SHOWN"
    BY <2>1, RowsStand DEF ClientInv, HeardTrue
  <2>2. CASE ~ (call[d].answer = "OK" \/ call[d].pc = "SHOWN")
    BY <2>2 DEF Quiet
  <2>. QED
    BY <2>1, <2>2
<1>7. PageKey'
  <2>1. page'.waits # NoCall => page'.waits \in Call /\ page'.waits = page.waits
    BY DEF PageStays, ClientInv, ClientTypes
  <2>2. page'.is = "SEND" => page.is = "SEND" /\ page'.key = page.key
    BY DEF PageStays
  <2>. QED
    BY <1>2, <1>3, <2>1, <2>2 DEF ClientInv, PageKey, Quiet
<1>8. ShownApart'
  BY <1>2 DEF ClientInv, ShownApart, Quiet
<1>9. OneOpenKey'
  <2>2. page'.is = "SEND" => page.is = "SEND" /\ page'.key = page.key
    BY DEF PageStays
  <2>. QED
    BY <1>1, <1>2, <1>3, <2>2 DEF ClientInv, OneOpenKey
<1>. QED
  BY <1>4, <1>5, <1>6, <1>7, <1>8, <1>9 DEF ClientInv

\* One call goes on, about what it was about.
GoesOn(c, outcome, answer) ==
  /\ DOMAIN call' = Call /\ \A d \in Call \ {c} : call'[d] = call[d]
  /\ DOMAIN call'[c] = Fields
  /\ call'[c].pc = outcome /\ call'[c].answer = answer
  /\ call'[c].key = call[c].key /\ call'[c].form = call[c].form
  /\ call'[c].on = call[c].on /\ call'[c].visit = call[c].visit

LEMMA ApiSteps ==
  ASSUME ClientTypes, NEW c \in Call
  PROVE  /\ \A o : CallEnds(c, o) => GoesOn(c, o, "NONE")
         /\ Retry(c) \/ Reauthorise(c) => GoesOn(c, "WAITING", "NONE")
         /\ \A a : Serve(c, a) => GoesOn(c, "WAITING", a)
<1>1. DOMAIN call = Call /\ DOMAIN call[c] = Fields
  BY DEF ClientTypes
<1>2. ASSUME NEW o, CallEnds(c, o) PROVE GoesOn(c, o, "NONE")
  <2>1. PICK x : x = GivenUp(call[c])
    OBVIOUS
  <2>2. /\ DOMAIN x = Fields /\ x.answer = "NONE" /\ x.key = call[c].key
        /\ x.form = call[c].form /\ x.on = call[c].on /\ x.visit = call[c].visit
    BY <1>1, <2>1 DEF GivenUp, Fields
  <2>3. PICK y : y = [x EXCEPT !.pc = o, !.tries = 0, !.mayRefresh = FALSE]
    OBVIOUS
  <2>4. /\ DOMAIN y = Fields /\ y.pc = o /\ y.answer = "NONE" /\ y.key = call[c].key
        /\ y.form = call[c].form /\ y.on = call[c].on /\ y.visit = call[c].visit
    BY <2>2, <2>3 DEF Fields
  <2>5. call' = [call EXCEPT ![c] = y]
    BY <1>2, <2>1, <2>3, Zenon DEF CallEnds
  <2>6. DOMAIN call' = Call /\ call'[c] = y /\ \A d \in Call \ {c} : call'[d] = call[d]
    BY <1>1, <2>5
  <2>. QED
    BY <2>4, <2>6 DEF GoesOn
<1>3. ASSUME Retry(c) \/ Reauthorise(c) PROVE GoesOn(c, "WAITING", "NONE")
  <2>1. PICK x : x = GivenUp(call[c])
    OBVIOUS
  <2>2. /\ DOMAIN x = Fields /\ x.answer = "NONE" /\ x.key = call[c].key
        /\ x.form = call[c].form /\ x.on = call[c].on /\ x.visit = call[c].visit
    BY <1>1, <2>1 DEF GivenUp, Fields
  <2>3. PICK y : /\ call' = [call EXCEPT ![c] = y]
                 /\ \E allow : y = Fetch(x, allow) \/ y = [Fetch(x, allow) EXCEPT !.tries = 2]
    BY <1>3, <2>1, Zenon DEF Retry, Reauthorise, Resent
  <2>4. /\ DOMAIN y = Fields /\ y.pc = "WAITING" /\ y.answer = "NONE" /\ y.key = call[c].key
        /\ y.form = call[c].form /\ y.on = call[c].on /\ y.visit = call[c].visit
    BY <2>2, <2>3 DEF Fetch, Fields
  <2>6. DOMAIN call' = Call /\ call'[c] = y /\ \A d \in Call \ {c} : call'[d] = call[d]
    BY <1>1, <2>3
  <2>. QED
    BY <2>4, <2>6 DEF GoesOn
<1>4. ASSUME NEW a, Serve(c, a) PROVE GoesOn(c, "WAITING", a)
  BY <1>1, <1>4 DEF Serve, GoesOn, Fields
<1>. QED
  BY <1>2, <1>3, <1>4

\* A step of a call that is under way and reports no success.
LEMMA GoesOnKeeps ==
  ASSUME ClientInv, NEW c \in Call, call[c].pc = "WAITING",
         NEW outcome \in {"WAITING", "FAILED", "UNSEEN"}, NEW answer, GoesOn(c, outcome, answer),
         PageStays, outcome # "WAITING" => page'.waits # c,
         UNCHANGED <<minted, visits>>, Grows,
         answer = "OK" => call[c].key \in DOMAIN rows' /\ rows'[call[c].key].form = call[c].form
  PROVE  ClientInv'
<1>1. Started(c)
  BY DEF Started
<1>2. ASSUME NEW d \in Call PROVE Quiet(d)
  <2>1. CASE d = c
    BY <1>1, <2>1 DEF GoesOn, Quiet
  <2>2. CASE d # c
    BY <2>2 DEF GoesOn, Quiet, Started, ClientInv, ClientTypes
  <2>. QED
    BY <2>1, <2>2
<1>. QED
  BY <1>2, QuietKeeps DEF GoesOn

LEMMA PageMovesKeep ==
  ASSUME ClientInv, PageStays, UNCHANGED <<call, minted, visits, rows>>
  PROVE  ClientInv'
<1>1. \A d \in Call : Quiet(d)
  BY DEF Quiet, Started, ClientInv, ClientTypes
<1>. QED
  BY <1>1, QuietKeeps DEF Grows, ClientInv, ClientTypes

\* Nothing the server refuses with reads as success.
LEMMA ServerAnswers ==
  ASSUME NEW c \in Call, Serve(c, "OK")
  PROVE  call[c].key \in DOMAIN rows' /\ rows'[call[c].key].form = call[c].form
<1>1. ASSUME NEW failures PROVE "OK" \notin Outcomes(failures)
  BY DEF Outcomes, Outcome
<1>2. CASE "OK" \in Done(c) /\ UNCHANGED rows
  BY <1>2 DEF Done, Replays
<1>3. CASE "OK" \in AfterCommit(c) /\ Execute(c)
  BY <1>3 DEF Execute
<1>. QED
  BY <1>1, <1>2, <1>3 DEF Serve, RolledBack

-----------------------------------------------------------------------------
(* Client: each step *)

LEMMA MovesKeep ==
  ASSUME ClientInv,
         \/ \E d \in Details \cup {Incomplete} : Edit(d)
         \/ Review \/ CancelPin \/ Confirm \/ Undo \/ Refreshed
  PROVE  ClientInv'
<1>1. UNCHANGED <<call, minted, visits, rows>>
  BY DEF Edit, Review, CancelPin, Confirm, Undo, Moves, Refreshed
<1>2. \E d : page' = [page EXCEPT !.form = d] \/ page' = [page EXCEPT !.step = d]
  BY DEF Edit, Review, CancelPin, Confirm, Undo, Moves, Refreshed
<1>3. PageStays
  BY <1>2 DEF PageStays, ClientInv, ClientTypes
<1>. QED
  BY <1>1, <1>3, PageMovesKeep

LEMMA OpenKeeps ==
  ASSUME ClientInv, NEW p \in PageKind, Open(p)
  PROVE  ClientInv'
<1>1. /\ minted \in Nat /\ visits \in Nat /\ visits' = visits + 1 /\ UNCHANGED <<call, rows>>
      /\ DOMAIN call = Call
      /\ \A c \in Call : Started(c) => call[c].key \in 1 .. minted /\ call[c].visit \in 0 .. visits
  BY DEF ClientInv, ClientTypes, Open
<1>2. PICK key, m :
        /\ page' = [NoPage EXCEPT !.is = p, !.key = key] /\ minted' = m
        /\ key \in Nat /\ m \in {minted, minted + 1}
        /\ p = "SEND" => key = minted + 1 /\ m = minted + 1
  <2>1. PICK key : key = IF p = "SEND" THEN minted + 1 ELSE 0
    OBVIOUS
  <2>2. PICK m : m = minted + IF p = "SEND" THEN 1 ELSE 0
    OBVIOUS
  <2>3. page' = [NoPage EXCEPT !.is = p, !.key = key] /\ minted' = m
    BY <2>1, <2>2 DEF Open
  <2>4. /\ key \in Nat /\ m \in {minted, minted + 1}
        /\ p = "SEND" => key = minted + 1 /\ m = minted + 1
    BY <1>1, <2>1, <2>2
  <2>. QED
    BY <2>3, <2>4
<1>3. /\ DOMAIN page' = {"is", "key", "form", "step", "waits"}
      /\ page'.is = p /\ page'.key = key /\ page'.waits = NoCall
  BY <1>2 DEF NoPage
<1>4. /\ \A c \in Call : (Started(c)' <=> Started(c))
      /\ \A k : Reported(k)' <=> Reported(k)
  BY <1>1 DEF Started, Reported
<1>5. \A c \in Call : Started(c) =>
        /\ call[c].key \in 1 .. m /\ call[c].key # minted + 1
        /\ call[c].visit \in 0 .. (visits + 1) /\ call[c].visit # visits + 1
  <2>1. \A k \in 1 .. minted : k \in 1 .. m /\ k # minted + 1
    BY <1>1, <1>2
  <2>2. \A v \in 0 .. visits : v \in 0 .. (visits + 1) /\ v # visits + 1
    BY <1>1
  <2>. QED
    BY <1>1, <2>1, <2>2
<1>6. ClientTypes'
  BY <1>1, <1>2, <1>3, <1>4, <1>5 DEF ClientInv, ClientTypes
<1>7. RowsTrue' /\ HeardTrue' /\ ShownApart'
  BY <1>1, <1>4 DEF ClientInv, RowsTrue, HeardTrue, ShownApart, Started
<1>8. PageKey'
  <2>1. \A c \in Call : call[c].pc = "SHOWN" => Started(c)
    BY DEF Started
  <2>2. ~ Reported(minted + 1)
    BY <1>5, <2>1 DEF Reported
  <2>. QED
    BY <1>1, <1>2, <1>3, <1>4, <2>2 DEF PageKey
<1>9. OneOpenKey'
  BY <1>1, <1>3, <1>4, <1>5 DEF ClientInv, OneOpenKey
<1>. QED
  BY <1>6, <1>7, <1>8, <1>9 DEF ClientInv

\* A call starts, under the key of the page or under one of its own.
LEMMA StartKeeps ==
  ASSUME ClientInv, NEW c \in Call, Elapse(c) \/ Create(c) \/ Settle(c)
  PROVE  ClientInv'
<1>1. /\ minted \in Nat /\ visits \in Nat /\ UNCHANGED <<visits, rows>> /\ c # NoCall
      /\ DOMAIN call = Call /\ ~ Started(c)
      /\ \A d \in Call : Started(d) => call[d].key \in 1 .. minted /\ call[d].visit \in 0 .. visits
  BY ClientAssumption
     DEF ClientInv, ClientTypes, Elapse, Create, Settle, Click, Start, Started
<1>2. PICK key \in Nat, m \in Nat :
        /\ Start(c, key) /\ minted' = m /\ m \in {minted, minted + 1} /\ key \in 1 .. m
        /\ ~ Reported(key)
        /\ page.is = "SEND" => key = page.key /\ m = minted
        /\ page.is # "SEND" => page.is \in {"CREATE", "SETTLE"}
  <2>1. CASE Elapse(c)
    <3>1. page.key \in 1 .. minted /\ ~ Reported(page.key) /\ minted' = minted
      BY <1>1, <2>1 DEF Elapse, SendKey, ClientInv, PageKey
    <3>. QED
      BY <1>1, <2>1, <3>1 DEF Elapse, SendKey
  <2>2. CASE Create(c) \/ Settle(c)
    <3>1. ~ Reported(minted + 1)
      BY <1>1 DEF Reported, Started
    <3>. QED
      BY <1>1, <2>2, <3>1 DEF Create, Settle, Click
  <2>. QED
    BY <2>1, <2>2
<1>3. /\ DOMAIN page' = {"is", "key", "form", "step", "waits"}
      /\ page'.is = page.is /\ page'.key = page.key /\ page'.waits = c
  <2>1. page' = [page EXCEPT !.step = "SENDING", !.waits = c]
    BY DEF Elapse, Create, Settle, Click
  <2>. QED
    BY <2>1 DEF ClientInv, ClientTypes
<1>4. /\ DOMAIN call' = Call /\ \A d \in Call \ {c} : call'[d] = call[d]
      /\ DOMAIN call'[c] = Fields /\ call'[c].pc = "WAITING" /\ call'[c].answer = "NONE"
      /\ call'[c].on = page.is /\ call'[c].visit = visits /\ call'[c].key = key
  <2>1. PICK x : x = Fetch([Unused EXCEPT !.on = page.is, !.visit = visits, !.key = key,
                                         !.form = page.form, !.tries = 1], TRUE)
    OBVIOUS
  <2>2. /\ DOMAIN x = Fields /\ x.pc = "WAITING" /\ x.answer = "NONE"
        /\ x.on = page.is /\ x.visit = visits /\ x.key = key
    BY <2>1 DEF Fetch, Unused, Fields
  <2>3. call' = [call EXCEPT ![c] = x]
    BY <1>2, <2>1 DEF Start
  <2>. QED
    BY <1>1, <2>2, <2>3
<1>5. /\ \A d \in Call : Started(d)' <=> Started(d) \/ d = c
      /\ \A k : Reported(k)' <=> Reported(k)
  BY <1>1, <1>4 DEF Started, Reported
<1>6. ClientTypes'
  <2>1. \A d \in Call : Started(d) => call[d].key \in 1 .. m
    BY <1>1, <1>2
  <2>2. visits \in 0 .. visits
    BY <1>1
  <2>3. DOMAIN call' = Call /\ \A d \in Call : DOMAIN call'[d] = Fields
    BY <1>1, <1>4 DEF ClientInv, ClientTypes
  <2>4. \A d \in Call : Started(d)' \/ call'[d] = Unused
    BY <1>1, <1>4, <1>5 DEF ClientInv, ClientTypes
  <2>5. \A d \in Call : Started(d)' => call'[d].key \in 1 .. m /\ call'[d].visit \in 0 .. visits
    BY <1>1, <1>2, <1>4, <1>5, <2>1, <2>2
  <2>6. page'.key \in Nat /\ page'.waits \in Call \cup {NoCall}
    BY <1>3 DEF ClientInv, ClientTypes
  <2>. QED
    BY <1>1, <1>2, <1>3, <2>3, <2>4, <2>5, <2>6 DEF ClientTypes
<1>7. RowsTrue' /\ HeardTrue'
  <2>1. \A d \in Call : Started(d) => call'[d] = call[d]
    BY <1>1, <1>4
  <2>2. RowsTrue'
    BY <1>1, <1>5, <2>1 DEF ClientInv, RowsTrue, Started
  <2>3. HeardTrue'
    BY <1>1, <1>4, <1>5 DEF ClientInv, HeardTrue
  <2>. QED
    BY <2>2, <2>3
<1>8. PageKey'
  <2>1. page'.is = "SEND" => page'.key \in 1 .. m /\ ~ Reported(page'.key)
    BY <1>2, <1>3
  <2>. QED
    BY <1>1, <1>2, <1>3, <1>4, <1>5, <2>1 DEF PageKey
<1>9. ShownApart'
  BY <1>4 DEF ClientInv, ShownApart
<1>10. OneOpenKey'
  <2>. SUFFICES ASSUME NEW d \in Call, Started(d)', call'[d].on = "SEND", ~ Reported(call'[d].key),
                       NEW e \in Call, Started(e)', call'[e].on = "SEND", ~ Reported(call'[e].key),
                       call'[e].visit = call'[d].visit
                PROVE  /\ page.is = "SEND" /\ call'[d].visit = visits => call'[d].key = page.key
                       /\ call'[e].key = call'[d].key
    BY <1>1, <1>3, <1>5 DEF OneOpenKey
  <2>1. \A f \in {d, e} \ {c} : Started(f) /\ call'[f] = call[f]
    BY <1>4, <1>5
  <2>2. c \in {d, e} => page.is = "SEND" /\ key = page.key
    BY <1>2, <1>4
  <2>. QED
    BY <1>1, <1>4, <2>1, <2>2 DEF ClientInv, OneOpenKey
<1>. QED
  BY <1>6, <1>7, <1>8, <1>9, <1>10 DEF ClientInv

\* A success that is shown: the page's key is spent, and SEND takes a new one.
LEMMA ShownKeeps ==
  ASSUME ClientInv, NEW c \in Call, Succeed(c), Mounted(c)
  PROVE  ClientInv'
<1>1. /\ minted \in Nat /\ visits \in Nat /\ UNCHANGED <<visits, rows>>
      /\ call[c].pc = "WAITING" /\ call[c].answer = "OK" /\ page.waits = c /\ c # NoCall
      /\ Started(c)
      /\ \A d \in Call : Started(d) => call[d].key \in 1 .. minted /\ call[d].visit \in 0 .. visits
  BY ClientAssumption DEF ClientInv, ClientTypes, Succeed, Mounted, Started
<1>2. GoesOn(c, "SHOWN", "NONE")
  BY ApiSteps DEF ClientInv, Succeed
<1>3. PICK key \in Nat, m \in Nat :
        /\ minted' = m /\ m \in {minted, minted + 1}
        /\ page' = [page EXCEPT !.step = "REFRESHING", !.form = Incomplete, !.waits = NoCall,
                                !.key = key]
        /\ page.is = "SEND" => key = minted + 1 /\ m = minted + 1
        /\ page.is # "SEND" => key = page.key
  <2>1. page.key \in Nat /\ Renewed
    BY DEF ClientInv, ClientTypes, Succeed
  <2>2. PICK key : key = IF page.is = "SEND" THEN minted + 1 ELSE page.key
    OBVIOUS
  <2>3. PICK m : m = minted + IF page.is = "SEND" THEN 1 ELSE 0
    OBVIOUS
  <2>4. /\ page' = [page EXCEPT !.step = "REFRESHING", !.form = Incomplete, !.waits = NoCall,
                                !.key = key]
        /\ minted' = m
    BY <2>1, <2>2, <2>3 DEF Renewed
  <2>5. /\ key \in Nat /\ m \in Nat /\ m \in {minted, minted + 1}
        /\ page.is = "SEND" => key = minted + 1 /\ m = minted + 1
        /\ page.is # "SEND" => key = page.key
    BY <1>1, <2>1, <2>2, <2>3
  <2>. QED
    BY <2>4, <2>5
<1>4. /\ DOMAIN page' = {"is", "key", "form", "step", "waits"}
      /\ page'.is = page.is /\ page'.key = key /\ page'.waits = NoCall
  BY <1>3 DEF ClientInv, ClientTypes
<1>5. \A d \in Call : /\ (Started(d)' <=> Started(d))
                      /\ call'[d].key = call[d].key /\ call'[d].form = call[d].form
                      /\ call'[d].on = call[d].on /\ call'[d].visit = call[d].visit
  BY <1>1, <1>2 DEF GoesOn, Started
<1>6. /\ \A k : Reported(k)' <=> Reported(k) \/ k = call[c].key
      /\ ~ Reported(call[c].key)
      /\ page.is = "SEND" => call[c].key = page.key
  BY <1>1, <1>2 DEF ClientInv, PageKey, GoesOn, Reported
<1>7. ClientTypes'
  <2>1. \A d \in Call : Started(d) => call[d].key \in 1 .. m
    BY <1>1, <1>3
  <2>2. DOMAIN call' = Call /\ \A d \in Call : DOMAIN call'[d] = Fields
    BY <1>2 DEF GoesOn, ClientInv, ClientTypes
  <2>3. \A d \in Call : Started(d)' \/ call'[d] = Unused
    BY <1>1, <1>2, <1>5 DEF GoesOn, ClientInv, ClientTypes
  <2>. QED
    BY <1>1, <1>3, <1>4, <1>5, <2>1, <2>2, <2>3 DEF ClientTypes
<1>8. RowsTrue' /\ HeardTrue'
  <2>1. RowsTrue'
    BY <1>1, <1>5 DEF ClientInv, RowsTrue, Started
  <2>2. HeardTrue'
    BY <1>1, <1>2, <1>5 DEF ClientInv, HeardTrue, GoesOn
  <2>. QED
    BY <2>1, <2>2
<1>9. PageKey'
  <2>1. page.is = "SEND" => key \in 1 .. m /\ ~ Reported(key) /\ key # call[c].key
    BY <1>1, <1>3 DEF Reported, Started
  <2>. QED
    BY <1>3, <1>4, <1>6, <2>1 DEF PageKey
<1>10. ShownApart'
  <2>1. \A d \in Call \ {c} : call[d].pc = "SHOWN" => call[d].key # call[c].key
    BY <1>6 DEF Reported
  <2>. QED
    BY <1>2, <1>5, <2>1 DEF ClientInv, ShownApart, GoesOn
<1>11. OneOpenKey'
  <2>. SUFFICES ASSUME NEW d \in Call, Started(d), call[d].on = "SEND",
                       ~ Reported(call[d].key), call[d].key # call[c].key,
                       NEW e \in Call, Started(e), call[e].on = "SEND",
                       ~ Reported(call[e].key), call[e].visit = call[d].visit
                PROVE  /\ ~ (page.is = "SEND" /\ call[d].visit = visits)
                       /\ call[e].key = call[d].key
    BY <1>1, <1>4, <1>5, <1>6 DEF OneOpenKey
  <2>. QED
    BY <1>6 DEF ClientInv, OneOpenKey
<1>. QED
  BY <1>7, <1>8, <1>9, <1>10, <1>11 DEF ClientInv

LEMMA AnsweredKeeps ==
  ASSUME ClientInv, NEW c \in Call, Answers(c)
  PROVE  ClientInv'
<1>1. /\ ClientTypes /\ call[c].pc = "WAITING" /\ UNCHANGED <<visits, rows>> /\ Grows
      /\ c # NoCall
  BY ClientAssumption
     DEF ClientInv, Answers, Succeed, Refused, Retry, GiveUp, Reauthorise, LoseSession, Grows
<1>2. CASE Succeed(c) /\ Mounted(c)
  BY <1>2, ShownKeeps
<1>3. CASE Succeed(c) /\ ~ Mounted(c)
  <2>1. GoesOn(c, "UNSEEN", "NONE") /\ UNCHANGED <<page, minted>>
    BY <1>1, <1>3, ApiSteps DEF Succeed
  <2>2. PageStays /\ page'.waits # c
    BY <1>1, <1>3, <2>1 DEF PageStays, ClientTypes, Mounted
  <2>. QED
    BY <1>1, <2>1, <2>2, GoesOnKeeps
<1>4. CASE Refused(c) \/ GiveUp(c)
  <2>1. GoesOn(c, "FAILED", "NONE") /\ UNCHANGED minted
    BY <1>1, <1>4, ApiSteps DEF Refused, GiveUp, Fails
  <2>2. \/ page.waits # c /\ page' = page
        \/ \E form : page' = [page EXCEPT !.step = "EDITING", !.waits = NoCall, !.form = form]
    BY <1>4 DEF Refused, GiveUp, Fails, Mounted
  <2>3. PageStays /\ page'.waits # c
    BY <1>1, <2>2 DEF PageStays, ClientTypes
  <2>. QED
    BY <1>1, <2>1, <2>3, GoesOnKeeps
<1>5. CASE Retry(c) \/ Reauthorise(c)
  <2>1. GoesOn(c, "WAITING", "NONE") /\ UNCHANGED <<page, minted>>
    BY <1>1, <1>5, ApiSteps DEF Retry, Reauthorise
  <2>2. PageStays
    BY <1>1, <2>1 DEF PageStays, ClientTypes
  <2>. QED
    BY <1>1, <2>1, <2>2, GoesOnKeeps
<1>6. CASE LoseSession(c)
  <2>1. GoesOn(c, "FAILED", "NONE") /\ page' = NoPage /\ UNCHANGED minted
    BY <1>1, <1>6, ApiSteps DEF LoseSession
  <2>2. PageStays /\ page'.waits # c
    BY <1>1, <2>1 DEF PageStays, ClientTypes, NoPage
  <2>. QED
    BY <1>1, <2>1, <2>2, GoesOnKeeps
<1>. QED
  BY <1>2, <1>3, <1>4, <1>5, <1>6 DEF Answers

LEMMA ServeKeeps ==
  ASSUME ClientInv, NEW c \in Call,
         ServeLate(c) \/ \E answer \in {"OK", "REFUSED", "UNAVAILABLE", "EXPIRED"} : Serve(c, answer)
  PROVE  ClientInv'
<1>1. ClientTypes
  BY DEF ClientInv
<1>2. CASE ServeLate(c)
  <2>1. Started(c)
    BY <1>1, <1>2 DEF ServeLate, ClientTypes, Unused
  <2>2. Grows /\ UNCHANGED <<page, call, minted, visits>>
    BY <1>2, <2>1 DEF ServeLate, Grows
  <2>3. PageStays /\ DOMAIN call' = Call
    BY <1>1, <2>2 DEF PageStays, ClientTypes
  <2>4. \A d \in Call : Quiet(d)
    BY <1>1, <2>2 DEF Quiet, Started, ClientTypes
  <2>. QED
    BY <2>2, <2>3, <2>4, QuietKeeps
<1>3. ASSUME NEW answer, Serve(c, answer) PROVE ClientInv'
  <2>1. GoesOn(c, "WAITING", answer)
    BY <1>1, <1>3, ApiSteps
  <2>2. /\ UNCHANGED <<page, minted, visits>> /\ call[c].pc = "WAITING"
        /\ rows' = rows \/ (answer \in AfterCommit(c) /\ Execute(c))
    BY <1>3 DEF Serve
  <2>3. Grows
    <3>1. answer \in AfterCommit(c) => Executes(c)
      BY DEF AfterCommit
    <3>. QED
      BY <2>2, <3>1 DEF Grows, Started
  <2>4. PageStays
    BY <1>1, <2>2 DEF PageStays, ClientTypes
  <2>5. answer = "OK" => call[c].key \in DOMAIN rows' /\ rows'[call[c].key].form = call[c].form
    BY <1>3, ServerAnswers
  <2>. QED
    BY <2>1, <2>2, <2>3, <2>4, <2>5, GoesOnKeeps
<1>. QED
  BY <1>2, <1>3

LEMMA ClientInductive ==
  /\ ClientInit => ClientInv
  /\ ClientInv /\ [ClientNext]_clientVars => ClientInv'
<1>1. ASSUME ClientInit PROVE ClientInv
  <2>1. \A c \in Call : call[c] = Unused /\ ~ Started(c) /\ call[c].pc # "SHOWN"
                        /\ call[c].answer # "OK" /\ DOMAIN call[c] = Fields
    BY <1>1 DEF ClientInit, Started, Unused, Fields
  <2>2. ClientTypes
    BY <1>1, <2>1 DEF ClientInit, ClientTypes, NoPage
  <2>. QED
    BY <1>1, <2>1, <2>2 DEF ClientInit, ClientInv, RowsTrue, HeardTrue, PageKey, ShownApart,
                             OneOpenKey, NoPage
<1>2. ASSUME ClientInv, UNCHANGED clientVars PROVE ClientInv'
  <2>1. UNCHANGED <<call, minted, visits, rows>> /\ PageStays
    BY <1>2 DEF clientVars, PageStays, ClientInv, ClientTypes
  <2>. QED
    BY <1>2, <2>1, PageMovesKeep
<1>3. ASSUME ClientInv, ClientNext PROVE ClientInv'
  BY <1>3, OpenKeeps, MovesKeep, StartKeeps, AnsweredKeeps, ServeKeeps DEF ClientNext
<1>. QED
  BY <1>1, <1>2, <1>3

LEMMA AtMostOne ==
  ASSUME NEW S, \A x, y \in S : x = y
  PROVE  Cardinality(S) <= 1
<1>1. CASE S = {}
  BY <1>1, FS_EmptySet
<1>2. CASE S # {}
  <2>1. PICK x : x \in S
    BY <1>2
  <2>2. S = {x}
    BY <2>1
  <2>3. Cardinality({x}) = 1
    BY FS_Singleton
  <2>. QED
    BY <2>2, <2>3
<1>. QED
  BY <1>1, <1>2

(***************************************************************************)
(* Of the payments sent from one SEND page at most one has gone through    *)
(* without the user being told, and no click makes two movements, whatever *)
(* is lost, retried, reauthorised or sent again by hand (Send.tsx:45-47,   *)
(* api.ts:163).                                                            *)
(***************************************************************************)
THEOREM PaidOnceUnlessTold == ClientSpec => []NeverPaidTwiceUnknowingly
<1>1. ASSUME ClientInv PROVE NeverPaidTwiceUnknowingly
  <2>1. ASSUME NEW v \in 1 .. visits PROVE Cardinality(Unreported(v)) <= 1
    <3>1. ASSUME NEW k \in Unreported(v)
          PROVE  /\ k \in DOMAIN rows /\ rows[k].by \in Call /\ Started(rows[k].by)
                 /\ call[rows[k].by].key = k /\ call[rows[k].by].on = "SEND"
                 /\ call[rows[k].by].visit = v /\ ~ Reported(k)
      BY <1>1 DEF Unreported, ClientInv, RowsTrue
    <3>2. \A k, l \in Unreported(v) : k = l
      BY <1>1, <3>1 DEF ClientInv, OneOpenKey
    <3>. QED
      BY <3>2, AtMostOne
  <2>2. ASSUME NEW c \in Call PROVE Cardinality({k \in DOMAIN rows : rows[k].by = c}) <= 1
    <3>1. \A k, l \in {k \in DOMAIN rows : rows[k].by = c} : k = l
      BY <1>1 DEF ClientInv, RowsTrue
    <3>. QED
      BY <3>1, AtMostOne
  <2>. QED
    BY <2>1, <2>2 DEF NeverPaidTwiceUnknowingly
<1>. QED
  BY <1>1, ClientInductive, PTL DEF ClientSpec

(***************************************************************************)
(* Every success a page reports is a payment of its own, made with the     *)
(* details that were sent: the key is replaced as soon as a payment under  *)
(* it has been shown (Send.tsx:82).                                        *)
(***************************************************************************)
THEOREM SuccessesAreNew == ClientSpec => []EachSuccessIsNew
<1>1. ClientInv => EachSuccessIsNew
  BY DEF ClientInv, HeardTrue, ShownApart, EachSuccessIsNew
<1>. QED
  BY <1>1, ClientInductive, PTL DEF ClientSpec
=============================================================================
