------------------------------ MODULE Sessions ------------------------------
(***************************************************************************)
(* The sessions of one user in one browser: refresh tokens that rotate in  *)
(* the database, and the tabs that hold them.  A refresh token is named by *)
(* the transaction that created it, its family by the transaction of the   *)
(* login.  A tab has its own memory; localStorage is shared by all of them.*)
(* A call may fail at any moment from the tab's point of view, whatever    *)
(* becomes of its transaction.                                             *)
(***************************************************************************)
EXTENDS Integers, FiniteSets

CONSTANTS
  AuthTxn,      \* transactions of the auth service
  Page,         \* tabs
  None          \* no token, no transaction, nobody

ASSUME SessionsAssumption == None \notin AuthTxn

VARIABLES
  tokens,       \* refresh_tokens, as committed
  rowLock,      \* the transaction that holds the row of a token
  srv,          \* the transactions
  stored,       \* localStorage['takaflow.refresh']
  tab           \* the tabs

sessionsVars == <<tokens, rowLock, srv, stored, tab>>

TokenRow == [family : AuthTxn, live : BOOLEAN, replacedBy : AuthTxn \cup {None}]
LiveToken(x) == tokens[x].live

New == [op |-> "NONE", pc |-> "NEW", arg |-> None, left |-> {}]

Closed == [page |-> "OUT", memory |-> None, refresh |-> None, call |-> None, spent |-> {}]

SessionsInit ==
  /\ tokens = [x \in {} |-> None]
  /\ rowLock = [x \in AuthTxn |-> None]
  /\ srv = [t \in AuthTxn |-> New]
  /\ stored = None
  /\ tab = [p \in Page |-> Closed]

-----------------------------------------------------------------------------
(* The server *)

Called(t, op, arg) ==
  srv' = [srv EXCEPT ![t] = [New EXCEPT !.op = op, !.pc = "CALLED", !.arg = arg]]

Ends(t, pc) ==
  /\ srv' = [srv EXCEPT ![t].pc = pc, ![t].left = {}]
  /\ rowLock' = [x \in AuthTxn |-> IF rowLock[x] = t THEN None ELSE rowLock[x]]

(* insertRefreshToken, in a family that is new or the one rotated. *)
InsertRefreshToken(t, family) ==
  [x \in {t} |-> [family |-> family, live |-> TRUE, replacedBy |-> None]]

Plus(f, g) == [x \in DOMAIN f \cup DOMAIN g |-> IF x \in DOMAIN g THEN g[x] ELSE f[x]]

(* A session: the rows there are, and the token it goes on with. *)
IssueSession(rows, t, family) == Plus(rows, InsertRefreshToken(t, family))

(* login and register: a session in a family of its own. *)
CommitLogin(t) ==
  /\ srv[t].op = "LOGIN" /\ srv[t].pc = "CALLED"
  /\ tokens' = IssueSession(tokens, t, t)
  /\ Ends(t, "ISSUED")
  /\ UNCHANGED <<stored, tab>>

\* Mutant: the SELECT without FOR UPDATE.
NoWait(t) == TRUE

(* findRefreshTokenByHash waits for the row ... *)
MayLock(t) == rowLock[srv[t].arg] = None

(* ... and returns it as it is once it is locked. *)
FindToken(t) ==
  /\ srv[t].op = "REFRESH" /\ srv[t].pc = "CALLED"
  /\ MayLock(t)
  /\ rowLock' = [rowLock EXCEPT ![srv[t].arg] = t]
  /\ LET found == tokens[srv[t].arg]
         family == {x \in DOMAIN tokens : tokens[x].family = found.family /\ LiveToken(x)}
     IN  srv' = [srv EXCEPT
           ![t].pc = IF found.live THEN "ROTATING"
                     ELSE IF found.replacedBy = None THEN "REVOKED" ELSE "REVOKING",
           \* the snapshot of revokeFamily's UPDATE
           ![t].left = IF ~found.live /\ found.replacedBy # None THEN family ELSE {}]
  /\ UNCHANGED <<tokens, stored, tab>>

(* The new token and the end of the old one, in one transaction. *)
Rotated(t) ==
  LET old == srv[t].arg
  IN  IssueSession([tokens EXCEPT ![old].live = FALSE, ![old].replacedBy = t],
                   t, tokens[old].family)

CommitRotation(t) ==
  /\ srv[t].pc = "ROTATING"
  /\ tokens' = Rotated(t)
  /\ Ends(t, "ISSUED")
  /\ UNCHANGED <<stored, tab>>

(* A live token that has expired, or whose user is suspended. *)
RefuseRotation(t) ==
  /\ srv[t].pc = "ROTATING"
  /\ Ends(t, "REFUSED")
  /\ UNCHANGED <<tokens, stored, tab>>

(* 'already-revoked' commits nothing. *)
RefuseRevoked(t) ==
  /\ srv[t].pc = "REVOKED"
  /\ Ends(t, "REFUSED")
  /\ UNCHANGED <<tokens, stored, tab>>

(* revokeFamily reaches one more row of its snapshot: it waits for the row *)
(* and skips it when it is no longer live.                                 *)
ReachRow(t, x) ==
  /\ srv[t].pc = "REVOKING" /\ x \in srv[t].left /\ rowLock[x] = None
  /\ IF LiveToken(x) THEN UNCHANGED srv /\ rowLock' = [rowLock EXCEPT ![x] = t]
     ELSE srv' = [srv EXCEPT ![t].left = @ \ {x}] /\ UNCHANGED rowLock
  /\ UNCHANGED <<tokens, stored, tab>>

CommitRevocation(t) ==
  /\ srv[t].pc = "REVOKING" /\ \A x \in srv[t].left : rowLock[x] = t
  /\ tokens' = [x \in DOMAIN tokens |->
                  IF x \in srv[t].left THEN [tokens[x] EXCEPT !.live = FALSE] ELSE tokens[x]]
  /\ Ends(t, "REFUSED")
  /\ UNCHANGED <<stored, tab>>

(* revokeToken: the row, if it is live. *)
RevokeToken(x) == [tokens EXCEPT ![x].live = FALSE]

(* logout is one UPDATE. *)
CommitLogout(t) ==
  /\ srv[t].op = "LOGOUT" /\ srv[t].pc = "CALLED" /\ rowLock[srv[t].arg] = None
  /\ tokens' = RevokeToken(srv[t].arg)
  /\ Ends(t, "DONE")
  /\ UNCHANGED <<stored, tab>>

(* A wrong password, a timeout, a crash, a call that never arrived. *)
AbortAuth(t) ==
  /\ srv[t].pc \in {"CALLED", "ROTATING", "REVOKED", "REVOKING"}
  /\ Ends(t, "REFUSED")
  /\ UNCHANGED <<tokens, stored, tab>>

-----------------------------------------------------------------------------
(* The tabs *)

(* Memory and localStorage change together. *)
SetSession(p, token, view) ==
  /\ stored' = token
  /\ tab' = [tab EXCEPT ![p] = [view EXCEPT !.memory = token]]

(* A tab is opened or loaded again; whatever it was waiting for is lost.   *)
Load(p) ==
  /\ tab' = [tab EXCEPT ![p] = [Closed EXCEPT
               !.memory = stored, !.page = IF stored = None THEN "OUT" ELSE "LOADING"]]
  /\ UNCHANGED <<tokens, rowLock, srv, stored>>

(* The stored session is restored, which takes a refresh since the access  *)
(* token was not kept; or the first call fails for whatever reason and it  *)
(* is dropped.                                                             *)
Restored(p) ==
  /\ tab[p].page = "LOADING" /\ tab[p].refresh = None /\ tab[p].spent # {}
  /\ tab' = [tab EXCEPT ![p].page = "IN"]
  /\ UNCHANGED <<tokens, rowLock, srv, stored>>

NotRestored(p) ==
  /\ tab[p].page = "LOADING" /\ tab[p].refresh = None
  /\ SetSession(p, None, [tab[p] EXCEPT !.page = "OUT"])
  /\ UNCHANGED <<tokens, rowLock, srv>>

\* Mutant: every 401 starts a refresh of its own.
NotShared(p) == TRUE

(* Calls that find a refresh under way wait for that one. *)
NoneInFlight(p) == tab[p].refresh = None

(* Some call is answered 401. *)
StartRefresh(p, t) ==
  /\ tab[p].memory # None /\ NoneInFlight(p) /\ srv[t] = New
  /\ Called(t, "REFRESH", tab[p].memory)
  /\ tab' = [tab EXCEPT ![p].refresh = t, ![p].spent = @ \cup {tab[p].memory}]
  /\ UNCHANGED <<tokens, rowLock, stored>>

RefreshAnswered(p) ==
  LET t == tab[p].refresh
  IN  /\ t # None /\ srv[t].pc = "ISSUED"
      /\ SetSession(p, t, [tab[p] EXCEPT !.refresh = None])
      /\ UNCHANGED <<tokens, rowLock, srv>>

(* Refused, or no answer: every call that waited drops the session.        *)
RefreshFailed(p) ==
  /\ tab[p].refresh # None
  /\ SetSession(p, None, [tab[p] EXCEPT !.refresh = None, !.page = "OUT"])
  /\ UNCHANGED <<tokens, rowLock, srv>>

StartSignIn(p, t) ==
  /\ tab[p].page = "OUT" /\ tab[p].call = None /\ srv[t] = New
  /\ Called(t, "LOGIN", None)
  /\ tab' = [tab EXCEPT ![p].call = t]
  /\ UNCHANGED <<tokens, rowLock, stored>>

SignInAnswered(p) ==
  LET t == tab[p].call
  IN  /\ t # None /\ srv[t].op = "LOGIN" /\ srv[t].pc = "ISSUED"
      /\ SetSession(p, t, [tab[p] EXCEPT !.page = "IN", !.call = None])
      /\ UNCHANGED <<tokens, rowLock, srv>>

SignInFailed(p) ==
  /\ tab[p].call # None /\ srv[tab[p].call].op = "LOGIN"
  /\ tab' = [tab EXCEPT ![p].call = None]
  /\ UNCHANGED <<tokens, rowLock, srv, stored>>

(* The token in localStorage is the one revoked, if there is one. *)
StartSignOut(p, t) ==
  /\ tab[p].page = "IN" /\ tab[p].call = None /\ stored # None /\ srv[t] = New
  /\ Called(t, "LOGOUT", stored)
  /\ tab' = [tab EXCEPT ![p].call = t]
  /\ UNCHANGED <<tokens, rowLock, stored>>

(* "Best effort": the session is cleared whether the call succeeded or not,*)
(* and at once where localStorage is empty.  A refresh under way goes on.  *)
SignedOut(p) ==
  /\ \/ tab[p].call # None /\ srv[tab[p].call].op = "LOGOUT"
     \/ tab[p].page = "IN" /\ tab[p].call = None /\ stored = None
  /\ SetSession(p, None, [tab[p] EXCEPT !.page = "OUT", !.call = None])
  /\ UNCHANGED <<tokens, rowLock, srv>>

-----------------------------------------------------------------------------
Server(t) ==
  \/ CommitLogin(t) \/ FindToken(t) \/ CommitRotation(t) \/ RefuseRotation(t)
  \/ RefuseRevoked(t) \/ (\E x \in AuthTxn : ReachRow(t, x)) \/ CommitRevocation(t)
  \/ CommitLogout(t) \/ AbortAuth(t)

Browser(p) ==
  \/ Load(p) \/ Restored(p) \/ NotRestored(p)
  \/ RefreshAnswered(p) \/ RefreshFailed(p)
  \/ SignInAnswered(p) \/ SignInFailed(p) \/ SignedOut(p)
  \/ \E t \in AuthTxn : StartRefresh(p, t) \/ StartSignIn(p, t) \/ StartSignOut(p, t)

SessionsNext == (\E t \in AuthTxn : Server(t)) \/ (\E p \in Page : Browser(p))

SessionsSpec == SessionsInit /\ [][SessionsNext]_sessionsVars

-----------------------------------------------------------------------------
(* Well typed, and only a running transaction holds rows.                  *)
SessionsTypeOK ==
  /\ DOMAIN tokens \subseteq AuthTxn
  /\ \A x \in DOMAIN tokens : tokens[x] \in TokenRow
  /\ rowLock \in [AuthTxn -> AuthTxn \cup {None}]
  /\ \A x \in AuthTxn : rowLock[x] # None =>
       srv[rowLock[x]].pc \in {"ROTATING", "REVOKED", "REVOKING"}
  /\ srv \in [AuthTxn -> [op : {"NONE", "LOGIN", "REFRESH", "LOGOUT"},
                          pc : {"NEW", "CALLED", "ROTATING", "REVOKED", "REVOKING",
                                "ISSUED", "REFUSED", "DONE"},
                          arg : AuthTxn \cup {None}, left : SUBSET AuthTxn]]
  /\ stored \in DOMAIN tokens \cup {None}
  /\ tab \in [Page -> [page : {"OUT", "LOADING", "IN"}, memory : DOMAIN tokens \cup {None},
                       refresh : AuthTxn \cup {None}, call : AuthTxn \cup {None},
                       spent : SUBSET AuthTxn]]

(* A refresh token is single-use however many tabs and retries present it  *)
(* at once: a family never has two tokens that are still good              *)
(* (auth.service.ts:182).                                                  *)
OneLiveToken ==
  \A x, y \in DOMAIN tokens :
    LiveToken(x) /\ LiveToken(y) /\ tokens[x].family = tokens[y].family => x = y

(* A tab presents a token once between two loads, whatever is signed in or *)
(* out and answered late in between: the second time would be taken for a  *)
(* theft (frontend/src/lib/api.ts:15-18).                                  *)
SpentOnce ==
  [][\A p \in Page : tab'[p].refresh \notin {tab[p].refresh, None}
                       => tab[p].memory \notin tab[p].spent]_sessionsVars

(* app-state.tsx:95: signing out "must still clear the session on this     *)
(* device": a tab that shows the sign-in form holds no session.            *)
SignedOutHoldsNothing == \A p \in Page : tab[p].page = "OUT" => tab[p].memory = None
=============================================================================
