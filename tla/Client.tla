------------------------------- MODULE Client -------------------------------
(***************************************************************************)
(* The browser's side of a payment: api() with its one retry and its       *)
(* resend after a token refresh, and the pages that call it.  SEND keeps   *)
(* one idempotency key until a payment succeeds and counts down before it  *)
(* sends; a CREATE page (ask for money, split a bill, order payments) and  *)
(* a SETTLE page (pay a request, reverse a transfer) mint a key per click. *)
(*                                                                         *)
(* The server is what Ledger, MoneyRequests and Schedules promise: a key   *)
(* executes one request once, and what is to be settled is settled once.   *)
(* A fetch may be lost on its way out or on its way back, and one that the *)
(* browser has given up may still be executed, before or after the retry.  *)
(***************************************************************************)
EXTENDS Errors, FiniteSets

CONSTANTS
  Call,         \* calls of api() a page makes
  Details,      \* what a form may say: payee, amount, note
  Incomplete,   \* a form the server will not accept
  MaxVisits,    \* bound: pages opened
  NoCall

ASSUME ClientAssumption == Incomplete \notin Details /\ NoCall \notin Call

PageKind == {"SEND", "CREATE", "SETTLE"}

VARIABLES
  page,         \* the page that is mounted
  call,         \* the calls
  minted,       \* how many keys crypto.randomUUID has made
  visits,       \* how many pages were opened
  rows          \* key -> what the server executed under it

clientVars == <<page, call, minted, visits, rows>>

NoPage == [is |-> "NONE", key |-> 0, form |-> Incomplete, step |-> "EDITING", waits |-> NoCall]

Unused == [pc |-> "UNUSED", on |-> "NONE", visit |-> 0, key |-> 0, form |-> Incomplete,
           tries |-> 0, mayRefresh |-> FALSE, sent |-> FALSE, givenUp |-> FALSE, answer |-> "NONE"]

ClientInit ==
  /\ page = NoPage
  /\ call = [c \in Call |-> Unused]
  /\ minted = 0 /\ visits = 0
  /\ rows = [k \in {} |-> NoCall]

-----------------------------------------------------------------------------
(* api() *)

\* attempt(allowRefresh): one fetch.
Fetch(x, allowRefresh) ==
  [x EXCEPT !.pc = "WAITING", !.mayRefresh = allowRefresh, !.sent = TRUE, !.answer = "NONE"]

\* The fetch is not waited for any longer; the request may be under way, and may
\* arrive at any time from now on or never.
GivenUp(x) ==
  [x EXCEPT !.sent = FALSE, !.answer = "NONE", !.givenUp = @ \/ x.sent]

\* The one retry, 250 ms later, with the same key.
Resent(x) == [Fetch(x, TRUE) EXCEPT !.tries = 2]

Start(c, key) ==
  /\ call[c].pc = "UNUSED"
  /\ call' = [call EXCEPT ![c] = Fetch([Unused EXCEPT !.on = page.is, !.visit = visits,
                                                      !.key = key, !.form = page.form,
                                                      !.tries = 1], TRUE)]

\* The outcome reaches the page that made the call, if it is still there.
Mounted(c) == page.waits = c

-----------------------------------------------------------------------------
(* The server, for one fetch *)

\* What api() makes of a status.  401 is taken for an access token that has expired,
\* though a wrong PIN is one too; 503 is worth a second try; nothing else is.
Outcome(status) ==
  CASE status = 401 -> "EXPIRED" [] status = 503 -> "UNAVAILABLE" [] OTHER -> "REFUSED"

Outcomes(failures) == {Outcome(Respond(e)) : e \in failures}

Settled == \E k \in DOMAIN rows : rows[k].on = "SETTLE"

Executes(c) ==
  /\ call[c].key \notin DOMAIN rows /\ call[c].form # Incomplete
  /\ call[c].on = "SETTLE" => ~Settled

Replays(c) == call[c].key \in DOMAIN rows /\ rows[call[c].key].form = call[c].form

\* What the server may say: it failed and rolled back; it did what it was asked, now
\* or before; or it did so and lost the connection before the COMMIT was acknowledged.
RolledBack   == Outcomes(Failure)
Done(c)      == IF Replays(c) THEN {"OK"} ELSE {}
AfterCommit(c) == IF Executes(c) THEN {"OK"} \cup Outcomes(Disconnected) ELSE {}

Execute(c) ==
  rows' = [k \in DOMAIN rows \cup {call[c].key} |->
             IF k = call[c].key THEN [form |-> call[c].form, on |-> call[c].on, by |-> c]
             ELSE rows[k]]

\* The fetch the browser waits for is served.
Serve(c, answer) ==
  /\ call[c].pc = "WAITING" /\ call[c].sent
  /\ \/ answer \in RolledBack \cup Done(c) /\ UNCHANGED rows
     \/ answer \in AfterCommit(c) /\ Execute(c)
  /\ call' = [call EXCEPT ![c].sent = FALSE, ![c].answer = answer]
  /\ UNCHANGED <<page, minted, visits>>

\* One it has given up is executed all the same; nobody hears the answer.
ServeLate(c) ==
  /\ call[c].givenUp /\ Executes(c)
  /\ Execute(c)
  /\ UNCHANGED <<page, call, minted, visits>>

-----------------------------------------------------------------------------
(* What api() does with the answer *)

\* Mutant: the same key for the next payment.
SameKey == /\ page' = [page EXCEPT !.step = "REFRESHING", !.form = Incomplete, !.waits = NoCall]
           /\ UNCHANGED minted

\* A new intent needs a new key; the form is cleared, the balance is read again.
Renewed ==
  /\ page' = [page EXCEPT !.step = "REFRESHING", !.form = Incomplete, !.waits = NoCall,
                          !.key = IF page.is = "SEND" THEN minted + 1 ELSE @]
  /\ minted' = minted + IF page.is = "SEND" THEN 1 ELSE 0

CallEnds(c, outcome) ==
  call' = [call EXCEPT ![c] = [GivenUp(@) EXCEPT !.pc = outcome, !.tries = 0, !.mayRefresh = FALSE]]

Succeed(c) ==
  /\ call[c].pc = "WAITING" /\ call[c].answer = "OK"
  /\ CallEnds(c, IF Mounted(c) THEN "SHOWN" ELSE "UNSEEN")
  /\ IF Mounted(c) THEN Renewed ELSE UNCHANGED <<page, minted>>
  /\ UNCHANGED <<visits, rows>>

\* The error is shown.  SEND keeps its key, SEND and CREATE what the form says.
Fails(c) ==
  /\ CallEnds(c, "FAILED")
  /\ page' = IF Mounted(c)
             THEN [page EXCEPT !.step = "EDITING", !.waits = NoCall,
                               !.form = IF page.is = "SETTLE" THEN Incomplete ELSE @]
             ELSE page
  /\ UNCHANGED minted

\* An answer that is not worth a second try.
Refused(c) ==
  /\ call[c].pc = "WAITING"
  /\ \/ call[c].answer = "REFUSED"
     \/ call[c].answer = "EXPIRED" /\ ~call[c].mayRefresh
  /\ Fails(c)
  /\ UNCHANGED <<visits, rows>>

\* A network error, which may strike while anything is under way, or a 503: once more ...
Retry(c) ==
  /\ call[c].pc = "WAITING" /\ call[c].tries = 1
  /\ call' = [call EXCEPT ![c] = Resent(GivenUp(@))]
  /\ UNCHANGED <<page, minted, visits, rows>>

\* ... and no more.
GiveUp(c) ==
  /\ call[c].pc = "WAITING" /\ call[c].tries = 2
  /\ Fails(c)
  /\ UNCHANGED <<visits, rows>>

\* 401: the tokens are refreshed and the same request goes out again ...
Reauthorise(c) ==
  /\ call[c].pc = "WAITING" /\ call[c].answer = "EXPIRED" /\ call[c].mayRefresh
  /\ call' = [call EXCEPT ![c] = Fetch(GivenUp(@), FALSE)]
  /\ UNCHANGED <<page, minted, visits, rows>>

\* ... or the session is lost, and with it the page.
LoseSession(c) ==
  /\ call[c].pc = "WAITING" /\ call[c].answer = "EXPIRED" /\ call[c].mayRefresh
  /\ CallEnds(c, "FAILED")
  /\ page' = NoPage
  /\ UNCHANGED <<minted, visits, rows>>

-----------------------------------------------------------------------------
(* The pages *)

\* Another page is opened, or the same one again: what the last one held is gone,
\* its countdown included; its call goes on.
Open(p) ==
  /\ visits < MaxVisits
  /\ visits' = visits + 1
  /\ page' = [NoPage EXCEPT !.is = p, !.key = IF p = "SEND" THEN minted + 1 ELSE 0]
  /\ minted' = minted + IF p = "SEND" THEN 1 ELSE 0
  /\ UNCHANGED <<call, rows>>

\* Fields stay open while a payment counts down or is under way.
Edit(d) ==
  /\ page.is # "NONE" /\ page.step # "PIN" /\ page.form # d
  /\ page' = [page EXCEPT !.form = d]
  /\ UNCHANGED <<call, minted, visits, rows>>

Moves(from, to) ==
  /\ page.is = "SEND" /\ page.step = from
  /\ page' = [page EXCEPT !.step = to]
  /\ UNCHANGED <<call, minted, visits, rows>>

Review    == page.form # Incomplete /\ Moves("EDITING", "PIN")
CancelPin == Moves("PIN", "EDITING")
Confirm   == Moves("PIN", "COUNTDOWN")
Undo      == Moves("COUNTDOWN", "EDITING")

\* Mutant: a key per click, as on the other pages.
KeyPerClick == minted + 1

\* The key SEND sends with.
SendKey == page.key

\* The countdown is over: what the form says now is sent.
Elapse(c) ==
  /\ page.is = "SEND" /\ page.step = "COUNTDOWN"
  /\ Start(c, SendKey)
  /\ page' = [page EXCEPT !.step = "SENDING", !.waits = c]
  /\ minted' = IF SendKey > minted THEN SendKey ELSE minted
  /\ UNCHANGED <<visits, rows>>

\* The other pages: a key for this click.
Click(c) ==
  /\ page.step = "EDITING" /\ page.form # Incomplete
  /\ Start(c, minted + 1)
  /\ page' = [page EXCEPT !.step = "SENDING", !.waits = c]
  /\ minted' = minted + 1
  /\ UNCHANGED <<visits, rows>>

\* Money is asked for, a bill is split, payments are ordered.
Create(c) == page.is = "CREATE" /\ Click(c)

\* A request is paid, a payment is reversed.
Settle(c) == page.is = "SETTLE" /\ Click(c)

\* The balance or the list has been read again, or could not be.
Refreshed ==
  /\ page.step = "REFRESHING"
  /\ page' = [page EXCEPT !.step = "EDITING"]
  /\ UNCHANGED <<call, minted, visits, rows>>

Answers(c) ==
  Succeed(c) \/ Refused(c) \/ Retry(c) \/ GiveUp(c) \/ Reauthorise(c) \/ LoseSession(c)

ClientNext ==
  \/ \E p \in PageKind : Open(p)
  \/ \E d \in Details \cup {Incomplete} : Edit(d)
  \/ Review \/ CancelPin \/ Confirm \/ Undo \/ Refreshed
  \/ \E c \in Call :
       \/ Elapse(c) \/ Create(c) \/ Settle(c) \/ Answers(c) \/ ServeLate(c)
       \/ \E answer \in {"OK", "REFUSED", "UNAVAILABLE", "EXPIRED"} : Serve(c, answer)

ClientSpec == ClientInit /\ [][ClientNext]_clientVars

-----------------------------------------------------------------------------
(* Properties *)

\* A payment its page has reported, as against one the user was not told of.
Reported(k) == \E c \in Call : call[c].key = k /\ call[c].pc = "SHOWN"

Unreported(v) ==
  {k \in DOMAIN rows : rows[k].on = "SEND" /\ call[rows[k].by].visit = v /\ ~Reported(k)}

\* Of the payments sent from one SEND page, at most one has gone through without
\* the user being told, whatever is lost, retried or sent again by hand: the next
\* attempt from that page is made under the same key (Send.tsx:45-47, "the retry
\* replays that result instead of sending the money a second time").  And no click,
\* on any page, makes two movements (api.ts:163, "The key makes the second attempt
\* harmless"), though a fetch may be executed after the one that replaced it.
NeverPaidTwiceUnknowingly ==
  /\ \A v \in 1..visits : Cardinality(Unreported(v)) <= 1
  /\ \A c \in Call : Cardinality({k \in DOMAIN rows : rows[k].by = c}) <= 1

\* Every success a page reports is a payment of its own, made with the details
\* that were sent: none is the replay of a payment already reported, and none was
\* rolled back (Send.tsx:82, "reusing this one would replay the payment just made").
EachSuccessIsNew ==
  \A c \in {d \in Call : call[d].pc = "SHOWN"} :
    /\ call[c].key \in DOMAIN rows /\ rows[call[c].key].form = call[c].form
    /\ \A d \in Call \ {c} : call[d].pc = "SHOWN" => call[d].key # call[c].key
=============================================================================
