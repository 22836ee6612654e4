------------------------------- MODULE Sessions -------------------------------
(***************************************************************************)
(* One cashier's browser and the server it is signed in to: the tokens of  *)
(* the session (auth.service.ts), the requests that renew them on the way  *)
(* (frontend api/client.ts, state/auth.tsx), and the point of sale page    *)
(* that sends a sale and may not hear what became of it (PosPage.tsx).     *)
(*                                                                         *)
(* The tabs of a browser share localStorage, the tokens; they share        *)
(* nothing else.  The code of a tab runs between two awaits without a      *)
(* break: a step is what it does when an answer comes.  refresh is three   *)
(* statements of the server without a transaction.                         *)
(***************************************************************************)
EXTENDS Integers, FiniteSets

CONSTANTS
    Tab,            \* tabs of the browser
    Company,        \* companies the cashier is a member of
    Basket,         \* what a customer wants to buy
    Request,        \* requests that can be under way at the same time
    Nobody,
    MaxTokens,      \* bound: pairs of tokens that are issued
    MaxKeys,        \* bound: clientReferenceIds that are used
    MaxEvents,      \* bound: requests the cashier starts
    MaxLosses       \* bound: requests or answers the network loses

VARIABLES
    token,      \* token[k]: the row of refresh token k
    fresh,      \* tokens whose access token has not expired
    sales,      \* the sales that were recorded
    storage,    \* localStorage: the pair of tokens of the session, 0 if there is none
    tab,        \* tab[t]: what the code of tab t knows
    req,        \* the requests
    losses,     \* messages lost so far
    events,     \* requests the cashier started
    keys,       \* clientReferenceIds used so far
    cut,        \* a tab was reloaded while it renewed the tokens
    given,      \* baskets given up by a page that had sent them and saw no sale
    served      \* baskets whose sale a page showed as completed

serverRows == <<token, fresh, sales>>
till == <<events, keys, cut, given, served>>
svars == <<serverRows, storage, tab, req, losses, till>>

-----------------------------------------------------------------------------
ASSUME SessionAssumption ==
    /\ Nobody \notin Tab \cup Company \cup Basket
    /\ Company # {}
    /\ MaxTokens \in Nat \ {0}
    /\ {MaxKeys, MaxEvents, MaxLosses} \subseteq Nat

Token == 1..MaxTokens

State == {"none", "live", "replaced", "revoked"}

Unissued == [state |-> "none", company |-> Nobody]

\* me: the signed-in view is shown.  at: the company whose warehouses the page
\* loaded.  key: its clientReferenceId, 0 as long as it was never sent.
\* swapped: the basket was exchanged after the key was sent.
Closed == [me |-> FALSE, at |-> Nobody, basket |-> Nobody, key |-> 0,
           swapped |-> FALSE, submitting |-> FALSE, done |-> FALSE]

\* alive: the code that waits for the answer still runs.  page: and the page that
\* asked is still mounted.
Idle == [op |-> "none", step |-> "idle", tab |-> Nobody, alive |-> TRUE, page |-> TRUE,
         access |-> 0, refresh |-> 0, issued |-> 0, retry |-> FALSE,
         at |-> Nobody, basket |-> Nobody, key |-> 0]

Op == {"none", "login", "me", "warehouses", "sale", "logout"}

Step == {"idle", "sent", "answered", "refresh", "issue", "rotate", "renewed", "failed"}

View == [me : BOOLEAN, at : Company \cup {Nobody}, basket : Basket \cup {Nobody},
         key : 0..MaxKeys, swapped : BOOLEAN, submitting : BOOLEAN, done : BOOLEAN]

Message == [op : Op, step : Step, tab : Tab \cup {Nobody}, alive : BOOLEAN, page : BOOLEAN,
            access : 0..MaxTokens, refresh : 0..MaxTokens, issued : 0..MaxTokens,
            retry : BOOLEAN, at : Company \cup {Nobody}, basket : Basket \cup {Nobody},
            key : 0..MaxKeys]

Sale == [company : Company, key : 1..MaxKeys, basket : Basket, at : Company]

\* The point of sale of company c is open.
Ready(c) == [Closed EXCEPT !.me = TRUE, !.at = c]

\* Somebody has signed in and opened some tabs.
SessionInit ==
    /\ LET c == CHOOSE c \in Company : TRUE IN
          /\ token = [k \in Token |-> IF k = 1 THEN [state |-> "live", company |-> c]
                                     ELSE Unissued]
          /\ tab \in [Tab -> {Closed, Ready(c)}]
    /\ fresh = {1} /\ sales = {}
    /\ storage = 1
    /\ req = [q \in Request |-> Idle]
    /\ losses = 0 /\ events = 0 /\ keys = 0 /\ cut = FALSE /\ given = {} /\ served = {}

-----------------------------------------------------------------------------
At(q, s) == req[q].step = s

Goto(q, s) == req' = [req EXCEPT ![q].step = s]

\* The number of the next pair of tokens.
NewToken == Cardinality({k \in Token : token[k].state # "none"}) + 1

\* issueTokens
Issue(c) ==
    /\ NewToken \in Token
    /\ token' = [token EXCEPT ![NewToken] = [state |-> "live", company |-> c]]
    /\ fresh' = fresh \cup {NewToken}

RevokeAll == [k \in Token |-> IF token[k].state = "live"
                              THEN [token[k] EXCEPT !.state = "revoked"] ELSE token[k]]

Allowed(q) == At(q, "sent") /\ req[q].access \in fresh

CompanyOf(q) == token[req[q].access].company

-----------------------------------------------------------------------------
(* The code of a tab when a request has failed. *)

\* The page of t is unmounted: the answers it waits for come to nothing.
Orphaned(r, t) == [q \in Request |-> IF r[q].tab = t THEN [r[q] EXCEPT !.page = FALSE] ELSE r[q]]

\* What the page of t had sent and never saw completed is given up.
GivenUp(t) == IF tab[t].key # 0 /\ ~tab[t].done THEN given \cup {tab[t].basket} ELSE given

\* clearSession and SESSION_EXPIRED_EVENT: the tab goes to the login view.
EndSession(q) ==
    /\ storage' = 0
    /\ tab' = [tab EXCEPT ![req[q].tab] = Closed]
    /\ req' = Orphaned([req EXCEPT ![q] = Idle], req[q].tab)
    /\ given' = GivenUp(req[q].tab)

\* Faulty variant: the next attempt gets a key of its own.
ShowErrorNewKey(q) ==
    /\ tab' = IF req[q].op = "sale" /\ req[q].page
              THEN [tab EXCEPT ![req[q].tab] = [@ EXCEPT !.submitting = FALSE, !.key = 0]] ELSE tab
    /\ req' = [req EXCEPT ![q] = Idle]
    /\ UNCHANGED <<storage, given>>

\* The page shows the error; the basket and its key stay.
ShowError(q) ==
    /\ tab' = IF req[q].op = "sale" /\ req[q].page
              THEN [tab EXCEPT ![req[q].tab].submitting = FALSE] ELSE tab
    /\ req' = [req EXCEPT ![q] = Idle]
    /\ UNCHANGED <<storage, given>>

\* Nobody waits for the answer any more.
Ignore(q) ==
    /\ req' = [req EXCEPT ![q] = Idle]
    /\ UNCHANGED <<storage, tab, given>>

\* request throws: a second attempt that fails, for whatever reason, ends the session;
\* so do refreshMe and logout.
Throw(q) ==
    IF ~req[q].alive THEN Ignore(q)
    ELSE IF req[q].retry \/ req[q].op \in {"me", "logout"} THEN EndSession(q)
    ELSE ShowError(q)

-----------------------------------------------------------------------------
(* The server. *)

\* No access token, or one whose fifteen minutes are over by now.  A first attempt
\* renews it, with the refresh token that is stored at this moment.
TurnAway(q) ==
    /\ At(q, "sent") /\ req[q].op # "login"
    /\ fresh' = fresh \ {req[q].access}
    /\ \/ ~req[q].alive /\ Ignore(q)
       \/ req[q].alive /\ (req[q].retry \/ storage = 0) /\ EndSession(q)
       \/ /\ req[q].alive /\ ~req[q].retry /\ storage # 0
          /\ req' = [req EXCEPT ![q] = [@ EXCEPT !.step = "refresh", !.refresh = storage]]
          /\ UNCHANGED <<storage, tab, given>>
    /\ UNCHANGED <<token, sales, losses, events, keys, cut, served>>

\* A guard or a rule of the company refuses.
RefuseRequest(q) ==
    /\ Allowed(q) /\ req[q].op \in {"warehouses", "sale"}
    /\ Throw(q)
    /\ UNCHANGED <<serverRows, losses, events, keys, cut, served>>

login(q) ==
    /\ At(q, "sent") /\ req[q].op = "login"
    /\ Issue(req[q].at)
    /\ req' = [req EXCEPT ![q] = [@ EXCEPT !.step = "answered", !.issued = NewToken]]
    /\ UNCHANGED <<sales, storage, tab, losses, till>>

\* A sale with this key is answered as it was recorded; a new one must name a
\* warehouse of the company.
createSale(q) ==
    /\ Allowed(q) /\ req[q].op = "sale"
    /\ \/ /\ \E s \in sales : s.company = CompanyOf(q) /\ s.key = req[q].key
          /\ UNCHANGED sales
       \/ /\ \A s \in sales : s.company = CompanyOf(q) => s.key # req[q].key
          /\ req[q].at = CompanyOf(q)
          /\ sales' = sales \cup {[company |-> CompanyOf(q), key |-> req[q].key,
                                   basket |-> req[q].basket, at |-> req[q].at]}
    /\ Goto(q, "answered")
    /\ UNCHANGED <<token, fresh, storage, tab, losses, till>>

\* logout without a token in its body: every session of the user.
logout(q) ==
    /\ Allowed(q) /\ req[q].op = "logout"
    /\ token' = RevokeAll
    /\ Goto(q, "answered")
    /\ UNCHANGED <<fresh, sales, storage, tab, losses, till>>

\* refresh reads the row.  A token that was replaced already ends every session.
ReadToken(q) ==
    /\ At(q, "refresh")
    /\ IF token[req[q].refresh].state = "live"
       THEN Goto(q, "issue") /\ UNCHANGED token
       ELSE Goto(q, "failed") /\ token' = RevokeAll
    /\ UNCHANGED <<fresh, sales, storage, tab, losses, till>>

issueTokens(q) ==
    /\ At(q, "issue")
    /\ Issue(token[req[q].refresh].company)
    /\ req' = [req EXCEPT ![q] = [@ EXCEPT !.step = "rotate", !.issued = NewToken]]
    /\ UNCHANGED <<sales, storage, tab, losses, till>>

\* Faulty variant: every session of the user is revoked, the new one too.
RotateAll(q) ==
    /\ At(q, "rotate")
    /\ token' = [k \in Token |-> IF token[k].state = "live"
                                 THEN [token[k] EXCEPT !.state = "replaced"] ELSE token[k]]
    /\ Goto(q, "renewed")
    /\ UNCHANGED <<fresh, sales, storage, tab, losses, till>>

Rotate(q) ==
    /\ At(q, "rotate")
    /\ token' = [token EXCEPT ![req[q].refresh].state = "replaced"]
    /\ Goto(q, "renewed")
    /\ UNCHANGED <<fresh, sales, storage, tab, losses, till>>

\* The server fails before the last statement: the new tokens are stored.
Break(q) ==
    /\ At(q, "rotate")
    /\ Goto(q, "failed")
    /\ UNCHANGED <<serverRows, storage, tab, losses, till>>

\* A request or its answer is lost.
LoseMessage(q) ==
    /\ losses < MaxLosses /\ losses' = losses + 1
    /\ req[q].alive
    /\ \/ req[q].step \in {"sent", "answered"} /\ Throw(q)
       \/ req[q].step \in {"refresh", "renewed"} /\ EndSession(q)
    /\ UNCHANGED <<serverRows, events, keys, cut, served>>

-----------------------------------------------------------------------------
(* The code of a tab when an answer has come. *)

Answered(q, op) == At(q, "answered") /\ req[q].alive /\ req[q].op = op

\* login and selectTenant store the tokens, and refreshMe asks for the profile.
TakeLogin(q) ==
    /\ Answered(q, "login")
    /\ storage' = req[q].issued
    /\ req' = [req EXCEPT ![q] = [Idle EXCEPT !.op = "me", !.step = "sent",
                                   !.tab = req[q].tab, !.access = req[q].issued]]
    /\ UNCHANGED <<serverRows, tab, losses, till>>

\* refreshMe: GET /auth/me is answered.
TakeMe(q) ==
    /\ Allowed(q) /\ req[q].op = "me"
    /\ tab' = IF req[q].alive THEN [tab EXCEPT ![req[q].tab].me = TRUE] ELSE tab
    /\ req' = [req EXCEPT ![q] = Idle]
    /\ UNCHANGED <<serverRows, storage, losses, till>>

\* GET /tenancy/warehouses is answered, in the company of the token.
TakeWarehouses(q) ==
    /\ Allowed(q) /\ req[q].op = "warehouses"
    /\ tab' = IF req[q].alive /\ req[q].page
              THEN [tab EXCEPT ![req[q].tab].at = CompanyOf(q)] ELSE tab
    /\ req' = [req EXCEPT ![q] = Idle]
    /\ UNCHANGED <<serverRows, storage, losses, till>>

\* onCompleteSale: the page shows what the server recorded.
TakeSale(q) ==
    /\ Answered(q, "sale")
    /\ LET t == req[q].tab IN
       IF req[q].page
       THEN /\ tab' = [tab EXCEPT ![t] = [@ EXCEPT !.done = TRUE, !.submitting = FALSE]]
            /\ served' = served \cup {tab[t].basket}
       ELSE UNCHANGED <<tab, served>>
    /\ req' = [req EXCEPT ![q] = Idle]
    /\ UNCHANGED <<serverRows, storage, losses, events, keys, cut, given>>

TakeLogout(q) ==
    /\ Answered(q, "logout")
    /\ EndSession(q)
    /\ UNCHANGED <<serverRows, losses, events, keys, cut, served>>

\* request stores the new tokens and sends the request a second time.
TakeRefresh(q) ==
    /\ At(q, "renewed") /\ req[q].alive
    /\ storage' = req[q].issued
    /\ req' = [req EXCEPT ![q] = [@ EXCEPT !.step = "sent", !.access = req[q].issued,
                                           !.retry = TRUE]]
    /\ UNCHANGED <<serverRows, tab, losses, till>>

TakeFailure(q) ==
    /\ At(q, "failed") /\ req[q].alive
    /\ EndSession(q)
    /\ UNCHANGED <<serverRows, losses, events, keys, cut, served>>

Drop(q) ==
    /\ req[q].step \in {"answered", "renewed", "failed"} /\ ~req[q].alive
    /\ Ignore(q)
    /\ UNCHANGED <<serverRows, losses, events, keys, cut, served>>

-----------------------------------------------------------------------------
(* What the cashier does. *)

Pending(t, ops) == \E q \in Request : req[q].tab = t /\ req[q].alive /\ req[q].op \in ops

\* A request of the cashier's is started in slot q.
Starts(q) ==
    /\ At(q, "idle")
    /\ events < MaxEvents /\ events' = events + 1

Login(t, q, c) ==
    /\ Starts(q) /\ ~tab[t].me /\ ~Pending(t, {"login", "me"})
    /\ req' = [req EXCEPT ![q] = [Idle EXCEPT !.op = "login", !.step = "sent", !.tab = t,
                                               !.at = c]]
    /\ UNCHANGED <<serverRows, storage, tab, losses, keys, cut, given, served>>

\* AuthProvider starts anew: what the tab waited for is forgotten.
Reload(t, q) ==
    /\ Starts(q) /\ (tab[t] # Closed \/ storage # 0)
    /\ ~Pending(t, {"login", "me"})
    /\ tab' = [tab EXCEPT ![t] = Closed]
    /\ req' = LET dead == [r \in Request |-> IF req[r].tab = t
                                             THEN [req[r] EXCEPT !.alive = FALSE] ELSE req[r]]
              IN  IF storage = 0 THEN dead
                  ELSE [dead EXCEPT ![q] = [Idle EXCEPT !.op = "me", !.step = "sent", !.tab = t,
                                                        !.access = storage]]
    /\ cut' = (cut \/ \E r \in Request : req[r].tab = t /\ req[r].alive
                                        /\ req[r].step \in {"refresh", "issue", "rotate",
                                                        "renewed"})
    /\ given' = GivenUp(t)
    /\ UNCHANGED <<serverRows, storage, losses, keys, served>>

\* PosPage is mounted and loads the warehouses.
OpenPos(t, q) ==
    /\ Starts(q) /\ tab[t].me
    /\ ~Pending(t, {"warehouses"})
    /\ tab' = [tab EXCEPT ![t] = [Closed EXCEPT !.me = TRUE]]
    /\ req' = [Orphaned(req, t) EXCEPT ![q] = [Idle EXCEPT !.op = "warehouses", !.step = "sent",
                                                           !.tab = t, !.access = storage]]
    /\ given' = GivenUp(t)
    /\ UNCHANGED <<serverRows, storage, losses, keys, cut, served>>

\* Baskets nobody rings up, and no page has shown completed.
Unserved == {b \in Basket \ served : \A t \in Tab : tab[t].basket # b}

\* Another basket is rung up over one that was sent and not answered.
Exchange(t, b) ==
    /\ tab[t].key # 0 /\ ~tab[t].done
    /\ tab' = [tab EXCEPT ![t] = [@ EXCEPT !.basket = b, !.swapped = TRUE]]
    /\ given' = GivenUp(t)
    /\ UNCHANGED <<serverRows, storage, req, losses, events, keys, cut, served>>

\* A basket is rung up if there is none yet, and onCompleteSale sends it.
SubmitSale(t, q, b) ==
    /\ Starts(q)
    /\ tab[t].at # Nobody /\ ~tab[t].submitting /\ ~tab[t].done
    /\ IF tab[t].basket = Nobody THEN b \in Unserved ELSE b = tab[t].basket
    /\ keys' = IF tab[t].key = 0 THEN keys + 1 ELSE keys
    /\ keys' <= MaxKeys
    /\ LET key == IF tab[t].key = 0 THEN keys' ELSE tab[t].key
       IN  /\ tab' = [tab EXCEPT ![t] = [@ EXCEPT !.submitting = TRUE, !.key = key, !.basket = b]]
           /\ req' = [req EXCEPT ![q] = [Idle EXCEPT !.op = "sale", !.step = "sent", !.tab = t,
                                          !.access = storage, !.at = tab[t].at,
                                          !.basket = b, !.key = key]]
    /\ UNCHANGED <<serverRows, storage, losses, cut, given, served>>

\* Faulty variant: the key of the last sale is used again.
resetKeepingKey(t) ==
    /\ tab[t].done
    /\ tab' = [tab EXCEPT ![t] = [@ EXCEPT !.basket = Nobody, !.swapped = FALSE,
                                         !.done = FALSE]]
    /\ UNCHANGED <<serverRows, storage, req, losses, till>>

resetForNewSale(t) ==
    /\ tab[t].done
    /\ tab' = [tab EXCEPT ![t] = [@ EXCEPT !.basket = Nobody, !.key = 0, !.swapped = FALSE,
                                         !.done = FALSE]]
    /\ UNCHANGED <<serverRows, storage, req, losses, till>>

Logout(t, q) ==
    /\ Starts(q) /\ tab[t].me /\ ~Pending(t, {"logout"})
    /\ req' = [req EXCEPT ![q] = [Idle EXCEPT !.op = "logout", !.step = "sent", !.tab = t,
                                               !.access = storage]]
    /\ UNCHANGED <<serverRows, storage, tab, losses, keys, cut, given, served>>

-----------------------------------------------------------------------------
Answer(q) ==
    \/ TurnAway(q) \/ RefuseRequest(q) \/ login(q) \/ createSale(q) \/ logout(q)
    \/ ReadToken(q) \/ issueTokens(q) \/ Rotate(q) \/ Break(q)

Take(q) ==
    \/ TakeLogin(q) \/ TakeMe(q) \/ TakeWarehouses(q) \/ TakeSale(q) \/ TakeLogout(q)
    \/ TakeRefresh(q) \/ TakeFailure(q) \/ Drop(q)

Cashier ==
    \E t \in Tab :
       \/ \E q \in Request :
             \/ \E c \in Company : Login(t, q, c)
             \/ \E b \in Basket : SubmitSale(t, q, b)
             \/ Reload(t, q) \/ OpenPos(t, q) \/ Logout(t, q)
       \/ \E b \in Unserved : Exchange(t, b)
       \/ resetForNewSale(t)

SessionNext ==
    \/ \E q \in Request : Answer(q) \/ Take(q) \/ LoseMessage(q)
    \/ Cashier

SessionSpec == SessionInit /\ [][SessionNext]_svars

-----------------------------------------------------------------------------
SessionTypeOK ==
    /\ token \in [Token -> [state : State, company : Company \cup {Nobody}]]
    /\ fresh \subseteq Token
    /\ storage \in 0..MaxTokens /\ (storage # 0 => token[storage].state # "none")
    /\ sales \subseteq Sale
    /\ tab \in [Tab -> View]
    /\ req \in [Request -> Message]
    /\ losses \in 0..MaxLosses /\ events \in 0..MaxEvents /\ keys \in 0..MaxKeys
    /\ cut \in BOOLEAN
    /\ given \subseteq Basket /\ served \subseteq Basket

\* However often a basket is sent, through refreshes, refusals and lost answers, it is
\* sold once, unless the page that sent it was left before it saw the answer.
BasketSoldOnce ==
    \A b \in Basket \ given : Cardinality({s \in sales : s.basket = b}) <= 1

\* A page that shows a completed sale shows one that is recorded, and for the basket
\* that was rung up unless it was exchanged after the key had been sent.
CompletedIsRecorded ==
    \A t \in Tab : tab[t].done =>
        \E s \in sales : s.key = tab[t].key /\ (s.basket = tab[t].basket \/ tab[t].swapped)

\* A sale is recorded in the company whose warehouses its page had loaded, whichever
\* company another tab has signed in to meanwhile.
SoldWhereShown == \A s \in sales : s.company = s.at

\* A basket becomes one sale, in the company the cashier was looking at.
SoldOnceWhereShown == BasketSoldOnce /\ SoldWhereShown

\* The refresh token the browser keeps is not one that was replaced: renewals that
\* cross in two tabs, fail half-way or lose their answer do not leave it behind.  A
\* tab that is reloaded while it renews does.
StoredTokenIsCurrent ==
    storage # 0 /\ token[storage].state = "replaced" =>
        \/ cut
        \/ \E q \in Request : At(q, "renewed") /\ req[q].alive /\ req[q].refresh = storage

\* A form that is busy waits for an answer that its page will take: no refusal, lost
\* answer or renewal leaves it busy for ever.
SubmittingIsUnderWay ==
    \A t \in Tab : tab[t].submitting =>
        \E q \in Request : /\ req[q].tab = t /\ req[q].op = "sale"
                           /\ req[q].alive /\ req[q].page

\* What the till shows is so: done when the sale is recorded, busy while it is sent.
TillTellsTheTruth == SessionTypeOK /\ CompletedIsRecorded /\ SubmittingIsUnderWay

-----------------------------------------------------------------------------
\* Only a failed renewal ends the session in the browser, and then it is gone on the
\* server too (frontend state/auth.tsx:68).
SessionGone ==
    [][\A q \in Request :
          /\ At(q, "sent") /\ req[q].retry /\ req[q].op \in {"warehouses", "sale"}
          /\ req[q].access \in fresh' /\ losses' = losses
          /\ storage # 0 /\ storage' = 0
          => token[storage].state # "live"]_svars

\* One key for one basket (docs/POS.md).
CompletedIsTheBasket ==
    \A t \in Tab : tab[t].done =>
        \E s \in sales : s.key = tab[t].key /\ s.basket = tab[t].basket

\* Nobody comes with a token that was replaced unless it was stolen (auth.service.ts:573).
RenewalsDoNotCollide ==
    [][\A q \in Request : At(q, "refresh") /\ req'[q].step = "failed" =>
          token[req[q].refresh].state # "replaced"]_svars
=============================================================================
