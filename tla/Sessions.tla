-------------------------------- MODULE Sessions --------------------------------
(***************************************************************************)
(* Accounts and browser sessions: the login form (login.js), the server    *)
(* threads that answer login, logout, password reset and gated requests    *)
(* (serve.py, session.py, users.py), the command line that adds accounts   *)
(* and clears sessions, and the three tables behind them (users,           *)
(* user_portfolios, sessions).                                             *)
(*                                                                         *)
(* Every statement on a table commits by itself, so an action is one       *)
(* statement with the code around it.  A session id is a number: the n-th  *)
(* call of new_session_id returns n.                                       *)
(***************************************************************************)
EXTENDS Naturals

CONSTANTS
    Browsers,
    Threads,    \* server threads: requests in flight
    Users,
    Newcomers,  \* the users the command line adds or gives a password
    Passwords,
    Commands,   \* asalloc clear-sessions, asalloc add-user
    MaxSids,    \* bound: sessions started
    NoUser, NoPassword

Sids == 1 .. MaxSids

ASSUME SessionsAssumption ==
    /\ MaxSids \in Nat
    /\ Newcomers \subseteq Users
    /\ NoUser \notin Users /\ NoPassword \notin Passwords
    /\ Users # {} /\ Passwords # {} /\ Browsers # {}

VARIABLES
    password,   \* users: the password of each account, or NoPassword
    portfolio,  \* user_portfolios: users with a row
    session,    \* sessions: the user of each row, or NoUser
    expired,    \* session ids past their expires_at
    issued,     \* session ids handed out
    cookie,     \* asalloc_sid of each browser; 0 when it has none
    page,       \* what each browser shows: a form (login, reset) or the app
    busy,       \* state.busy of the form
    req,        \* the request each server thread is serving
    cmd,        \* the commands at work
    typed,      \* history: the user of the browser's latest log-in
    rowless     \* history: users without a row because writing it failed

sessionVars == <<session, expired, issued>>
browserVars == <<cookie, page, busy, typed>>
vars == <<password, portfolio, sessionVars, browserVars, req, cmd, rowless>>

Forms == {"login", "reset"}
Kinds == Forms \union {"page", "logout"}
ReqSteps == {"free", "check", "row", "start", "answer", "put",
             "read", "stale", "drop", "serve"}
CmdSteps == {"rest", "row", "clear"}

SomeBrowser == CHOOSE b \in Browsers : TRUE
EmptyPassword == CHOOSE w \in Passwords : TRUE
Free == [step |-> "free", kind |-> "page", from |-> SomeBrowser, sid |-> 0,
         user |-> NoUser, old |-> NoPassword, new |-> NoPassword]
Resting == [step |-> "rest", user |-> NoUser, todo |-> {}]

Stored == {s \in Sids : session[s] # NoUser}
Live == Stored \ expired

Init ==
    /\ password \in [Users -> Passwords \union {NoPassword}]
    /\ \A u \in Users : password[u] = NoPassword <=> u \in Newcomers
    /\ portfolio = {u \in Users : password[u] # NoPassword}
    /\ session = [s \in Sids |-> NoUser]
    /\ expired = {} /\ issued = 0 /\ rowless = {}
    /\ cookie = [b \in Browsers |-> 0]
    /\ page = [b \in Browsers |-> "login"]
    /\ busy = [b \in Browsers |-> FALSE]
    /\ typed = [b \in Browsers |-> NoUser]
    /\ req = [t \in Threads |-> Free]
    /\ cmd = [c \in Commands |-> Resting]

\* A request gets a thread of its own; which one does not matter.
FreeThreads == {t \in Threads : req[t].step = "free"}
NextThread == CHOOSE t \in FreeThreads : TRUE

Goto(t, step) == req' = [req EXCEPT ![t].step = step]
Done(t) == req' = [req EXCEPT ![t] = Free]

-----------------------------------------------------------------------------
(* The browser.                                                            *)

\* The link under the form switches its shape, also while a request is out.
SwitchForm(b) ==
    /\ page[b] \in Forms
    /\ \E form \in Forms \ {page[b]} : page' = [page EXCEPT ![b] = form]
    /\ UNCHANGED <<password, portfolio, sessionVars, cookie, busy, typed, req, cmd, rowless>>

\* Mutant: the button works while a request is out.
MutIdleForm(b) == page[b] \in Forms

\* submit: nothing while a request is out.
IdleForm(b) == page[b] \in Forms /\ ~busy[b]

Submit(b, t, u, old, new) ==
    /\ IdleForm(b)
    /\ t \in FreeThreads /\ t = NextThread
    /\ page[b] = "login" => new = NoPassword
    /\ busy' = [busy EXCEPT ![b] = TRUE]
    /\ typed' = [typed EXCEPT ![b] = IF page[b] = "login" THEN u ELSE @]
    /\ req' = [req EXCEPT ![t] = [step |-> "check", kind |-> page[b], from |-> b,
                                  sid |-> 0, user |-> u, old |-> old, new |-> new]]
    /\ UNCHANGED <<password, portfolio, sessionVars, cookie, page, cmd, rowless>>

\* The app asks for a page, or logs out; the request carries the cookie the
\* browser has now.
Visit(b, t, kind) ==
    /\ page[b] = "app"
    /\ t \in FreeThreads /\ t = NextThread
    /\ cookie[b] # 0
    /\ req' = [req EXCEPT ![t] = [Free EXCEPT !.step = IF kind = "logout" THEN "drop" ELSE "read",
                                              !.kind = kind, !.from = b, !.sid = cookie[b]]]
    /\ UNCHANGED <<password, portfolio, sessionVars, browserVars, cmd, rowless>>

\* The login page is loaded; an answer meant for a page that is gone does
\* nothing.
ToLogin(b) == page' = [page EXCEPT ![b] = IF @ = "app" THEN "login" ELSE @]

\* Without a cookie there is no session: a redirect to the login page.
VisitBare(b) ==
    /\ page[b] = "app"
    /\ cookie[b] = 0
    /\ ToLogin(b)
    /\ UNCHANGED <<password, portfolio, sessionVars, cookie, busy, typed, req, cmd, rowless>>

\* The cookie's Max-Age is the session's; a log-out elsewhere leaves it alone.
CookieDies(b) ==
    /\ cookie[b] \notin Live \union {0}
    /\ cookie' = [cookie EXCEPT ![b] = 0]
    /\ UNCHANGED <<password, portfolio, sessionVars, page, busy, typed, req, cmd, rowless>>

\* The form hears that its request failed.
FormFails(b) == busy' = [busy EXCEPT ![b] = FALSE] /\ UNCHANGED <<cookie, page, typed>>

-----------------------------------------------------------------------------
(* POST /api/login.                                                        *)

Matches(t) == password[req[t].user] = req[t].old

\* The password that was shown is not looked at again.
Pass(t) == req' = [req EXCEPT ![t].step = IF req[t].kind = "login" THEN "row" ELSE "put",
                              ![t].old = NoPassword]

\* Mutant: a refused request leaves the form busy.
MutCheck(t) ==
    /\ req[t].step = "check"
    /\ IF Matches(t)
       THEN Pass(t) /\ UNCHANGED browserVars
       ELSE Done(t) /\ UNCHANGED browserVars
    /\ UNCHANGED <<password, portfolio, sessionVars, cmd, rowless>>

\* An unknown user and a wrong password are refused alike, and so is everybody
\* while the table cannot be read.
Check(t) ==
    /\ req[t].step = "check"
    /\ \/ Matches(t) /\ Pass(t) /\ UNCHANGED browserVars
       \/ Done(t) /\ FormFails(req[t].from)
    /\ UNCHANGED <<password, portfolio, sessionVars, cmd, rowless>>

\* Mutant: a row that exists is not there when the write fails.
MutEnsureRow(t) ==
    /\ req[t].step = "row"
    /\ UNCHANGED <<portfolio, rowless>>
    /\ Goto(t, "start")
    /\ UNCHANGED <<password, sessionVars, browserVars, cmd>>

\* ensure_assets_user: a user who has a portfolio keeps it, another one gets a
\* row.  A write that fails does not block the log-in.
EnsureRow(t) ==
    /\ req[t].step = "row"
    /\ IF req[t].user \in portfolio
       THEN UNCHANGED <<portfolio, rowless>>
       ELSE \/ portfolio' = portfolio \union {req[t].user} /\ rowless' = rowless \ {req[t].user}
            \/ rowless' = rowless \union {req[t].user} /\ UNCHANGED portfolio
    /\ Goto(t, "start")
    /\ UNCHANGED <<password, sessionVars, browserVars, cmd>>

\* Mutant: the session of the browser's cookie is taken over.
MutNewSid(t) == IF cookie[req[t].from] # 0 THEN cookie[req[t].from] ELSE issued + 1

\* new_session_id: never one that was used.
NewSid(t) == issued + 1

\* start_session.
Start(t) ==
    /\ req[t].step = "start"
    /\ NewSid(t) \in Sids
    /\ issued' = IF NewSid(t) > issued THEN NewSid(t) ELSE issued
    /\ session' = [session EXCEPT ![NewSid(t)] = req[t].user]
    /\ expired' = expired \ {NewSid(t)}
    /\ req' = [req EXCEPT ![t].step = "answer", ![t].sid = NewSid(t)]
    /\ UNCHANGED <<password, portfolio, browserVars, cmd, rowless>>

\* The browser gets the cookie and goes to the dashboard.
AnswerLogin(t) ==
    LET b == req[t].from IN
    /\ req[t].step = "answer"
    /\ cookie' = [cookie EXCEPT ![b] = req[t].sid]
    /\ page' = [page EXCEPT ![b] = "app"]
    /\ busy' = [busy EXCEPT ![b] = FALSE]
    /\ Done(t)
    /\ UNCHANGED <<password, portfolio, sessionVars, typed, cmd, rowless>>

-----------------------------------------------------------------------------
(* POST /api/reset-password.                                               *)

\* The form is a log-in form again.
FormResets(b) ==
    /\ busy' = [busy EXCEPT ![b] = FALSE]
    /\ page' = [page EXCEPT ![b] = "login"]
    /\ UNCHANGED <<cookie, typed>>

\* set_password: the account is read again, only to leave out a write that
\* changes nothing.
PutPassword(t) ==
    /\ req[t].step = "put"
    /\ password' = [password EXCEPT ![req[t].user] = req[t].new]
    /\ Done(t)
    /\ FormResets(req[t].from)
    /\ UNCHANGED <<portfolio, sessionVars, cmd, rowless>>

-----------------------------------------------------------------------------
(* Requests of the app: read_session, then the page; POST /api/logout.     *)

\* A row that is missing, expired or unreadable is no session.
ReadSession(t) ==
    /\ req[t].step = "read"
    /\ IF req[t].sid \in Live
       THEN req' = [req EXCEPT ![t].step = "serve", ![t].user = session[req[t].sid]]
       ELSE Goto(t, "stale")
    /\ UNCHANGED <<password, portfolio, sessionVars, browserVars, cmd, rowless>>

\* A page, or the charts, of the user the session had when it was read.
Serve(t) ==
    /\ req[t].step = "serve"
    /\ Done(t)
    /\ UNCHANGED <<password, portfolio, sessionVars, browserVars, cmd, rowless>>

\* Mutant: the row is emptied, not removed.
MutDropRow(s) == session' = [session EXCEPT ![s] = NoUser] /\ UNCHANGED <<expired, issued>>

DropRow(s) ==
    /\ session' = [session EXCEPT ![s] = NoUser]
    /\ expired' = expired \ {s}
    /\ UNCHANGED issued

\* The stale row goes and the browser is sent to the login page.
DropStale(t) ==
    /\ req[t].step = "stale"
    /\ DropRow(req[t].sid)
    /\ ToLogin(req[t].from)
    /\ Done(t)
    /\ UNCHANGED <<password, portfolio, cookie, busy, typed, cmd, rowless>>

Logout(t) ==
    /\ req[t].step = "drop"
    /\ DropRow(req[t].sid)
    /\ Goto(t, "answer")
    /\ UNCHANGED <<password, portfolio, browserVars, cmd, rowless>>

\* The answer clears the cookie, whichever the browser has by then.
AnswerLogout(t) ==
    /\ req[t].step = "answer"
    /\ cookie' = [cookie EXCEPT ![req[t].from] = 0]
    /\ ToLogin(req[t].from)
    /\ Done(t)
    /\ UNCHANGED <<password, portfolio, sessionVars, busy, typed, cmd, rowless>>

\* A statement raises (the database is locked) and nobody catches it: the
\* connection is closed without an answer.
Breaks(t) ==
    /\ req[t].step \in {"start", "put", "read", "stale", "drop"}
    /\ IF req[t].kind \in Forms THEN FormFails(req[t].from) ELSE UNCHANGED browserVars
    /\ Done(t)
    /\ UNCHANGED <<password, portfolio, sessionVars, cmd, rowless>>

\* Thirty minutes later.
Expire(s) ==
    /\ s \in Live
    /\ expired' = expired \union {s}
    /\ UNCHANGED <<password, portfolio, session, issued, browserVars, req, cmd, rowless>>

-----------------------------------------------------------------------------
(* The command line.                                                       *)

\* asalloc clear-sessions: the rows there are, or the expired ones among them.
ClearSessions(c, expiredOnly) ==
    /\ cmd[c].step = "rest"
    /\ cmd' = [cmd EXCEPT ![c] = [Resting EXCEPT !.step = "clear",
                    !.todo = IF expiredOnly THEN Stored \intersect expired ELSE Stored]]
    /\ UNCHANGED <<password, portfolio, sessionVars, browserVars, req, rowless>>

ClearOne(c) ==
    /\ cmd[c].step = "clear"
    /\ IF cmd[c].todo = {}
       THEN cmd' = [cmd EXCEPT ![c] = Resting] /\ UNCHANGED sessionVars
       ELSE \E s \in cmd[c].todo :
              DropRow(s) /\ cmd' = [cmd EXCEPT ![c].todo = @ \ {s}]
    /\ UNCHANGED <<password, portfolio, browserVars, req, rowless>>

\* asalloc add-user; new = NoPassword when no password is given.  A new
\* account gets the password, or an empty one; one that exists keeps its own
\* unless there is a new one.  (No thread of the server creates an account, so
\* the look at the table and the write are one step here.)
AddUser(c, u, new) ==
    /\ cmd[c].step = "rest"
    /\ password' = [password EXCEPT ![u] = IF new # NoPassword THEN new
                                           ELSE IF @ = NoPassword THEN EmptyPassword ELSE @]
    /\ cmd' = [cmd EXCEPT ![c] = [step |-> "row", user |-> u, todo |-> {}]]
    /\ UNCHANGED <<portfolio, sessionVars, browserVars, req, rowless>>

AddRow(c) ==
    /\ cmd[c].step = "row"
    /\ portfolio' = portfolio \union {cmd[c].user}
    /\ rowless' = rowless \ {cmd[c].user}
    /\ cmd' = [cmd EXCEPT ![c] = Resting]
    /\ UNCHANGED <<password, sessionVars, browserVars, req>>

-----------------------------------------------------------------------------

FormStep(t) ==
    \/ Check(t) \/ EnsureRow(t) \/ Start(t) \/ PutPassword(t)
    \/ req[t].kind = "login" /\ AnswerLogin(t)

AppStep(t) ==
    \/ ReadSession(t) \/ Serve(t) \/ DropStale(t) \/ Logout(t)
    \/ req[t].kind = "logout" /\ AnswerLogout(t)

BrowserStep(b) ==
    \/ SwitchForm(b) \/ VisitBare(b) \/ CookieDies(b)
    \/ \E t \in Threads :
         \/ \E u \in Users, old \in Passwords, new \in Passwords \union {NoPassword} :
              Submit(b, t, u, old, new)
         \/ \E kind \in {"page", "logout"} : Visit(b, t, kind)

CommandStep(c) ==
    \/ \E only \in BOOLEAN : ClearSessions(c, only)
    \/ \E u \in Newcomers, new \in Passwords \union {NoPassword} : AddUser(c, u, new)
    \/ ClearOne(c) \/ AddRow(c)

Next ==
    \/ \E t \in Threads : FormStep(t) \/ AppStep(t) \/ Breaks(t)
    \/ \E b \in Browsers : BrowserStep(b)
    \/ \E s \in Sids : Expire(s)
    \/ \E c \in Commands : CommandStep(c)

Spec == Init /\ [][Next]_vars

\* A server thread goes on until it has answered (or broken off).  Nobody has
\* to press a button.
FairSpec == Spec /\ \A t \in Threads : WF_vars(FormStep(t) \/ Breaks(t))

-----------------------------------------------------------------------------
(* Properties.                                                             *)

\* Tables, browsers, requests and commands hold values of these kinds.
TypeOK ==
    /\ password \in [Users -> Passwords \union {NoPassword}]
    /\ portfolio \in SUBSET Users
    /\ session \in [Sids -> Users \union {NoUser}]
    /\ expired \subseteq Stored
    /\ Stored \subseteq 1 .. issued
    /\ issued \in 0 .. MaxSids
    /\ cookie \in [Browsers -> 0 .. MaxSids]
    /\ page \in [Browsers -> Forms \union {"app"}]
    /\ busy \in [Browsers -> BOOLEAN]
    /\ typed \in [Browsers -> Users \union {NoUser}]
    /\ rowless \in SUBSET Users
    /\ req \in [Threads -> [step : ReqSteps, kind : Kinds, from : Browsers,
                            sid : 0 .. MaxSids, user : Users \union {NoUser},
                            old : Passwords \union {NoPassword},
                            new : Passwords \union {NoPassword}]]
    /\ cmd \in [Commands -> [step : CmdSteps, user : Users \union {NoUser}, todo : SUBSET Sids]]

\* A log-in is for good, a log-out too: a session that ended - logged out,
\* cleared by the command line, or expired - never answers again, whatever
\* requests and log-ins were under way.
DeadSessionsStayDead ==
    [][\A s \in Sids : s <= issued /\ s \notin Live => s \notin Live']_vars

\* "A known user without a portfolio gets an empty one": whoever has a session
\* has a portfolio row, unless that write failed.
SessionHasPortfolio ==
    \A s \in Stored : session[s] \in portfolio \union rowless

\* The app is the app of the user who logged in last: the answers of two
\* log-ins of one form never cross.
AppOfLatestLogin ==
    \A b \in Browsers :
        page[b] = "app" /\ cookie[b] \in Stored => session[cookie[b]] = typed[b]

\* The form never hangs: every submit ends with the app, an error or a form
\* that can be submitted again.
FormAnswers == \A b \in Browsers : busy[b] ~> ~busy[b]
=============================================================================
