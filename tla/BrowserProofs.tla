----------------------------- MODULE BrowserProofs -----------------------------
(***************************************************************************)
(* Proofs about what a browser is shown: whose app (Sessions) and, in the  *)
(* app, which page (FrontEnd, whose names begin with Doc where both have   *)
(* them).                                                                  *)
(*                                                                         *)
(* Sessions, for any number of browsers, server threads, users and         *)
(* commands: the cookie of the app is right because the form sends one     *)
(* request at a time, which carries the user who typed it from the check   *)
(* of the password to the answer; a dead session stays dead because ids    *)
(* are only handed out upwards.                                            *)
(*                                                                         *)
(* FrontEnd, for any number of navigations, updates and failures: while    *)
(* another view than the one asked for is shown, something that will show  *)
(* it is under way, and the hash sends it there.                           *)
(***************************************************************************)
EXTENDS Sessions, FrontEnd, TLAPS

FormSteps == {"check", "row", "start", "answer", "put"}
AsksForm(t) == req[t].kind \in Forms

\* Which requests and commands are at which step.
WellFormed ==
    /\ \A t \in Threads :
         /\ req[t].step \in {"check", "row", "start", "put"} =>
                AsksForm(t) /\ req[t].user \in Users
         /\ req[t].step \in {"row", "start"} => req[t].kind = "login"
         /\ AsksForm(t) => req[t].step \in FormSteps
    /\ \A c \in Commands : cmd[c].step = "row" => cmd[c].user \in Users

\* Cookies and requests name ids that were handed out.
IssuedIds ==
    /\ \A b \in Browsers : cookie[b] <= issued
    /\ \A t \in Threads : req[t].sid <= issued

\* A form has one request in flight, and is busy meanwhile.
OneForm ==
    \A t \in Threads : AsksForm(t) =>
        /\ busy[req[t].from]
        /\ \A u \in Threads : AsksForm(u) /\ req[u].from = req[t].from => u = t

\* The portfolio row is seen to before the session starts.
RowFirst ==
    \A t \in Threads : req[t].step = "start" => req[t].user \in portfolio \union rowless

\* A log-in under way is the log-in that was typed last, its session is its
\* user's.
AnswersTyped ==
    \A t \in Threads : req[t].kind = "login" =>
        /\ req[t].user = typed[req[t].from]
        /\ req[t].step = "answer" /\ req[t].sid \in Stored => session[req[t].sid] = req[t].user

Requests == WellFormed /\ IssuedIds /\ OneForm /\ AnswersTyped
Portfolios == RowFirst /\ SessionHasPortfolio
IInv == TypeOK /\ Requests /\ Portfolios /\ AppOfLatestLogin

-----------------------------------------------------------------------------
(* Types.                                                                  *)

ReqType == [step : ReqSteps, kind : Kinds, from : Browsers, sid : 0 .. MaxSids,
            user : Users \union {NoUser}, old : Passwords \union {NoPassword},
            new : Passwords \union {NoPassword}]
CmdType == [step : CmdSteps, user : Users \union {NoUser}, todo : SUBSET Sids]
AccountType ==
    /\ password \in [Users -> Passwords \union {NoPassword}]
    /\ portfolio \in SUBSET Users
    /\ rowless \in SUBSET Users
RowType ==
    /\ session \in [Sids -> Users \union {NoUser}]
    /\ expired \subseteq Stored
    /\ Stored \subseteq 1 .. issued
    /\ issued \in 0 .. MaxSids
BrowserType ==
    /\ cookie \in [Browsers -> 0 .. MaxSids]
    /\ page \in [Browsers -> Forms \union {"app"}]
    /\ busy \in [Browsers -> BOOLEAN]
    /\ typed \in [Browsers -> Users \union {NoUser}]

LEMMA TypeParts ==
    TypeOK <=> /\ AccountType /\ RowType /\ BrowserType
               /\ req \in [Threads -> ReqType]
               /\ cmd \in [Commands -> CmdType]
BY DEF TypeOK, AccountType, RowType, BrowserType, ReqType, CmdType

LEMMA FreeType == Free \in ReqType /\ Resting \in CmdType
<1>1. SomeBrowser \in Browsers
  BY SessionsAssumption DEF SomeBrowser
<1> QED
  BY <1>1, SessionsAssumption DEF Free, ReqType, ReqSteps, Kinds, Forms, Resting, CmdType, CmdSteps

\* A row that is dropped is gone, the others are as they were.
LEMMA Dropped ==
    ASSUME RowType, NEW s, DropRow(s)
    PROVE  /\ RowType'
           /\ Stored' = Stored \ {s} /\ Live' = Live \ {s} /\ issued' = issued
           /\ \A x \in Stored' : session'[x] = session[x]
<1>1. \A x \in Sids : session'[x] = IF x = s THEN NoUser ELSE session[x]
  BY DEF DropRow, RowType
<1>2. Stored' = Stored \ {s}
  BY <1>1 DEF Stored
<1>3. RowType'
  BY <1>2 DEF DropRow, RowType
<1> QED BY <1>1, <1>2, <1>3 DEF DropRow, Live, Stored

\* A session that starts has an id nobody had.
LEMMA Started ==
    ASSUME RowType, NEW t \in Threads, Start(t), req[t].user \in Users, NoUser \notin Users
    PROVE  /\ RowType'
           /\ issued' = issued + 1 /\ issued + 1 \in Sids \ Stored
           /\ Stored' = Stored \union {issued + 1} /\ Live' = Live \union {issued + 1}
           /\ session' = [session EXCEPT ![issued + 1] = req[t].user]
<1>1. /\ issued' = issued + 1 /\ issued + 1 \in Sids
      /\ session' = [session EXCEPT ![issued + 1] = req[t].user]
      /\ expired' = expired \ {issued + 1}
  BY DEF Start, NewSid, RowType
<1>2. issued + 1 \notin Stored
  BY DEF RowType
<1>3. Stored' = Stored \union {issued + 1}
  BY <1>1 DEF Stored, RowType
<1>4. RowType'
  <2>1. session' \in [Sids -> Users \union {NoUser}]
    BY <1>1 DEF RowType
  <2>2. expired' \subseteq Stored'
    BY <1>1, <1>3 DEF RowType
  <2>3. issued' \in 0 .. MaxSids /\ Stored' \subseteq 1 .. issued'
    <3>1. MaxSids \in Nat /\ issued \in Nat /\ Stored \subseteq 1 .. issued
      BY SessionsAssumption DEF RowType
    <3>2. issued + 1 \in 1 .. MaxSids
      BY <1>1 DEF Sids
    <3>3. issued' \in 0 .. MaxSids
      BY <1>1, <3>1, <3>2
    <3>4. Stored' \subseteq 1 .. issued'
      BY <1>1, <1>3, <3>1
    <3>. QED
      BY <3>3, <3>4
  <2>. QED
    BY <2>1, <2>2, <2>3 DEF RowType
<1> QED BY <1>1, <1>2, <1>3, <1>4 DEF Live, RowType

LEMMA InitInv == Init => IInv
<1> SUFFICES ASSUME Init PROVE IInv
  OBVIOUS
<1> USE DEF Init
<1>1. Stored = {}
  BY DEF Stored
<1>2. /\ \A t \in Threads : req[t].step = "free" /\ req[t].kind = "page" /\ req[t].sid = 0
      /\ \A c \in Commands : cmd[c].step = "rest"
  BY DEF Free, Resting
<1>3. TypeOK
  <2>1. AccountType /\ RowType
    BY <1>1, SessionsAssumption DEF AccountType, RowType
  <2>2. BrowserType
    BY SessionsAssumption DEF BrowserType, Forms
  <2> QED BY <2>1, <2>2, FreeType, TypeParts
<1>4. Requests
  BY <1>2 DEF Requests, WellFormed, IssuedIds, OneForm, AnswersTyped, AsksForm, Forms
<1>5. Portfolios
  BY <1>1, <1>2 DEF Portfolios, RowFirst, SessionHasPortfolio
<1>6. AppOfLatestLogin
  BY DEF AppOfLatestLogin
<1> QED BY <1>3, <1>4, <1>5, <1>6 DEF IInv

LEMMA TypeStep == IInv /\ [Next]_vars => TypeOK'
<1> SUFFICES ASSUME IInv, [Next]_vars PROVE TypeOK'
  OBVIOUS
<1> USE DEF IInv
<1> DEFINE ReqOK == req' \in [Threads -> ReqType]
           CmdOK == cmd' \in [Commands -> CmdType]
<1>q. ASSUME AccountType', RowType', BrowserType', ReqOK, CmdOK
      PROVE  TypeOK'
  BY <1>q DEF TypeOK, AccountType, RowType, BrowserType, ReqType, CmdType
<1>t. /\ AccountType /\ RowType /\ BrowserType
      /\ req \in [Threads -> ReqType]
      /\ cmd \in [Commands -> CmdType]
  BY TypeParts
<1>w. WellFormed
  BY DEF Requests
<1> HIDE DEF ReqOK, CmdOK
\* What an action leaves alone keeps its type, what it commonly does, too.
<1>a. UNCHANGED <<password, portfolio, rowless>> => AccountType'
  BY <1>t DEF AccountType
<1>s. UNCHANGED sessionVars => RowType'
  BY <1>t DEF sessionVars, RowType, Stored
<1>b. UNCHANGED browserVars => BrowserType'
  BY <1>t DEF browserVars, BrowserType
<1>r. ASSUME NEW t \in Threads, NEW x \in ReqType, req' = [req EXCEPT ![t] = x]
      PROVE  ReqOK
  BY <1>r, <1>t DEF ReqOK
<1>u. (UNCHANGED req => ReqOK) /\ (UNCHANGED cmd => CmdOK)
  BY <1>t DEF ReqOK, CmdOK
<1>g. ASSUME NEW t \in Threads, NEW step \in ReqSteps, Goto(t, step)
      PROVE  ReqOK
  BY <1>g, <1>t DEF Goto, ReqOK, ReqType
<1>d. ASSUME NEW t \in Threads, Done(t)
      PROVE  ReqOK
  BY <1>d, <1>r, FreeType DEF Done
<1>f. ASSUME NEW t \in Threads, FormFails(req[t].from)
      PROVE  BrowserType'
  BY <1>f, <1>t DEF FormFails, BrowserType
<1>l. ASSUME NEW b, ToLogin(b)
      PROVE  page' \in [Browsers -> Forms \union {"app"}]
  BY <1>l, <1>t DEF ToLogin, BrowserType, Forms
<1>1. ASSUME NEW b \in Browsers, SwitchForm(b)
      PROVE  TypeOK'
  <2>1. BrowserType'
    BY <1>1, <1>t DEF SwitchForm, BrowserType, Forms
  <2> QED BY <1>1, <1>q, <1>a, <1>s, <1>u, <2>1 DEF SwitchForm
<1>2. ASSUME NEW b \in Browsers, NEW t \in Threads, NEW u \in Users, NEW old \in Passwords,
             NEW new \in Passwords \union {NoPassword}, Submit(b, t, u, old, new)
      PROVE  TypeOK'
  <2>1. BrowserType'
    BY <1>2, <1>t DEF Submit, BrowserType
  <2>2. ReqOK
    <3>1. page[b] \in Kinds
      BY <1>2 DEF Submit, IdleForm, Kinds
    <3>2. [step |-> "check", kind |-> page[b], from |-> b, sid |-> 0,
           user |-> u, old |-> old, new |-> new] \in ReqType
      BY <3>1, SessionsAssumption DEF ReqType, ReqSteps
    <3> QED BY <1>2, <3>2, <1>r DEF Submit
  <2> QED BY <1>2, <1>q, <1>a, <1>s, <1>u, <2>1, <2>2 DEF Submit
<1>3. ASSUME NEW b \in Browsers, NEW t \in Threads, NEW kind \in {"page", "logout"},
             Visit(b, t, kind)
      PROVE  TypeOK'
  <2>1. [Free EXCEPT !.step = IF kind = "logout" THEN "drop" ELSE "read",
                     !.kind = kind, !.from = b, !.sid = cookie[b]] \in ReqType
    <3>1. kind \in Kinds /\ (IF kind = "logout" THEN "drop" ELSE "read") \in ReqSteps
      BY DEF Kinds, ReqSteps
    <3>2. cookie[b] \in 0 .. MaxSids
      BY <1>t DEF BrowserType
    <3> HIDE DEF Kinds, ReqSteps
    <3> QED BY <3>1, <3>2, FreeType DEF ReqType
  <2> QED BY <1>3, <1>q, <1>a, <1>s, <1>b, <1>u, <1>r, <2>1 DEF Visit
<1>4. ASSUME NEW b \in Browsers, VisitBare(b)
      PROVE  TypeOK'
  <2>1. BrowserType'
    BY <1>4, <1>t, <1>l DEF VisitBare, BrowserType
  <2> QED BY <1>4, <1>q, <1>a, <1>s, <1>u, <2>1 DEF VisitBare
<1>5. ASSUME NEW b \in Browsers, CookieDies(b)
      PROVE  TypeOK'
  <2>1. BrowserType'
    BY <1>5, <1>t, SessionsAssumption DEF CookieDies, BrowserType
  <2> QED BY <1>5, <1>q, <1>a, <1>s, <1>u, <2>1 DEF CookieDies
<1>6. ASSUME NEW t \in Threads, Check(t)
      PROVE  TypeOK'
  <2>1. ASSUME Pass(t) PROVE ReqOK
    <3>1. [req[t] EXCEPT !.step = IF req[t].kind = "login" THEN "row" ELSE "put",
                         !.old = NoPassword] \in ReqType
      <4>1. (IF req[t].kind = "login" THEN "row" ELSE "put") \in ReqSteps
        BY DEF ReqSteps
      <4> HIDE DEF ReqSteps
      <4> QED BY <1>t, <4>1 DEF ReqType
    <3>2. req' = [req EXCEPT ![t] = [req[t] EXCEPT
                    !.step = IF req[t].kind = "login" THEN "row" ELSE "put", !.old = NoPassword]]
      BY <2>1 DEF Pass
    <3> QED BY <3>1, <3>2, <1>r
  <2>2. BrowserType' /\ ReqOK
    BY <1>6, <1>b, <1>d, <1>f, <2>1 DEF Check
  <2> QED BY <1>6, <1>q, <1>a, <1>s, <1>u, <2>2 DEF Check
<1>7. ASSUME NEW t \in Threads, EnsureRow(t)
      PROVE  TypeOK'
  <2>1. AccountType'
    BY <1>7, <1>t, <1>w DEF EnsureRow, AccountType, WellFormed
  <2>2. ReqOK
    BY <1>7, <1>g DEF EnsureRow, ReqSteps
  <2> QED BY <1>7, <1>q, <1>s, <1>b, <1>u, <2>1, <2>2 DEF EnsureRow
<1>8. ASSUME NEW t \in Threads, Start(t)
      PROVE  TypeOK'
  <2>1. req[t].user \in Users
    BY <1>8, <1>w DEF Start, WellFormed
  <2>2. RowType' /\ issued + 1 \in Sids
    BY <1>8, <1>t, <2>1, Started, SessionsAssumption
  <2>3. ReqOK
    <3>1. NewSid(t) \in 0 .. MaxSids
      BY <2>2, SessionsAssumption DEF NewSid, Sids
    <3>2. [req[t] EXCEPT !.step = "answer", !.sid = NewSid(t)] \in ReqType
      <4>1. "answer" \in ReqSteps
        BY DEF ReqSteps
      <4> HIDE DEF ReqSteps
      <4> QED BY <1>t, <3>1, <4>1 DEF ReqType
    <3>3. req' = [req EXCEPT ![t] = [req[t] EXCEPT !.step = "answer", !.sid = NewSid(t)]]
      BY <1>8 DEF Start
    <3> QED BY <3>2, <3>3, <1>r
  <2> QED BY <1>8, <1>q, <1>a, <1>b, <1>u, <2>2, <2>3 DEF Start
<1>9. ASSUME NEW t \in Threads, AnswerLogin(t)
      PROVE  TypeOK'
  <2>1. BrowserType'
    BY <1>9, <1>t DEF AnswerLogin, BrowserType, ReqType
  <2> QED BY <1>9, <1>q, <1>a, <1>s, <1>d, <1>u, <2>1 DEF AnswerLogin
<1>10. ASSUME NEW t \in Threads, PutPassword(t)
       PROVE  TypeOK'
  <2>1. AccountType'
    BY <1>10, <1>t DEF PutPassword, AccountType, ReqType
  <2>2. BrowserType'
    BY <1>10, <1>t DEF PutPassword, FormResets, BrowserType, Forms
  <2> QED BY <1>10, <1>q, <1>s, <1>d, <1>u, <2>1, <2>2 DEF PutPassword
<1>11. ASSUME NEW t \in Threads, ReadSession(t)
       PROVE  TypeOK'
  <2>1. ReqOK
    <3>1. CASE req[t].sid \in Live
      <4>1. [req[t] EXCEPT !.step = "serve", !.user = session[req[t].sid]] \in ReqType
        <5>1. "serve" \in ReqSteps /\ session[req[t].sid] \in Users \union {NoUser}
          BY <1>t, <3>1 DEF ReqSteps, RowType, Live, Stored
        <5> HIDE DEF ReqSteps
        <5> QED BY <1>t, <5>1 DEF ReqType
      <4>2. req' = [req EXCEPT ![t] = [req[t] EXCEPT !.step = "serve",
                                                     !.user = session[req[t].sid]]]
        BY <1>11, <3>1 DEF ReadSession
      <4> QED BY <4>1, <4>2, <1>r
    <3>2. CASE req[t].sid \notin Live
      BY <1>11, <1>g, <3>2 DEF ReadSession, ReqSteps
    <3> QED BY <3>1, <3>2
  <2> QED BY <1>11, <1>q, <1>a, <1>s, <1>b, <1>u, <2>1 DEF ReadSession
<1>12. ASSUME NEW t \in Threads, Serve(t)
       PROVE  TypeOK'
  BY <1>12, <1>q, <1>a, <1>s, <1>b, <1>d, <1>u DEF Serve
<1>13. ASSUME NEW t \in Threads, DropStale(t)
       PROVE  TypeOK'
  <2>1. BrowserType'
    BY <1>13, <1>t, <1>l DEF DropStale, BrowserType
  <2>2. RowType'
    BY <1>13, <1>t, Dropped DEF DropStale
  <2> QED BY <1>13, <1>q, <1>a, <1>d, <1>u, <2>1, <2>2 DEF DropStale
<1>14. ASSUME NEW t \in Threads, Logout(t)
       PROVE  TypeOK'
  <2>1. RowType' /\ ReqOK
    BY <1>14, <1>t, <1>g, Dropped DEF Logout, ReqSteps
  <2> QED BY <1>14, <1>q, <1>a, <1>b, <1>u, <2>1 DEF Logout
<1>15. ASSUME NEW t \in Threads, AnswerLogout(t)
       PROVE  TypeOK'
  <2>0. page' \in [Browsers -> Forms \union {"app"}]
    BY <1>15, <1>l DEF AnswerLogout
  <2>1. BrowserType'
    <3>1. 0 \in 0 .. MaxSids
      BY SessionsAssumption
    <3>2. cookie' \in [Browsers -> 0 .. MaxSids]
      BY <1>15, <1>t, <3>1 DEF AnswerLogout, BrowserType
    <3>3. UNCHANGED <<busy, typed>>
      BY <1>15 DEF AnswerLogout
    <3> QED BY <1>t, <2>0, <3>2, <3>3 DEF BrowserType
  <2> QED BY <1>15, <1>q, <1>a, <1>s, <1>d, <1>u, <2>1 DEF AnswerLogout
<1>16. ASSUME NEW t \in Threads, Breaks(t)
       PROVE  TypeOK'
  <2>1. BrowserType'
    BY <1>16, <1>b, <1>f DEF Breaks
  <2> QED BY <1>16, <1>q, <1>a, <1>s, <1>d, <1>u, <2>1 DEF Breaks
<1>17. ASSUME NEW s \in Sids, Expire(s)
       PROVE  TypeOK'
  <2>1. RowType'
    BY <1>17, <1>t DEF Expire, RowType, Stored, Live
  <2> QED BY <1>17, <1>q, <1>a, <1>b, <1>u, <2>1 DEF Expire
<1>18. ASSUME NEW c \in Commands, NEW only \in BOOLEAN, ClearSessions(c, only)
       PROVE  TypeOK'
  <2>1. CmdOK
    <3>1. Stored \subseteq Sids
      BY DEF Stored
    <3>2. ASSUME NEW todo \in SUBSET Sids
          PROVE  [Resting EXCEPT !.step = "clear", !.todo = todo] \in CmdType
      BY FreeType DEF CmdType, CmdSteps, Resting
    <3>3. (IF only THEN Stored \intersect expired ELSE Stored) \in SUBSET Sids
      BY <3>1
    <3> QED BY <1>18, <1>t, <3>2, <3>3 DEF ClearSessions, CmdOK
  <2> QED BY <1>18, <1>q, <1>a, <1>s, <1>b, <1>u, <2>1 DEF ClearSessions
<1>19. ASSUME NEW c \in Commands, ClearOne(c)
       PROVE  TypeOK'
  <2>1. RowType'
    BY <1>19, <1>t, <1>s, Dropped DEF ClearOne
  <2>2. CmdOK
    BY <1>19, <1>t, FreeType DEF ClearOne, CmdOK, CmdType
  <2> QED BY <1>19, <1>q, <1>a, <1>b, <1>u, <2>1, <2>2 DEF ClearOne
<1>20. ASSUME NEW c \in Commands, NEW u \in Newcomers, NEW new \in Passwords \union {NoPassword},
              AddUser(c, u, new)
       PROVE  TypeOK'
  <2>1. u \in Users /\ EmptyPassword \in Passwords
    BY SessionsAssumption DEF EmptyPassword
  <2>2. AccountType'
    BY <1>20, <1>t, <2>1 DEF AddUser, AccountType
  <2>3. CmdOK
    BY <1>20, <1>t, <2>1 DEF AddUser, CmdOK, CmdType, CmdSteps
  <2> QED BY <1>20, <1>q, <1>s, <1>b, <1>u, <2>2, <2>3 DEF AddUser
<1>21. ASSUME NEW c \in Commands, AddRow(c)
       PROVE  TypeOK'
  <2>1. AccountType'
    BY <1>21, <1>t, <1>w DEF AddRow, AccountType, WellFormed
  <2>2. CmdOK
    BY <1>21, <1>t, FreeType DEF AddRow, CmdOK
  <2> QED BY <1>21, <1>q, <1>s, <1>b, <1>u, <2>1, <2>2 DEF AddRow
<1>22. CASE UNCHANGED vars
  BY <1>22, <1>q, <1>a, <1>s, <1>b, <1>u DEF vars
<1> QED
  BY <1>1, <1>2, <1>3, <1>4, <1>5, <1>6, <1>7, <1>8, <1>9, <1>10, <1>11, <1>12, <1>13, <1>14,
     <1>15, <1>16, <1>17, <1>18, <1>19, <1>20, <1>21, <1>22
     DEF Next, FormStep, AppStep, BrowserStep, CommandStep

-----------------------------------------------------------------------------
(* Requests: one ends, one goes on, all wait, one is sent.                 *)

\* Sessions that were there keep their user or go.
RowsKept ==
    /\ issued <= issued'
    /\ \A x \in Stored' : x <= issued => x \in Stored /\ session'[x] = session[x]

\* An answer, an error, a connection that breaks off.
LEMMA RequestEnds ==
    ASSUME TypeOK, TypeOK', Requests, NEW t \in Threads, Done(t), RowsKept,
           UNCHANGED <<typed, cmd>>,
           \A b \in Browsers : busy'[b] = busy[b] \/ (AsksForm(t) /\ b = req[t].from),
           \A b \in Browsers : cookie'[b] <= issued'
    PROVE  Requests'
<1>t. req \in [Threads -> ReqType] /\ issued \in Nat /\ issued' \in Nat
  BY DEF TypeOK, ReqType
<1>1. /\ req'[t].step = "free" /\ req'[t].kind = "page" /\ req'[t].sid = 0
      /\ \A u \in Threads : u # t => req'[u] = req[u]
  BY <1>t DEF Done, Free
<1>2. WellFormed'
  BY <1>1 DEF Requests, WellFormed, AsksForm, Forms
<1>3. IssuedIds'
  BY <1>1, <1>t DEF Requests, IssuedIds, RowsKept, ReqType
<1>4. OneForm'
  BY <1>1, <1>t DEF Requests, OneForm, AsksForm, Forms, ReqType
<1>5. AnswersTyped'
  BY <1>1 DEF Requests, AnswersTyped, IssuedIds, RowsKept
<1> QED BY <1>2, <1>3, <1>4, <1>5 DEF Requests

\* A statement and the way to the next.
LEMMA RequestGoesOn ==
    ASSUME TypeOK, TypeOK', Requests, NEW t \in Threads, RowsKept,
           UNCHANGED <<browserVars, cmd>>,
           \A u \in Threads : u # t => req'[u] = req[u],
           req'[t].kind = req[t].kind, req'[t].from = req[t].from,
           AsksForm(t) => req'[t].user = req[t].user,
           req'[t].step \in {"check", "row", "start", "put"} => AsksForm(t) /\ req'[t].user \in Users,
           req'[t].step \in {"row", "start"} => req[t].kind = "login",
           AsksForm(t) => req'[t].step \in FormSteps,
           req'[t].sid <= issued',
           req[t].kind = "login" /\ req'[t].step = "answer" => session'[req'[t].sid] = req[t].user
    PROVE  Requests'
<1>t. /\ req \in [Threads -> ReqType] /\ issued \in Nat /\ issued' \in Nat
      /\ cookie \in [Browsers -> Nat]
  BY DEF TypeOK, ReqType
<1>1. WellFormed'
  BY DEF Requests, WellFormed, AsksForm
<1>2. IssuedIds'
  BY <1>t DEF Requests, IssuedIds, RowsKept, ReqType, browserVars
<1>3. OneForm'
  BY DEF Requests, OneForm, AsksForm, browserVars
<1>4. AnswersTyped'
  <2>1. ASSUME NEW u \in Threads, u # t
        PROVE  req'[u].kind = "login" =>
                  /\ req'[u].user = typed'[req'[u].from]
                  /\ req'[u].step = "answer" /\ req'[u].sid \in Stored' =>
                         session'[req'[u].sid] = req'[u].user
    BY <2>1 DEF Requests, AnswersTyped, IssuedIds, RowsKept, browserVars
  <2>2. req'[t].kind = "login" =>
            /\ req'[t].user = typed'[req'[t].from]
            /\ req'[t].step = "answer" => session'[req'[t].sid] = req'[t].user
    BY DEF Requests, AnswersTyped, browserVars, AsksForm, Forms
  <2> QED BY <2>1, <2>2 DEF AnswersTyped
<1> QED BY <1>1, <1>2, <1>3, <1>4 DEF Requests

\* Something else happens.
LEMMA RequestsWait ==
    ASSUME TypeOK, TypeOK', Requests, RowsKept, UNCHANGED <<req, busy, typed>>,
           \A b \in Browsers : cookie'[b] <= issued',
           \A c \in Commands : cmd'[c].step = "row" => cmd'[c].user \in Users
    PROVE  Requests'
<1>t. req \in [Threads -> ReqType] /\ issued \in Nat /\ issued' \in Nat
  BY DEF TypeOK, ReqType
<1>1. WellFormed'
  BY DEF Requests, WellFormed, AsksForm
<1>2. IssuedIds'
  BY <1>t DEF Requests, IssuedIds, RowsKept, ReqType
<1>3. OneForm'
  BY DEF Requests, OneForm, AsksForm
<1>4. AnswersTyped'
  BY DEF Requests, AnswersTyped, IssuedIds, RowsKept
<1> QED BY <1>1, <1>2, <1>3, <1>4 DEF Requests

\* The form sends its request.
LEMMA FormSends ==
    ASSUME TypeOK, TypeOK', Requests, NEW b \in Browsers, NEW t \in Threads, NEW u \in Users,
           NEW old \in Passwords, NEW new \in Passwords \union {NoPassword},
           Submit(b, t, u, old, new)
    PROVE  Requests'
<1>t. /\ req \in [Threads -> ReqType] /\ issued \in Nat
      /\ busy \in [Browsers -> BOOLEAN] /\ typed \in [Browsers -> Users \union {NoUser}]
  BY DEF TypeOK, ReqType
<1>1. /\ req'[t].step = "check" /\ req'[t].kind = page[b] /\ req'[t].from = b
      /\ req'[t].sid = 0 /\ req'[t].user = u
      /\ \A x \in Threads : x # t => req'[x] = req[x]
      /\ page[b] \in Forms
  BY <1>t DEF Submit, IdleForm
<1>2. /\ busy' = [busy EXCEPT ![b] = TRUE] /\ ~busy[b]
      /\ UNCHANGED <<cookie, issued, session, cmd>> /\ Stored' = Stored
  BY DEF Submit, IdleForm, sessionVars, Stored
<1>3. /\ page[b] = "login" => typed'[b] = u
      /\ \A c \in Browsers : c # b => typed'[c] = typed[c]
  BY <1>t DEF Submit
<1>4. \A x \in Threads : AsksForm(x) => req[x].from # b
  BY <1>2 DEF Requests, OneForm
<1>5. WellFormed'
  BY <1>1, <1>2 DEF Requests, WellFormed, AsksForm, FormSteps
<1>6. IssuedIds'
  BY <1>1, <1>2, <1>t DEF Requests, IssuedIds
<1>7. OneForm'
  BY <1>1, <1>2, <1>4, <1>t DEF Requests, OneForm, AsksForm, ReqType
<1>8. AnswersTyped'
  BY <1>1, <1>2, <1>3, <1>4, <1>t DEF Requests, AnswersTyped, AsksForm, Forms, ReqType
<1> QED BY <1>5, <1>6, <1>7, <1>8 DEF Requests

\* So does the app.
LEMMA AppSends ==
    ASSUME TypeOK, TypeOK', Requests, NEW b \in Browsers, NEW t \in Threads,
           NEW kind \in {"page", "logout"}, Visit(b, t, kind)
    PROVE  Requests'
<1>t. req \in [Threads -> ReqType] /\ issued \in Nat
  BY DEF TypeOK, ReqType
<1>1. /\ req'[t].step \in {"drop", "read"} /\ req'[t].kind \in {"page", "logout"}
      /\ req'[t].sid = cookie[b]
      /\ \A x \in Threads : x # t => req'[x] = req[x]
  BY <1>t DEF Visit, Free
<1>2. UNCHANGED <<cookie, busy, typed, issued, session, cmd>> /\ Stored' = Stored
  BY DEF Visit, sessionVars, browserVars, Stored
<1>3. WellFormed'
  BY <1>1, <1>2 DEF Requests, WellFormed, AsksForm, Forms
<1>4. IssuedIds'
  BY <1>1, <1>2 DEF Requests, IssuedIds
<1>5. OneForm'
  BY <1>1, <1>2 DEF Requests, OneForm, AsksForm, Forms
<1>6. AnswersTyped'
  BY <1>1, <1>2 DEF Requests, AnswersTyped
<1> QED BY <1>3, <1>4, <1>5, <1>6 DEF Requests

\* Only a log-in adds a session, and it adds a new one.
LEMMA RowsStep ==
    ASSUME TypeOK, Requests, [Next]_vars
    PROVE  /\ RowsKept
           /\ (\E t \in Threads : Start(t)) \/ (issued' = issued /\ Live' \subseteq Live)
<1>t. RowType /\ issued \in Nat
  BY DEF TypeOK, RowType
<1> DEFINE Goal == RowsKept /\ issued' = issued /\ Live' \subseteq Live
<1>1. ASSUME UNCHANGED sessionVars PROVE Goal
  BY <1>1, <1>t DEF sessionVars, RowsKept, Live, Stored
<1>2. ASSUME NEW s, DropRow(s) PROVE Goal
  BY <1>2, <1>t, Dropped DEF RowsKept
<1>3. ASSUME NEW s \in Sids, Expire(s) PROVE Goal
  BY <1>3, <1>t DEF Expire, RowsKept, Live, Stored
<1>4. ASSUME NEW t \in Threads, Start(t) PROVE RowsKept
  <2>1. req[t].user \in Users
    BY <1>4 DEF Start, Requests, WellFormed
  <2>2. /\ issued' = issued + 1 /\ Stored' = Stored \union {issued + 1}
        /\ session' = [session EXCEPT ![issued + 1] = req[t].user]
    BY <1>4, <2>1, <1>t, Started, SessionsAssumption
  <2>3. Stored \subseteq Sids /\ session \in [Sids -> Users \union {NoUser}]
    BY <1>t DEF RowType, Stored
  <2>4. ASSUME NEW x \in Stored', x <= issued
        PROVE  x \in Stored /\ session'[x] = session[x]
    BY <1>t, <2>2, <2>3, <2>4 DEF Sids
  <2> QED BY <1>t, <2>2, <2>4 DEF RowsKept
<1>5. ASSUME NEW t \in Threads, FormStep(t) \/ AppStep(t) \/ Breaks(t)
      PROVE  Start(t) \/ UNCHANGED sessionVars \/ \E s : DropRow(s)
  BY <1>5 DEF FormStep, AppStep, Breaks, Check, EnsureRow, PutPassword, AnswerLogin,
     ReadSession, Serve, DropStale, Logout, AnswerLogout
<1>6. ASSUME NEW b \in Browsers, BrowserStep(b)
      PROVE  UNCHANGED sessionVars
  BY <1>6 DEF BrowserStep, SwitchForm, VisitBare, CookieDies, Submit, Visit
<1>7. ASSUME NEW c \in Commands, CommandStep(c)
      PROVE  UNCHANGED sessionVars \/ \E s : DropRow(s)
  BY <1>7 DEF CommandStep, ClearSessions, AddUser, ClearOne, AddRow
<1>8. CASE UNCHANGED vars
  BY <1>8, <1>1 DEF vars
<1> QED BY <1>1, <1>2, <1>3, <1>4, <1>5, <1>6, <1>7, <1>8 DEF Next

LEMMA RequestStep == IInv /\ [Next]_vars => Requests'
<1> SUFFICES ASSUME IInv, [Next]_vars PROVE Requests'
  OBVIOUS
<1> USE DEF IInv
<1>t. /\ req \in [Threads -> ReqType] /\ issued \in Nat
      /\ busy \in [Browsers -> BOOLEAN] /\ cookie \in [Browsers -> Nat]
      /\ cmd \in [Commands -> CmdType] /\ issued' \in Nat
      /\ TypeOK /\ TypeOK'
  BY TypeStep DEF TypeOK, ReqType, CmdType
<1>k. RowsKept
  BY RowsStep
<1>c. (UNCHANGED cookie => \A b \in Browsers : cookie'[b] <= issued')
  BY <1>t, <1>k DEF RowsKept, Requests, IssuedIds
<1>m. UNCHANGED cmd => \A c \in Commands : cmd'[c].step = "row" => cmd'[c].user \in Users
  BY DEF Requests, WellFormed
<1>b. ASSUME NEW b \in Browsers, BrowserStep(b)
      PROVE  Requests'
  <2>1. CASE SwitchForm(b) \/ VisitBare(b)
    BY <2>1, <1>t, <1>k, <1>c, <1>m, RequestsWait DEF SwitchForm, VisitBare
  <2>2. CASE CookieDies(b)
    <3>1. \A x \in Browsers : cookie'[x] <= issued'
      BY <2>2, <1>t, <1>k DEF CookieDies, sessionVars, Requests, IssuedIds
    <3> QED BY <2>2, <3>1, <1>t, <1>k, <1>m, RequestsWait DEF CookieDies
  <2> QED BY <1>b, <2>1, <2>2, <1>t, FormSends, AppSends DEF BrowserStep
<1>1. ASSUME NEW t \in Threads, Check(t)
      PROVE  Requests'
  <2>1. CASE Done(t) /\ FormFails(req[t].from)
    <3>1. AsksForm(t)
      BY <1>1 DEF Check, Requests, WellFormed
    <3>2. /\ UNCHANGED <<typed, cmd, cookie>>
          /\ \A b \in Browsers : busy'[b] = busy[b] \/ (AsksForm(t) /\ b = req[t].from)
      BY <1>1, <1>t, <2>1, <3>1 DEF Check, FormFails
    <3> QED BY <1>t, <1>k, <1>c, <2>1, <3>2, RequestEnds
  <2>2. CASE Pass(t) /\ UNCHANGED browserVars
    <3> DEFINE step == IF req[t].kind = "login" THEN "row" ELSE "put"
    <3>1. /\ \A u \in Threads : u # t => req'[u] = req[u]
          /\ req'[t].kind = req[t].kind /\ req'[t].from = req[t].from
          /\ req'[t].user = req[t].user /\ req'[t].sid = req[t].sid
          /\ req'[t].step = step
      BY <2>2, <1>t DEF Pass, ReqType
    <3>2. AsksForm(t) /\ req[t].user \in Users
      BY <1>1 DEF Check, Requests, WellFormed
    <3>3. UNCHANGED <<browserVars, cmd, issued>>
      BY <1>1, <2>2 DEF Check, sessionVars
    <3>4. req'[t].sid <= issued'
      BY <3>1, <3>3 DEF Requests, IssuedIds
    <3>5. step \in {"row", "put"} /\ (step = "row" => req[t].kind = "login")
      OBVIOUS
    <3> HIDE DEF step
    <3> QED BY <3>1, <3>2, <3>3, <3>4, <3>5, <1>t, <1>k, RequestGoesOn DEF FormSteps
  <2> QED BY <1>1, <2>1, <2>2 DEF Check
<1>2. ASSUME NEW t \in Threads, EnsureRow(t)
      PROVE  Requests'
  <2>1. /\ \A u \in Threads : u # t => req'[u] = req[u]
        /\ req'[t].kind = req[t].kind /\ req'[t].from = req[t].from
        /\ req'[t].user = req[t].user /\ req'[t].sid = req[t].sid
        /\ req'[t].step = "start" /\ req[t].step = "row"
        /\ UNCHANGED <<browserVars, cmd, issued>>
    BY <1>2, <1>t DEF EnsureRow, Goto, ReqType, sessionVars
  <2>2. AsksForm(t) /\ req[t].user \in Users /\ req[t].kind = "login" /\ req[t].sid <= issued
    BY <2>1 DEF Requests, WellFormed, IssuedIds
  <2> QED BY <2>1, <2>2, <1>t, <1>k, RequestGoesOn DEF FormSteps
<1>3. ASSUME NEW t \in Threads, Start(t)
      PROVE  Requests'
  <2>1. AsksForm(t) /\ req[t].user \in Users /\ req[t].kind = "login"
    BY <1>3 DEF Start, Requests, WellFormed
  <2>2. /\ \A u \in Threads : u # t => req'[u] = req[u]
        /\ req'[t].kind = req[t].kind /\ req'[t].from = req[t].from
        /\ req'[t].user = req[t].user /\ req'[t].sid = issued + 1
        /\ req'[t].step = "answer"
        /\ UNCHANGED <<browserVars, cmd>>
    BY <1>3, <1>t DEF Start, NewSid, ReqType
  <2>3. issued' = issued + 1 /\ session'[issued + 1] = req[t].user
    BY <1>3, <1>t, <2>1, Started, TypeParts, SessionsAssumption DEF RowType
  <2> QED BY <2>1, <2>2, <2>3, <1>t, <1>k, RequestGoesOn DEF FormSteps
<1>4. ASSUME NEW t \in Threads, req[t].kind = "login", AnswerLogin(t)
      PROVE  Requests'
  <2>1. /\ \A b \in Browsers : busy'[b] = busy[b] \/ (AsksForm(t) /\ b = req[t].from)
        /\ UNCHANGED <<typed, cmd, issued>>
    BY <1>4, <1>t DEF AnswerLogin, AsksForm, Forms, sessionVars
  <2>2. \A b \in Browsers : cookie'[b] <= issued'
    BY <1>4, <1>t, <2>1 DEF AnswerLogin, Requests, IssuedIds
  <2> QED BY <1>4, <2>1, <2>2, <1>t, <1>k, RequestEnds DEF AnswerLogin
<1>5. ASSUME NEW t \in Threads, PutPassword(t)
      PROVE  Requests'
  <2>1. AsksForm(t)
    BY <1>5 DEF PutPassword, Requests, WellFormed
  <2>2. /\ \A b \in Browsers : busy'[b] = busy[b] \/ (AsksForm(t) /\ b = req[t].from)
        /\ UNCHANGED <<typed, cmd, cookie>>
    BY <1>5, <1>t, <2>1 DEF PutPassword, FormResets
  <2> QED BY <1>5, <2>2, <1>c, <1>t, <1>k, RequestEnds DEF PutPassword
<1>6. ASSUME NEW t \in Threads, ReadSession(t) \/ Logout(t)
      PROVE  Requests'
  <2>1. ~AsksForm(t)
    BY <1>6 DEF ReadSession, Logout, Requests, WellFormed, FormSteps
  <2>2. /\ \A u \in Threads : u # t => req'[u] = req[u]
        /\ req'[t].kind = req[t].kind /\ req'[t].from = req[t].from
        /\ req'[t].sid = req[t].sid
        /\ req'[t].step \in {"serve", "stale", "answer"}
        /\ UNCHANGED <<browserVars, cmd, issued>>
    BY <1>6, <1>t DEF ReadSession, Logout, Goto, DropRow, ReqType, sessionVars
  <2>3. req[t].sid <= issued
    BY DEF Requests, IssuedIds
  <2> QED BY <2>1, <2>2, <2>3, <1>t, <1>k, RequestGoesOn DEF AsksForm, Forms
<1>7. ASSUME NEW t \in Threads, Serve(t)
      PROVE  Requests'
  <2>1. UNCHANGED <<cookie, busy, typed, cmd>>
    BY <1>7 DEF Serve, browserVars
  <2> QED BY <1>7, <2>1, <1>c, <1>t, <1>k, RequestEnds DEF Serve
<1>8. ASSUME NEW t \in Threads, DropStale(t)
      PROVE  Requests'
  BY <1>8, <1>c, <1>t, <1>k, RequestEnds DEF DropStale
<1>9. ASSUME NEW t \in Threads, AnswerLogout(t)
      PROVE  Requests'
  <2>1. \A b \in Browsers : cookie'[b] <= issued'
    BY <1>9, <1>t, <1>k DEF AnswerLogout, RowsKept, Requests, IssuedIds
  <2> QED BY <1>9, <2>1, <1>t, <1>k, RequestEnds DEF AnswerLogout
<1>10. ASSUME NEW t \in Threads, Breaks(t)
       PROVE  Requests'
  <2>1. /\ \A b \in Browsers : busy'[b] = busy[b] \/ (AsksForm(t) /\ b = req[t].from)
        /\ UNCHANGED <<typed, cookie, cmd>>
    BY <1>10, <1>t DEF Breaks, FormFails, AsksForm, browserVars
  <2> QED BY <1>10, <2>1, <1>c, <1>t, <1>k, RequestEnds DEF Breaks
<1>11. ASSUME NEW s \in Sids, Expire(s)
       PROVE  Requests'
  <2>1. UNCHANGED <<req, busy, typed, cookie, cmd>>
    BY <1>11 DEF Expire, browserVars
  <2> QED BY <2>1, <1>c, <1>m, <1>t, <1>k, RequestsWait
<1>12. ASSUME NEW c \in Commands, CommandStep(c)
       PROVE  Requests'
  <2>1. UNCHANGED <<req, busy, typed, cookie>>
    BY <1>12 DEF CommandStep, ClearSessions, ClearOne, AddUser, AddRow, browserVars
  <2>2. \A d \in Commands : cmd'[d].step = "row" => cmd'[d].user \in Users
    <3>1. ASSUME NEW d \in Commands, d # c PROVE cmd'[d] = cmd[d]
      BY <1>12, <1>t, <3>1 DEF CommandStep, ClearSessions, ClearOne, AddUser, AddRow
    <3>2. ASSUME NEW only \in BOOLEAN, ClearSessions(c, only) PROVE cmd'[c].step = "clear"
      BY <3>2, <1>t DEF ClearSessions, Resting
    <3>3. ClearOne(c) => cmd'[c].step \in {"rest", "clear"}
      BY <1>t DEF ClearOne, Resting, CmdType
    <3>4. ASSUME NEW u \in Newcomers, NEW new \in Passwords \union {NoPassword},
                 AddUser(c, u, new)
          PROVE  cmd'[c].user \in Users
      BY <3>4, <1>t, SessionsAssumption DEF AddUser
    <3>5. AddRow(c) => cmd'[c].step = "rest"
      BY <1>t DEF AddRow, Resting
    <3>6. cmd'[c].step = "row" => cmd'[c].user \in Users
      BY <1>12, <3>2, <3>3, <3>4, <3>5 DEF CommandStep
    <3> QED BY <3>1, <3>6 DEF Requests, WellFormed
  <2> QED BY <2>1, <2>2, <1>c, <1>t, <1>k, RequestsWait
<1>13. CASE UNCHANGED vars
  BY <1>13, <1>c, <1>m, <1>t, <1>k, RequestsWait DEF vars, browserVars
<1> QED
  BY <1>b, <1>1, <1>2, <1>3, <1>4, <1>5, <1>6, <1>7, <1>8, <1>9, <1>10, <1>11, <1>12, <1>13
     DEF Next, FormStep, AppStep

-----------------------------------------------------------------------------
(* Portfolio rows.                                                         *)

\* Nobody who has a row, or whose row could not be written, is forgotten.
LEMMA RowsOfUsersStay ==
    ASSUME [Next]_vars
    PROVE  portfolio \union rowless \subseteq portfolio' \union rowless'
BY DEF Next, vars, FormStep, AppStep, BrowserStep, CommandStep, Check, EnsureRow, Start,
   PutPassword, AnswerLogin, ReadSession, Serve, DropStale, Logout, AnswerLogout, Breaks,
   SwitchForm, VisitBare, CookieDies, Submit, Visit, Expire, ClearSessions, AddUser,
   ClearOne, AddRow

\* Only EnsureRow leads to the start of a session.
LEMMA OnlyRowStarts ==
    ASSUME TypeOK, [Next]_vars, NEW t \in Threads, req'[t].step = "start"
    PROVE  EnsureRow(t) \/ req'[t] = req[t]
<1>t. req \in [Threads -> ReqType]
  BY TypeParts
<1> SUFFICES ASSUME req'[t] # req[t] PROVE EnsureRow(t)
  OBVIOUS
<1>1. ASSUME NEW u \in Threads, Done(u) PROVE FALSE
  BY <1>1, <1>t DEF Done, Free
<1>2. ASSUME NEW u \in Threads, NEW step \in {"stale", "answer"}, Goto(u, step) PROVE FALSE
  BY <1>2, <1>t DEF Goto, ReqType
<1>3. ASSUME NEW u \in Threads, Pass(u) PROVE FALSE
  BY <1>3, <1>t DEF Pass, ReqType
<1>4. ASSUME NEW u \in Threads, Start(u) \/ ReadSession(u) PROVE FALSE
  BY <1>2, <1>4, <1>t DEF Start, ReadSession, ReqType
<1>5. ASSUME NEW u \in Threads, EnsureRow(u) PROVE EnsureRow(t)
  BY <1>5, <1>t DEF EnsureRow, Goto
<1>6. ASSUME NEW b \in Browsers, BrowserStep(b) PROVE FALSE
  <2>1. ASSUME NEW u \in Threads, NEW x \in Users, NEW old \in Passwords,
               NEW new \in Passwords \union {NoPassword}, Submit(b, u, x, old, new)
        PROVE  FALSE
    BY <2>1, <1>t DEF Submit
  <2>2. ASSUME NEW u \in Threads, NEW kind \in {"page", "logout"}, Visit(b, u, kind)
        PROVE  FALSE
    BY <2>2, <1>t DEF Visit, Free
  <2> QED BY <1>6, <2>1, <2>2 DEF BrowserStep, SwitchForm, VisitBare, CookieDies
<1>7. ASSUME NEW u \in Threads, FormStep(u) \/ AppStep(u) \/ Breaks(u) PROVE EnsureRow(t)
  BY <1>1, <1>2, <1>3, <1>4, <1>5, <1>7 DEF FormStep, AppStep, Breaks, Check, PutPassword,
     AnswerLogin, Serve, DropStale, Logout, AnswerLogout
<1> QED
  BY <1>6, <1>7 DEF Next, vars, Expire, CommandStep, ClearSessions, ClearOne, AddUser, AddRow

LEMMA PortfolioStep == IInv /\ [Next]_vars => Portfolios'
<1> SUFFICES ASSUME IInv, [Next]_vars PROVE Portfolios'
  OBVIOUS
<1> USE DEF IInv
<1>t. req \in [Threads -> ReqType] /\ RowType
  BY TypeParts
<1>1. RowFirst'
  <2>1. ASSUME NEW t \in Threads, req'[t].step = "start"
        PROVE  req'[t].user \in portfolio' \union rowless'
    <3>1. CASE req'[t] = req[t]
      BY <2>1, <3>1, RowsOfUsersStay DEF Portfolios, RowFirst
    <3>2. CASE EnsureRow(t)
      <4>1. req'[t].user = req[t].user
        BY <3>2, <1>t DEF EnsureRow, Goto, ReqType
      <4> QED BY <3>2, <4>1 DEF EnsureRow
    <3> QED BY <2>1, <3>1, <3>2, OnlyRowStarts
  <2> QED BY <2>1 DEF RowFirst
<1>2. SessionHasPortfolio'
  <2>1. ASSUME NEW t \in Threads, Start(t)
        PROVE  SessionHasPortfolio'
    <3>1. req[t].user \in Users /\ req[t].user \in portfolio \union rowless
      BY <2>1 DEF Start, Requests, WellFormed, Portfolios, RowFirst
    <3>2. /\ Stored' = Stored \union {issued + 1} /\ issued + 1 \in Sids
          /\ session' = [session EXCEPT ![issued + 1] = req[t].user]
      BY <2>1, <3>1, <1>t, Started, SessionsAssumption
    <3>3. Stored \subseteq Sids
      BY DEF Stored
    <3> QED BY <1>t, <3>1, <3>2, <3>3, RowsOfUsersStay DEF Portfolios, SessionHasPortfolio, RowType
  <2>2. CASE issued' = issued
    <3>1. \A x \in Stored' : x <= issued
      <4>1. Stored' \subseteq 1 .. issued'
        BY TypeStep DEF TypeOK
      <4> QED BY <4>1, <2>2, <1>t DEF RowType
    <3>2. \A x \in Stored' : x \in Stored /\ session'[x] = session[x]
      BY <3>1, RowsStep DEF RowsKept
    <3> QED BY <3>2, RowsOfUsersStay DEF Portfolios, SessionHasPortfolio
  <2> QED BY <2>1, <2>2, RowsStep
<1> QED BY <1>1, <1>2 DEF Portfolios

-----------------------------------------------------------------------------
(* The app.                                                                *)

\* What may happen to a browser: its page turns into the app by the answer of a
\* log-in, who typed last changes on a form, and the cookie of an app otherwise
\* only goes.
LEMMA BrowserMoves ==
    ASSUME TypeOK, [Next]_vars, NEW b \in Browsers
    PROVE  \/ \E t \in Threads : req[t].kind = "login" /\ req[t].from = b /\ AnswerLogin(t)
           \/ page'[b] # "app"
           \/ page[b] = "app" /\ typed'[b] = typed[b] /\ cookie'[b] \in {cookie[b], 0}
<1>t. BrowserType /\ req \in [Threads -> ReqType]
  BY TypeParts
<1> DEFINE Goal == \/ page'[b] # "app"
                   \/ page[b] = "app" /\ typed'[b] = typed[b] /\ cookie'[b] \in {cookie[b], 0}
<1>1. ASSUME UNCHANGED browserVars PROVE Goal
  BY <1>1 DEF browserVars
<1>2. ASSUME NEW c, FormFails(c) PROVE Goal
  BY <1>2 DEF FormFails
<1>3. ASSUME NEW c, ToLogin(c), UNCHANGED <<cookie, typed>> PROVE Goal
  BY <1>3, <1>t DEF ToLogin, BrowserType
<1>4. ASSUME NEW c \in Browsers, BrowserStep(c) PROVE Goal
  <2>1. SwitchForm(c) => Goal
    BY <1>t DEF SwitchForm, BrowserType, Forms
  <2>2. CookieDies(c) => Goal
    BY <1>t DEF CookieDies, BrowserType
  <2>3. ASSUME NEW t \in Threads, NEW u \in Users, NEW old \in Passwords,
               NEW new \in Passwords \union {NoPassword}, Submit(c, t, u, old, new)
        PROVE  Goal
    BY <2>3, <1>t DEF Submit, IdleForm, BrowserType, Forms
  <2> QED BY <1>4, <2>1, <2>2, <2>3, <1>1, <1>3 DEF BrowserStep, VisitBare, Visit
<1>5. ASSUME NEW t \in Threads, req[t].kind = "login", AnswerLogin(t)
      PROVE  req[t].from = b \/ Goal
  BY <1>5, <1>t DEF AnswerLogin, BrowserType
<1>6. ASSUME NEW t \in Threads, PutPassword(t) PROVE Goal
  BY <1>6, <1>t DEF PutPassword, FormResets, BrowserType
<1>7. ASSUME NEW t \in Threads, AnswerLogout(t) PROVE Goal
  BY <1>7, <1>t DEF AnswerLogout, ToLogin, BrowserType
<1>8. ASSUME NEW t \in Threads, FormStep(t) \/ AppStep(t) \/ Breaks(t)
      PROVE  Goal \/ (req[t].kind = "login" /\ req[t].from = b /\ AnswerLogin(t))
  BY <1>8, <1>1, <1>2, <1>3, <1>5, <1>6, <1>7 DEF FormStep, AppStep, Breaks, Check, EnsureRow,
     Start, ReadSession, Serve, DropStale, Logout
<1> QED
  BY <1>1, <1>4, <1>8 DEF Next, vars, Expire, CommandStep, ClearSessions, ClearOne, AddUser, AddRow

LEMMA AppStepKeeps == IInv /\ [Next]_vars => AppOfLatestLogin'
<1> SUFFICES ASSUME IInv, [Next]_vars, NEW b \in Browsers, page'[b] = "app", cookie'[b] \in Stored'
             PROVE  session'[cookie'[b]] = typed'[b]
  BY DEF AppOfLatestLogin
<1> USE DEF IInv
<1>t. BrowserType /\ RowType /\ req \in [Threads -> ReqType]
  BY TypeParts
<1>1. CASE page[b] = "app" /\ typed'[b] = typed[b] /\ cookie'[b] \in {cookie[b], 0}
  <2>1. cookie'[b] = cookie[b]
    BY <1>1 DEF Stored, Sids
  <2>2. cookie[b] \in Stored /\ session'[cookie[b]] = session[cookie[b]]
    BY <2>1, RowsStep DEF RowsKept, Requests, IssuedIds
  <2> QED BY <1>1, <2>1, <2>2 DEF AppOfLatestLogin
<1>2. ASSUME NEW t \in Threads, req[t].kind = "login", req[t].from = b, AnswerLogin(t)
      PROVE  session'[cookie'[b]] = typed'[b]
  <2>1. /\ cookie'[b] = req[t].sid /\ UNCHANGED <<typed, session>> /\ Stored' = Stored
        /\ req[t].step = "answer"
    BY <1>2, <1>t DEF AnswerLogin, BrowserType, sessionVars, Stored
  <2> QED BY <1>2, <2>1 DEF Requests, AnswersTyped
<1> QED BY <1>1, <1>2, BrowserMoves

-----------------------------------------------------------------------------
(* Theorems.                                                               *)

LEMMA Invariance == Spec => []IInv
<1>1. IInv /\ [Next]_vars => IInv'
  BY TypeStep, RequestStep, PortfolioStep, AppStepKeeps DEF IInv
<1> QED BY <1>1, InitInv, PTL DEF Spec

\* Tables, browsers, requests and commands hold values of their kinds; only
\* stored sessions are expired, and stored sessions have ids that were issued.
THEOREM TypeCorrect == Spec => []TypeOK
BY Invariance, PTL DEF IInv

\* Every session is of a user with a portfolio row, or one whose row could not
\* be written (ensure_assets_user before start_session).
THEOREM SessionsHavePortfolios == Spec => []SessionHasPortfolio
BY Invariance, PTL DEF IInv, Portfolios

\* The app shows what the user who logged in last in this browser may see,
\* whatever log-ins, log-outs, resets and clearings crossed (state.busy of the
\* form, new_session_id).
THEOREM LatestLoginShows == Spec => []AppOfLatestLogin
BY Invariance, PTL DEF IInv

\* A session that ended is never live again.
THEOREM NoResurrection == Spec => DeadSessionsStayDead
<1>1. TypeOK /\ Requests /\ [Next]_vars =>
          [\A s \in Sids : s <= issued /\ s \notin Live => s \notin Live']_vars
  <2> SUFFICES ASSUME TypeOK, Requests, [Next]_vars, NEW s \in Sids, s <= issued, s \notin Live
               PROVE  s \notin Live'
    OBVIOUS
  <2>1. ASSUME NEW t \in Threads, Start(t) PROVE s \notin Live'
    <3>1. req[t].user \in Users
      BY <2>1 DEF Start, Requests, WellFormed
    <3>2. Live' = Live \union {issued + 1} /\ issued \in Nat
      BY <2>1, <3>1, Started, TypeParts, SessionsAssumption DEF RowType
    <3> QED BY <3>2 DEF Sids
  <2> QED BY <2>1, RowsStep
<1> QED BY <1>1, Invariance, PTL DEF IInv, Spec, DeadSessionsStayDead

-----------------------------------------------------------------------------
(* The document of the dashboard, once the app is shown.                   *)

\* The pages that show the views.
Pages == [view : Views, busy : {"no", "own", "html"}, input : {"none", "cell", "draft"}]

DocType ==
    /\ home \in Views /\ hash \in Views /\ asked \in Views
    /\ body \in Pages
    /\ cache \in [Views -> Pages \union {NoPage}]
    /\ events \in Nat /\ timer \in BOOLEAN
    /\ fetches \in [Views -> {"none", "current", "stale"}]
    /\ revals \in Nat

\* viewCache files a page under its own view.
FiledRight == \A v \in Views : cache[v] = NoPage \/ cache[v].view = v

\* The location names the view asked for, but in a document of the edit page
\* that was just loaded: its URL has no hash, and nothing is under way in it.
HashIsAsked ==
    \/ hash = asked
    \/ /\ home = "constituents" /\ hash = "dashboard" /\ asked = "constituents"
       /\ body.view = "constituents"
       /\ events = 0 /\ ~timer /\ revals = 0
       /\ \A v \in Views : fetches[v] = "none"

\* While another view than the one asked for is shown, the event, the fetch or
\* the timer that will show it is under way, and the hash sends it there.
AskedIsComing ==
    body.view # asked =>
        /\ hash = asked
        /\ \/ events > 0
           \/ fetches[asked] = "current"
           \/ timer /\ asked = "constituents"

\* The inductive invariant.
DInv == DocType /\ FiledRight /\ HashIsAsked /\ AskedIsComing
viewVars == <<home, hash, body, cache, events, timer, fetches, revals, asked>>

\* There are two views, and filing a page keeps its view.
LEMMA DocViews ==
    /\ Other("dashboard") = "constituents" /\ Other("constituents") = "dashboard"
    /\ \A v \in Views : Page(v) \in Pages /\ Page(v).view = v
    /\ \A b \in Pages : AsHtml(b) \in Pages /\ AsHtml(b).view = b.view
<1>1. /\ \A w \in Views : w # "dashboard" <=> w = "constituents"
      /\ \A w \in Views : w # "constituents" <=> w = "dashboard"
      /\ "dashboard" \in Views /\ "constituents" \in Views
  BY DEF Views
<1>2. Other("dashboard") = "constituents" /\ Other("constituents") = "dashboard"
  BY <1>1 DEF Other
<1>3. \A v \in Views : Page(v) \in Pages /\ Page(v).view = v
  BY DEF Page, Pages
<1>4. \A b \in Pages : AsHtml(b) \in Pages /\ AsHtml(b).view = b.view
  BY DEF AsHtml, Pages
<1>. QED
  BY <1>2, <1>3, <1>4

\* Asking for the view the hash names: it is shown from the cache, or its fetch
\* is on the way.
LEMMA ShowKeeps ==
    ASSUME DocType, FiledRight, NEW v \in Views, NEW b \in Pages, b.view = body.view,
           Show(v, b), hash' = v, asked' = v, home' \in Views,
           events' \in Nat, timer' \in BOOLEAN
    PROVE  DInv'
<1>. DEFINE stash == Stashed(v, b)
<1>1. stash \in [Views -> Pages \union {NoPage}]
  BY DocViews DEF Stashed, DocType
<1>2. \A w \in Views : stash[w] = NoPage \/ stash[w].view = w
  BY DocViews DEF Stashed, DocType, FiledRight
<1>3. Superseded(fetches) \in [Views -> {"none", "current", "stale"}]
  BY DocViews DEF Superseded, DocType
<1>4. Revalidations(v) \in Nat
  BY DEF Revalidations, DocType
<1>. HIDE DEF stash
<1>5. CASE stash[v] # NoPage
  <2>1. /\ body' = stash[v] /\ cache' = stash /\ fetches' = Superseded(fetches)
        /\ revals' = Revalidations(v)
    BY <1>5 DEF Show, Render, stash
  <2>2. stash[v] \in Pages /\ stash[v].view = v
    BY <1>1, <1>2, <1>5
  <2>. QED
    BY <1>1, <1>2, <1>3, <1>4, <2>1, <2>2
       DEF DInv, DocType, FiledRight, HashIsAsked, AskedIsComing
<1>6. CASE stash[v] = NoPage
  <2>1. /\ body' = b /\ cache' = stash /\ revals' = revals
        /\ fetches' = [Superseded(fetches) EXCEPT ![v] = "current"]
    BY <1>6 DEF Show, StayAs, stash
  <2>. QED
    BY <1>1, <1>2, <1>3, <2>1
       DEF DInv, DocType, FiledRight, HashIsAsked, AskedIsComing
<1>. QED
  BY <1>5, <1>6

\* A document that was just loaded shows the view of its URL.
LEMMA LoadKeeps ==
    ASSUME NEW v \in Views, LoadDocument(v), asked' = v
    PROVE  DInv'
<1>1. /\ home' = v /\ hash' = "dashboard" /\ body' = Page(v)
      /\ cache' = [w \in Views |-> NoPage] /\ events' = 0 /\ timer' = FALSE
      /\ fetches' = [w \in Views |-> "none"] /\ revals' = 0
  BY DocViews DEF LoadDocument
<1>2. "dashboard" \in Views /\ Page(v) \in Pages /\ Page(v).view = v
  BY DocViews DEF Views
<1>. QED
  BY <1>1, <1>2 DEF DInv, DocType, FiledRight, HashIsAsked, AskedIsComing, Views

\* What changes neither the page's view nor what is under way keeps the invariant.
LEMMA SameViewKeeps ==
    ASSUME DInv, body' \in Pages, body'.view = body.view,
           UNCHANGED <<home, hash, cache, events, timer, fetches, revals, asked>>
    PROVE  DInv'
BY DEF DInv, DocType, FiledRight, HashIsAsked, AskedIsComing

\* goDashboard asks for the dashboard and shows it.
LEMMA GoDashboardKeeps ==
    ASSUME DInv, GoDashboard
    PROVE  DInv'
<1>1. /\ "dashboard" \in Views /\ hash' = "dashboard" /\ asked' = "dashboard"
      /\ home' \in Views /\ events' \in Nat /\ timer' \in BOOLEAN
      /\ body \in Pages
  BY DEF GoDashboard, DInv, DocType, Views
<1>. QED
  BY <1>1, ShowKeeps DEF GoDashboard, DInv

\* Every callback of switcher.js keeps the invariant.
LEMMA NavigateKeeps ==
    ASSUME DInv, Navigate
    PROVE  DInv'
<1>. USE DocViews
<1>1. ASSUME Edit PROVE DInv'
  <2>. DEFINE b == [body EXCEPT !.busy = "no"]
  <2>1. b \in Pages /\ b.view = body.view /\ "constituents" \in Views
    BY DEF DInv, DocType, Pages, Views
  <2>2. GoConstituents(b)
    BY <1>1 DEF Edit
  <2>. HIDE DEF b
  <2>3. CASE hash = "constituents"
    <3>1. /\ Show("constituents", b) /\ asked' = "constituents"
          /\ UNCHANGED <<hash, events, timer, home>>
      BY <2>2, <2>3 DEF GoConstituents
    <3>. QED
      BY <2>1, <2>3, <3>1, ShowKeeps DEF DInv, DocType
  <2>4. CASE hash # "constituents"
    <3>1. /\ body' = b /\ asked' = "constituents" /\ hash' = "constituents"
          /\ events' = events + 1 /\ timer' = TRUE
          /\ UNCHANGED <<home, cache, fetches, revals>>
      BY <2>2, <2>4 DEF GoConstituents, StayAs
    <3>. QED
      BY <2>1, <3>1 DEF DInv, DocType, FiledRight, HashIsAsked, AskedIsComing
  <2>. QED
    BY <2>3, <2>4
<1>2. ASSUME Leave PROVE DInv'
  <2>1. CASE dirty
    <3>1. UNCHANGED viewVars
      BY <1>2, <2>1 DEF Leave, navVars, viewVars
    <3>. QED
      BY <3>1, SameViewKeeps DEF viewVars, DInv, DocType
  <2>2. CASE ~dirty
    BY <1>2, <2>2, GoDashboardKeeps DEF Leave
  <2>. QED
    BY <2>1, <2>2
<1>3. ASSUME GoAnswered PROVE DInv'
  <2>1. CASE post.step = "failed"
    <3>1. UNCHANGED viewVars
      BY <1>3, <2>1 DEF GoAnswered, navVars, pageVars, viewVars
    <3>. QED
      BY <3>1, SameViewKeeps DEF viewVars, DInv, DocType
  <2>2. CASE post.step # "failed"
    BY <1>3, <2>2, GoDashboardKeeps DEF GoAnswered
  <2>. QED
    BY <2>1, <2>2
<1>4. ASSUME ChangeHash PROVE DInv'
  <2>1. /\ hash' \in Views /\ asked' = hash' /\ events' = 1 /\ home = "dashboard"
        /\ UNCHANGED <<home, body, cache, fetches, revals, timer>>
    BY <1>4 DEF ChangeHash, pageVars, DInv, DocType, Views
  <2>. QED
    BY <2>1 DEF DInv, DocType, FiledRight, HashIsAsked, AskedIsComing
<1>5. ASSUME HashChange PROVE DInv'
  <2>1. /\ hash = asked /\ Show(hash, body) /\ events' = events - 1 /\ events > 0
        /\ UNCHANGED <<home, hash, timer, asked>>
    BY <1>5 DEF HashChange, DInv, DocType, HashIsAsked
  <2>2. events' \in Nat
    BY <2>1 DEF DInv, DocType
  <2>. QED
    BY <2>1, <2>2, ShowKeeps DEF DInv, DocType
<1>6. ASSUME SafetyTimer PROVE DInv'
  <2>1. /\ hash = asked /\ timer' = FALSE
        /\ UNCHANGED <<home, hash, events, asked>>
    BY <1>6 DEF SafetyTimer, DInv, HashIsAsked
  <2>2. CASE hash = "constituents" /\ body.view # "constituents"
    <3>1. Show(hash, body)
      BY <1>6, <2>2 DEF SafetyTimer
    <3>. QED
      BY <2>1, <3>1, ShowKeeps DEF DInv, DocType
  <2>3. CASE ~(hash = "constituents" /\ body.view # "constituents")
    <3>1. UNCHANGED <<body, cache, fetches, revals>>
      BY <1>6, <2>3 DEF SafetyTimer, pageVars
    <3>. QED
      BY <2>1, <2>3, <3>1 DEF DInv, DocType, FiledRight, HashIsAsked, AskedIsComing
  <2>. QED
    BY <2>2, <2>3
<1>7. ASSUME Reload PROVE DInv'
  BY <1>7, LoadKeeps DEF Reload, DInv, DocType
<1>8. ASSUME NEW v \in Views, FetchAnswered(v) PROVE DInv'
  <2>1. /\ fetches[v] # "none" /\ hash = asked
        /\ fetches' = [fetches EXCEPT ![v] = "none"]
        /\ UNCHANGED <<home, hash, events, timer, asked>>
    BY <1>8 DEF FetchAnswered, navVars, DInv, HashIsAsked
  <2>2. /\ cache' \in [Views -> Pages \union {NoPage}]
        /\ \A w \in Views : cache'[w] = NoPage \/ cache'[w].view = w
    BY <1>8 DEF FetchAnswered, DInv, DocType, FiledRight
  <2>3. CASE fetches[v] = "current" /\ hash = v
    <3>1. body' = Page(v) /\ revals' = Revalidations(v)
      BY <1>8, <2>3 DEF FetchAnswered, Render
    <3>2. revals' \in Nat
      BY <3>1 DEF Revalidations, DInv, DocType
    <3>. QED
      BY <2>1, <2>2, <2>3, <3>1, <3>2
         DEF DInv, DocType, FiledRight, HashIsAsked, AskedIsComing
  <2>4. CASE ~(fetches[v] = "current" /\ hash = v)
    <3>1. UNCHANGED <<body, revals>>
      BY <1>8, <2>4 DEF FetchAnswered, StayAs
    <3>. QED
      BY <2>1, <2>2, <2>4, <3>1
         DEF DInv, DocType, FiledRight, HashIsAsked, AskedIsComing
  <2>. QED
    BY <2>3, <2>4
<1>9. ASSUME NEW v \in Views, FetchFails(v) PROVE DInv'
  <2>1. CASE fetches[v] = "current"
    BY <1>9, <2>1, LoadKeeps DEF FetchFails
  <2>2. CASE fetches[v] # "current"
    <3>1. /\ fetches' = [fetches EXCEPT ![v] = "none"] /\ fetches[v] # "none"
          /\ UNCHANGED <<home, hash, body, cache, events, timer, revals, asked>>
      BY <1>9, <2>2 DEF FetchFails, navVars
    <3>. QED
      BY <2>2, <3>1 DEF DInv, DocType, FiledRight, HashIsAsked, AskedIsComing
  <2>. QED
    BY <2>1, <2>2
<1>10. ASSUME Revalidated PROVE DInv'
  <2>1. /\ hash = asked /\ revals' = revals - 1 /\ revals' \in Nat
        /\ UNCHANGED <<home, hash, events, timer, fetches, asked>>
    BY <1>10 DEF Revalidated, navVars, DInv, DocType, HashIsAsked
  <2>2. /\ cache' \in [Views -> Pages \union {NoPage}]
        /\ \A w \in Views : cache'[w] = NoPage \/ cache'[w].view = w
    BY <1>10 DEF Revalidated, DInv, DocType, FiledRight, Views
  <2>3. \/ body' = body
        \/ hash = "constituents" /\ body' = Page("constituents")
    BY <1>10 DEF Revalidated, Render, StayAs
  <2>. QED
    BY <2>1, <2>2, <2>3
       DEF DInv, DocType, FiledRight, HashIsAsked, AskedIsComing, Views
<1>11. ASSUME RevalidationFails PROVE DInv'
  <2>1. /\ hash = asked /\ revals' \in Nat
        /\ UNCHANGED <<home, hash, body, cache, events, timer, fetches, asked>>
    BY <1>11 DEF RevalidationFails, navVars, DInv, DocType, HashIsAsked
  <2>. QED
    BY <2>1 DEF DInv, DocType, FiledRight, HashIsAsked, AskedIsComing
<1>. QED
  BY <1>1, <1>2, <1>3, <1>4, <1>5, <1>6, <1>7, <1>8, <1>9, <1>10, <1>11
     DEF Navigate

\* Editing rows keeps the page, and so does the update unless it loads it anew.
LEMMA RowsAndUpdateKeep ==
    ASSUME DInv, EditRows \/ Update
    PROVE  DInv'
<1>. DEFINE Still == body' \in Pages /\ body'.view = body.view
                     /\ UNCHANGED <<home, hash, cache, events, timer, fetches, revals, asked>>
<1>0. body \in Pages
  BY DEF DInv, DocType
<1>1. ASSUME TypeInCell \/ SaveCell PROVE Still
  BY <1>0, <1>1 DEF TypeInCell, SaveCell, navVars, Pages
<1>2. ASSUME OpenDraft \/ DraftOpens \/ DiscardDraft PROVE Still
  BY <1>0, <1>2 DEF OpenDraft, DraftOpens, DiscardDraft, navVars, Pages
<1>3. ASSUME ConfirmDraft \/ RowAdded \/ DraftFails PROVE Still
  BY <1>0, <1>3 DEF ConfirmDraft, RowAdded, DraftFails, navVars, Pages
<1>4. ASSUME Sync PROVE Still
  BY <1>0, <1>4 DEF Sync, navVars, Pages
<1>5. ASSUME PostServed \/ OtherRun \/ RunEnds \/ Cancelled PROVE Still
  BY <1>0, <1>5 DEF PostServed, OtherRun, RunEnds, Cancelled, pageVars,
                    navVars
<1>6. ASSUME SyncAnswered PROVE Still \/ DInv'
  <2>1. CASE post.step = "done"
    BY <1>6, <2>1, LoadKeeps DEF SyncAnswered, DInv, DocType
  <2>2. CASE post.step # "done"
    <3>1. /\ body' = [body EXCEPT !.busy = IF @ = "own" THEN "no" ELSE @]
          /\ UNCHANGED <<home, hash, cache, events, timer, fetches, revals, asked>>
      BY <1>6, <2>2 DEF SyncAnswered, navVars
    <3>. QED
      BY <1>0, <3>1 DEF Pages
  <2>. QED
    BY <2>1, <2>2
<1>7. ASSUME NEW o \in BOOLEAN, Poll(o) PROVE Still \/ DInv'
  <2>1. CASE ~run /\ o /\ ~started /\ lastOk
    BY <1>7, <2>1, LoadKeeps DEF Poll, DInv, DocType
  <2>2. CASE ~(~run /\ o /\ ~started /\ lastOk)
    BY <1>0, <1>7, <2>2 DEF Poll, navVars
  <2>. QED
    BY <2>1, <2>2
<1>8. ASSUME NEW o \in BOOLEAN, PollGivesUp(o) PROVE Still
  BY <1>0, <1>8 DEF PollGivesUp, navVars
<1>9. Still => DInv'
  BY SameViewKeeps
<1>. HIDE DEF Still
<1>. QED
  BY <1>1, <1>2, <1>3, <1>4, <1>5, <1>6, <1>7, <1>8, <1>9 DEF EditRows, Update

\* The invariant holds from the first paint on.
LEMMA DocInvariance == DocSpec => []DInv
<1>1. DocInit => DInv
  <2>. SUFFICES ASSUME DocInit PROVE DInv
    OBVIOUS
  <2>1. /\ home = "dashboard" /\ hash \in Views /\ asked = hash
        /\ body = Page("dashboard") /\ cache = [v \in Views |-> NoPage]
        /\ events = 0 /\ timer = FALSE /\ revals = 0
        /\ fetches = [v \in Views |->
                        IF v = hash /\ v = "constituents" THEN "current" ELSE "none"]
    BY DocViews DEF DocInit
  <2>2. "dashboard" \in Views /\ body \in Pages /\ body.view = "dashboard"
    BY <2>1, DocViews DEF Views
  <2>. QED
    BY <2>1, <2>2 DEF DInv, DocType, FiledRight, HashIsAsked, AskedIsComing, Views
<1>2. DInv /\ [DocNext]_(docVars) => DInv'
  <2>1. ASSUME DInv, UNCHANGED docVars PROVE DInv'
    BY <2>1, SameViewKeeps DEF docVars, pageVars, navVars, DInv, DocType
  <2>. QED
    BY <2>1, NavigateKeeps, RowsAndUpdateKeep DEF DocNext
<1>. QED
  BY <1>1, <1>2, PTL DEF DocSpec

\* Clicks are counted.
ClickCount == clicks \in Nat

LEMMA ClicksCounted == DocSpec => []ClickCount
<1>1. DocInit => ClickCount
  BY DEF DocInit, ClickCount
<1>2. ASSUME Navigate PROVE clicks' = clicks \/ clicks' = clicks + 1
  BY <1>2 DEF Navigate, Edit, Click, Leave, GoAnswered, ChangeHash,
              HashChange, SafetyTimer, Reload, FetchAnswered,
              FetchFails, Revalidated, RevalidationFails
<1>3. ASSUME EditRows PROVE clicks' = clicks
  BY <1>3 DEF EditRows, TypeInCell, SaveCell, OpenDraft, DraftOpens,
              DiscardDraft, ConfirmDraft, RowAdded, DraftFails
<1>4. ASSUME Update PROVE clicks' = clicks
  BY <1>4 DEF Update, Sync, PostServed, OtherRun, RunEnds,
              Cancelled, SyncAnswered, Poll, PollGivesUp
<1>5. ClickCount /\ [DocNext]_(docVars) => ClickCount'
  BY <1>2, <1>3, <1>4 DEF DocNext, docVars, ClickCount
<1>. QED
  BY <1>1, <1>5, PTL DEF DocSpec

\* As soon as no navigation is under way, the page shown is the one asked for,
\* whatever answers came late, out of order or twice, and no page is cached under
\* the name of the other view (navSeq and the hash checks of switcher.js).
THEOREM ShownIsAsked == DocSpec => []SettledShowsAsked
<1>1. DInv => SettledShowsAsked
  BY DocViews DEF DInv, DocType, FiledRight, AskedIsComing, SettledShowsAsked, Settled
<1>. QED
  BY <1>1, DocInvariance, PTL

\* No late answer takes away a row being drafted or a cell being typed into:
\* only the user, another view or a new document ends it (isConstituentsClean).
THEOREM InputIsKept == DocSpec => InputStays
<1>. DEFINE Excused == \/ SaveCell \/ DiscardDraft \/ RowAdded
                       \/ clicks' # clicks \/ GoAnswered
                       \/ SyncAnswered \/ \E o \in BOOLEAN : Poll(o)
            Kept == Settled /\ body.input # "none" /\ body'.input = "none" => Excused
<1>1. ASSUME ClickCount, Navigate PROVE Kept
  <2>. SUFFICES ASSUME Settled, body.input # "none" PROVE Excused \/ body' = body
    OBVIOUS
  <2>1. events = 0 /\ ~timer /\ \A v \in Views : fetches[v] # "current"
    BY DocViews DEF Settled
  <2>. QED
    BY <1>1, <2>1, DocViews
       DEF ClickCount, Navigate, Edit, Click, Leave, ChangeHash, HashChange,
           SafetyTimer, Reload, FetchAnswered, FetchFails,
           Revalidated, RevalidationFails, StayAs, Clean, pageVars
<1>2. ASSUME DInv, EditRows \/ Update PROVE Kept
  <2>. SUFFICES ASSUME body.input # "none" PROVE Excused \/ body'.input # "none"
    OBVIOUS
  <2>1. body \in Pages
    BY <1>2 DEF DInv, DocType
  <2>2. CASE EditRows
    BY <2>1, <2>2
       DEF EditRows, TypeInCell, OpenDraft, DraftOpens, ConfirmDraft,
           DraftFails, Pages
  <2>3. CASE Update
    BY <2>1, <2>3
       DEF Update, Sync, PostServed, OtherRun, RunEnds,
           Cancelled, PollGivesUp, pageVars, Pages
  <2>. QED
    BY <1>2, <2>2, <2>3
<1>3. UNCHANGED docVars => Kept
  BY DEF docVars, pageVars
<1>4. DInv /\ ClickCount /\ [DocNext]_(docVars) => [Kept]_(docVars)
  BY <1>1, <1>2, <1>3 DEF DocNext
<1>. QED
  BY <1>4, DocInvariance, ClicksCounted, PTL DEF DocSpec, InputStays
================================================================================
