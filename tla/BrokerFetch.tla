------------------------------ MODULE BrokerFetch ------------------------------
(***************************************************************************)
(* Reading a broker's holdings: the OSKAR cockpit in a headless browser    *)
(* (scrape/oskar.py), Scalable through its sc command with a device login  *)
(* in a headless browser (scrape/scalable.py), Trade Republic through pytr *)
(* (scrape/traderepublic.py).                                              *)
(*                                                                         *)
(* A page is reduced to which screen it shows, the cockpit's tree to the   *)
(* sub-rows that are open, the text of a row to whether it already holds   *)
(* its amount.  Deadlines are actions that may happen while a loop waits.  *)
(***************************************************************************)
EXTENDS Integers, FiniteSets, Sequences

CONSTANTS
    Isins,
    NoFigure    \* None

Brokers == {"oskar", "scalable", "traderepublic"}

\* What a broker can report: its ISINs, an overnight account (Tagesgeld), cash.
Offered(b) ==
    CASE b = "oskar" -> Isins \union {"overnight"}
      [] b = "scalable" -> Isins \union {"overnight", "cash"}
      [] b = "traderepublic" -> Isins \union {"cash"}

\* The amount a broker reports for a holding.
ScrapedValue == 6
Texts == {"none", "partial", "full"}

VARIABLES
    account,    \* what the user holds at each broker
    broker,     \* the broker being read
    fstep,      \* where the reading is
    page,       \* the screen the headless browser shows
    browser,    \* it is open
    sc,         \* the sc login process
    session,    \* logged in at the broker
    todo,       \* OSKAR: sub-rows still to expand
    opened,     \* OSKAR: sub-rows that are open
    seen,       \* OSKAR: what the merged snapshots know of each row
    missed,     \* a failure was swallowed on the way
    fetched     \* the holdings read: [id -> value]

fetchVars == <<account, broker, fstep, page, browser, sc, session, todo,
               opened, seen, missed, fetched>>
scrapeVars == <<todo, opened, seen>>

NoHoldings == [i \in {} |-> NoFigure]
Unseen == [i \in Offered("oskar") |-> "none"]

FetchInit ==
    /\ account \in [Brokers -> SUBSET (Isins \union {"overnight", "cash"})]
    /\ \A b \in Brokers : account[b] \subseteq Offered(b)
    /\ broker = "oskar"
    /\ fstep = "idle"
    /\ page = "blank"
    /\ browser = FALSE
    /\ sc = "none"
    /\ session = FALSE
    /\ todo = {} /\ opened = {} /\ seen = Unseen
    /\ missed = FALSE
    /\ fetched = NoHoldings

At(b, s) == broker = b /\ fstep = s

\* The fetch functions begin with no rows.
StartFetch(b) ==
    /\ broker' = b
    /\ fstep' = IF b = "oskar" THEN "open" ELSE "login"
    /\ page' = "blank"
    /\ todo' = Offered("oskar") /\ opened' = {} /\ seen' = Unseen
    /\ missed' = FALSE
    /\ fetched' = NoHoldings
    /\ UNCHANGED <<account, browser, sc, session>>

\* An exception: the finally blocks log out and close the browser.
Raise ==
    /\ fstep' = "raised"
    /\ fetched' = NoHoldings
    /\ UNCHANGED <<account, broker, page, browser, sc, session, scrapeVars, missed>>

Turn(s) ==
    /\ fstep' = s
    /\ UNCHANGED <<account, broker, sc, scrapeVars, missed, fetched>>

-----------------------------------------------------------------------------
(* OSKAR.                                                                  *)

\* The browser lands on the dashboard, or on the way to the login form.
OpenCockpit ==
    /\ At("oskar", "open")
    /\ \/ Raise
       \/ /\ browser' = TRUE
          /\ page' \in {"blank", "dashboard"}
          /\ Turn("signin")
          /\ UNCHANGED session

\* The redirect the browser is in leads somewhere.
PageArrives ==
    /\ At("oskar", "signin")
    /\ page = "blank"
    /\ page' \in {"form", "dashboard"}
    /\ Turn("signin")
    /\ UNCHANGED <<browser, session>>

\* Only the URL tells logged-in from logged-out.
OnDashboard == page = "dashboard"

SignedIn ==
    /\ At("oskar", "signin")
    /\ OnDashboard
    /\ session' = TRUE
    /\ Turn("allocation")
    /\ UNCHANGED <<page, browser>>

\* The form is filled from two prompts and submitted; a rejected login shows it
\* again.
Submit ==
    /\ At("oskar", "signin")
    /\ page = "form"
    /\ page' = "blank"
    /\ Turn("signin")
    /\ UNCHANGED <<browser, session>>

\* Mutant: a login that is never accepted prompts for ever.
MutSignInFails ==
    /\ At("oskar", "signin")
    /\ page = "form"
    /\ Raise

\* No terminal to prompt on, or the deadline of the login has passed.
SignInFails ==
    /\ At("oskar", "signin")
    /\ ~OnDashboard
    /\ Raise

\* The tab is clicked and the widget waited for, both until a deadline.
OpenAllocation ==
    /\ At("oskar", "allocation")
    /\ Raise \/ (Turn("expand") /\ UNCHANGED <<page, browser, session>>)

\* What one look at the page may find: the rows of open sub-rows, with texts
\* that may lack what has not been rendered yet.
Snapshots ==
    {s \in [Offered("oskar") -> Texts] :
        \A i \in Offered("oskar") :
            (s[i] # "none") <=> (i \in opened' /\ i \in account["oskar"])}

Longer(s, t) == IF t = "full" \/ (t = "partial" /\ s = "none") THEN t ELSE s

\* Mutant: a snapshot replaces what earlier ones saw.
MutMergeSnapshot(s) == seen' = s

\* A row once seen stays; a longer text replaces a shorter one.
MergeSnapshot(s) == seen' = [i \in Offered("oskar") |-> Longer(seen[i], s[i])]

\* The click opens the sub-row, and the cockpit may close the others.
Opens(i) == opened' \in {opened \union {i}, {i}}

\* One sub-row: a click that finds nothing is followed by a snapshot all the
\* same, one that raises is skipped.
Expand ==
    /\ At("oskar", "expand")
    /\ todo # {}
    /\ LET i == CHOOSE i \in todo : TRUE IN
         /\ todo' = todo \ {i}
         /\ \/ /\ Opens(i)
               /\ \E s \in Snapshots : MergeSnapshot(s)
               /\ UNCHANGED missed
            \/ /\ UNCHANGED opened
               /\ \E s \in Snapshots : MergeSnapshot(s)
               /\ missed' = TRUE
            \/ missed' = TRUE /\ UNCHANGED <<opened, seen>>
    /\ UNCHANGED <<account, broker, fstep, page, browser, sc, session, fetched>>

\* The amount is read from the text of the row.
Amount(text) == IF text = "full" THEN ScrapedValue ELSE NoFigure

\* The last look, and one holding for each row that was ever seen.
Collect ==
    /\ At("oskar", "expand")
    /\ todo = {}
    /\ UNCHANGED opened
    /\ \E s \in Snapshots : MergeSnapshot(s)
    /\ fetched' = [i \in {i \in Offered("oskar") : seen'[i] # "none"} |-> Amount(seen'[i])]
    /\ fstep' = "read"
    /\ UNCHANGED <<account, broker, page, browser, sc, session, todo, missed>>

-----------------------------------------------------------------------------
(* Scalable.                                                               *)

\* sc login prints the activation URL, or ends first, or prints none in time.
StartDeviceLogin ==
    /\ At("scalable", "login")
    /\ \/ /\ sc' = "running"
          /\ \/ browser' = TRUE /\ fstep' = "device"
             \/ fstep' = "raised" /\ UNCHANGED browser
       \/ fstep' = "raised" /\ sc' = "none" /\ UNCHANGED browser
    /\ UNCHANGED <<account, broker, page, session, scrapeVars, missed, fetched>>

\* The page shows the login form, the confirmation screen, or nothing while the
\* second factor is on the phone.
DevicePage ==
    /\ At("scalable", "device")
    /\ sc = "running"
    /\ page = "blank"
    /\ page' \in {"form", "confirm"}
    /\ Turn("device")
    /\ UNCHANGED <<browser, session>>

\* Credentials are typed in and submitted, or a pair that was refused before
\* is cleared for a fresh prompt; without a terminal there is no prompt.
DeviceForm ==
    /\ At("scalable", "device")
    /\ page = "form"
    /\ \/ page' = "blank" /\ Turn("device") /\ UNCHANGED <<browser, session>>
       \/ Raise

\* The confirmation is clicked when the code on the page is ours or missing.
DeviceConfirm ==
    /\ At("scalable", "device")
    /\ page = "confirm"
    /\ \/ page' = "blank" /\ Turn("device") /\ UNCHANGED <<browser, session>>
       \/ Raise

\* sc observes the confirmation, or gives up.
ScEnds ==
    /\ sc = "running"
    /\ sc' \in {"done", "failed"}
    /\ UNCHANGED <<account, broker, fstep, page, browser, session, scrapeVars,
                   missed, fetched>>

\* The deadline passes, or a step on the page fails.  The sc process is left to itself.
DeviceTimesOut == At("scalable", "device") /\ sc = "running" /\ Raise

\* The browser is closed and the exit code looked at.
DeviceDone ==
    /\ At("scalable", "device")
    /\ sc \in {"done", "failed"}
    /\ sc' = "none"
    /\ browser' = FALSE
    /\ IF sc = "done" THEN session' = TRUE /\ fstep' = "holdings"
                      ELSE fstep' = "raised" /\ UNCHANGED session
    /\ UNCHANGED <<account, broker, page, scrapeVars, missed, fetched>>

Holding(ids) == [i \in ids |-> ScrapedValue]

\* The holdings and the overnight account: one bad item spoils the whole list.
ReadHoldings ==
    /\ At("scalable", "holdings")
    /\ \/ Raise
       \/ /\ fetched' = Holding(account["scalable"] \ {"cash"})
          /\ fstep' = "cash"
          /\ UNCHANGED <<account, broker, page, browser, sc, session, scrapeVars, missed>>

\* The cash breakdown is optional: a command that fails costs only the cash;
\* an answer that cannot be read raises.
ReadCash ==
    /\ At("scalable", "cash")
    /\ \/ Raise
       \/ /\ fetched' = Holding(account["scalable"])
          /\ fstep' = "read"
          /\ UNCHANGED missed
          /\ UNCHANGED <<account, broker, page, browser, sc, session, scrapeVars>>
       \/ /\ fstep' = "read"
          /\ missed' = TRUE
          /\ UNCHANGED <<account, broker, page, browser, sc, session, scrapeVars, fetched>>

-----------------------------------------------------------------------------
(* Trade Republic.                                                         *)

\* Phone number and PIN are prompted for; pytr waits for the app.
LogInTradeRepublic ==
    /\ At("traderepublic", "login")
    /\ \/ session' = TRUE /\ Turn("portfolio") /\ UNCHANGED <<page, browser>>
       \/ Raise

\* Positions and cash; an item without its fields spoils the whole list.
ReadPortfolio ==
    /\ At("traderepublic", "portfolio")
    /\ \/ Raise
       \/ /\ fetched' = Holding(account["traderepublic"])
          /\ fstep' = "read"
          /\ UNCHANGED <<account, broker, page, browser, sc, session, scrapeVars, missed>>

-----------------------------------------------------------------------------

\* Mutant: an exception skips the logout.
MutCloseSession ==
    /\ fstep \in {"read", "raised"}
    /\ fstep' = IF fstep = "read" THEN "fetched" ELSE "failed"
    /\ browser' = FALSE
    /\ session' = (session /\ fstep = "raised")
    /\ page' = "blank"
    /\ todo' = {} /\ opened' = {} /\ seen' = Unseen
    /\ UNCHANGED <<account, broker, sc, missed, fetched>>

\* The finally block: log out if logged in, close the browser; errors of either
\* are logged and swallowed.
CloseSession ==
    /\ fstep \in {"read", "raised"}
    /\ fstep' = IF fstep = "read" THEN "fetched" ELSE "failed"
    /\ browser' = FALSE
    /\ session' = FALSE
    /\ page' = "blank"
    /\ todo' = {} /\ opened' = {} /\ seen' = Unseen
    /\ UNCHANGED <<account, broker, sc, missed, fetched>>

FetchNext ==
    \/ OpenCockpit \/ PageArrives \/ SignedIn \/ Submit \/ SignInFails
    \/ OpenAllocation \/ Expand \/ Collect
    \/ StartDeviceLogin \/ DevicePage \/ DeviceForm \/ DeviceConfirm \/ ScEnds
    \/ DeviceTimesOut \/ DeviceDone \/ ReadHoldings \/ ReadCash
    \/ LogInTradeRepublic \/ ReadPortfolio
    \/ CloseSession

\* The deadlines: loops that wait end.
Deadlines == SignInFails \/ DeviceTimesOut
Waiting == OpenCockpit \/ SignedIn \/ OpenAllocation \/ Expand \/ Collect \/ StartDeviceLogin
           \/ DeviceDone \/ ReadHoldings \/ ReadCash \/ LogInTradeRepublic
           \/ ReadPortfolio \/ CloseSession
=============================================================================
