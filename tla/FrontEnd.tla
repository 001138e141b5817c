-------------------------------- MODULE FrontEnd --------------------------------
(***************************************************************************)
(* One browser document of the dashboard.  switcher.js shows two views in  *)
(* one document: a click or the hash asks for a view, which is painted     *)
(* from a cache of HTML strings or from a fetch.  dashboard.js runs and    *)
(* watches the update, constituents.js adds rows through a draft.  The     *)
(* gallery of app.js is in module Gallery.                                 *)
(*                                                                         *)
(* JavaScript runs one callback at a time: an action is one callback, from *)
(* one await to the next.  Nodes do not survive a repaint, so what an      *)
(* answer still holds of the page is "live" or "gone".                     *)
(***************************************************************************)
EXTENDS Naturals

CONSTANTS
    MaxClicks,      \* bound: navigations and reloads by the user
    MaxRuns,        \* bound: updates the server starts
    MaxFailures,    \* bound: requests that fail
    NoPage          \* a view that is not cached

ASSUME FrontEndAssumption ==
    MaxClicks \in Nat /\ MaxRuns \in Nat /\ MaxFailures \in Nat

VARIABLES
    home,       \* the view of the document's own URL path
    hash,       \* the view the location hash names: currentView()
    body,       \* what the page shows
    cache,      \* viewCache
    events,     \* hashchange events queued
    timer,      \* the 120 ms safety timer of goConstituents runs
    fetches,    \* per view: its fetch under way, "current" while seq = navSeq
    revals,     \* revalidations of the constituents page under way
    asked,      \* history: the view the user asked for last
    draft,      \* openDraft, confirmDraft: what awaits an answer
    dirty,      \* rows were changed since the last update
    post,       \* the POST /api/update of this page
    started,    \* startedHere
    pressed,    \* syncActive
    chains,     \* poll chains, by observedBusy
    cancel,     \* a POST /api/cancel is under way
    run,        \* an endpoint update runs on the server
    lastOk,     \* and how the last one ended
    clicks, runs, failures

pageVars == <<body, cache, fetches, revals, draft, chains>>
navVars == <<home, hash, events, timer, asked>>
syncVars == <<dirty, post, started, pressed, cancel>>
serverVars == <<run, lastOk, runs>>
docVars == <<pageVars, navVars, syncVars, serverVars, clicks, failures>>

Views == {"dashboard", "constituents"}
Other(v) == CHOOSE w \in Views : w # v

\* busy: data-busy of the sync link, "own" while syncPrices holds that very node,
\* "html" when only the attribute is left; input: what the user types into.
Page(v) == [view |-> v, busy |-> "no", input |-> "none"]
NoPost == [by |-> "sync", step |-> "none"]
NoDraft == [step |-> "none", live |-> FALSE]

DocInit ==
    /\ home = "dashboard"
    /\ hash \in Views
    /\ asked = hash
    /\ body = Page("dashboard")
    /\ cache = [v \in Views |-> NoPage]
    /\ events = 0
    /\ timer = FALSE
    /\ fetches = [v \in Views |->
                    IF v = hash /\ v = "constituents" THEN "current" ELSE "none"]
    /\ revals = 0
    /\ draft = NoDraft
    /\ dirty = FALSE
    /\ post = NoPost
    /\ started = FALSE
    /\ pressed = FALSE
    /\ chains = {FALSE}
    /\ cancel = FALSE
    /\ run = FALSE
    /\ lastOk = FALSE
    /\ clicks = 0
    /\ runs = 0
    /\ failures = 0

-----------------------------------------------------------------------------
(* Painting a view *)

\* innerHTML keeps elements and attributes, not the text typed into inputs.
AsHtml(b) == [b EXCEPT !.input = IF @ = "cell" THEN "none" ELSE @,
                       !.busy = IF @ = "own" THEN "html" ELSE @]

Detached(r) == [r EXCEPT !.live = FALSE]

\* renderCached: new nodes replace the old ones and bootView wires them.
Render(v, html) ==
    /\ body' = html
    /\ draft' = Detached(draft)
    /\ chains' = IF v = "dashboard" THEN chains \union {FALSE} ELSE chains

StayAs(b) ==
    /\ body' = b
    /\ UNCHANGED <<draft, chains>>

Superseded(n) == [v \in Views |-> IF n[v] = "current" THEN "stale" ELSE n[v]]

\* The page left is cached as it is, unless it is not the view to leave.
Stashed(v, b) ==
    IF b.view = Other(v) THEN [cache EXCEPT ![Other(v)] = AsHtml(b)] ELSE cache

Revalidations(v) == IF v = "constituents" THEN revals + 1 ELSE revals

\* showView, on a page that looks like b.
Show(v, b) ==
    LET stash == Stashed(v, b)
    IN  IF stash[v] # NoPage
        THEN /\ Render(v, stash[v])
             /\ cache' = stash
             /\ fetches' = Superseded(fetches)
             /\ revals' = Revalidations(v)
        ELSE /\ StayAs(b)
             /\ cache' = stash
             /\ fetches' = [Superseded(fetches) EXCEPT ![v] = "current"]
             /\ UNCHANGED revals

\* A document is loaded: the scripts start over, what was under way is dropped.
LoadDocument(v) ==
    /\ home' = v
    /\ hash' = "dashboard"
    /\ body' = Page(v)
    /\ cache' = [w \in Views |-> NoPage]
    /\ events' = 0
    /\ timer' = FALSE
    /\ fetches' = [w \in Views |-> "none"]
    /\ revals' = 0
    /\ draft' = NoDraft
    /\ dirty' = FALSE
    /\ post' = NoPost
    /\ started' = FALSE
    /\ pressed' = FALSE
    /\ chains' = IF v = "dashboard" THEN {FALSE} ELSE {}
    /\ UNCHANGED cancel

Click == clicks < MaxClicks /\ clicks' = clicks + 1
Fails == failures < MaxFailures /\ failures' = failures + 1

-----------------------------------------------------------------------------
(* switcher.js: asking for a view *)

GoConstituents(b) ==
    /\ asked' = "constituents"
    /\ IF hash = "constituents"
       THEN /\ Show("constituents", b)
            /\ UNCHANGED <<hash, events, timer>>
       ELSE /\ hash' = "constituents"
            /\ events' = events + 1
            /\ timer' = TRUE
            /\ StayAs(b)
            /\ UNCHANGED <<cache, fetches, revals>>
    /\ UNCHANGED home

\* pushState fires no hashchange; without a hash the URL stays.
GoDashboard ==
    /\ asked' = "dashboard"
    /\ home' = IF hash = "dashboard" THEN home ELSE "dashboard"
    /\ hash' = "dashboard"
    /\ Show("dashboard", body)
    /\ UNCHANGED <<events, timer>>

\* The user steps through the history, or edits the hash.
ChangeHash ==
    /\ Click
    /\ home = "dashboard"
    /\ events = 0
    /\ hash' = Other(hash)
    /\ asked' = hash'
    /\ events' = 1
    /\ UNCHANGED <<pageVars, home, timer, syncVars, serverVars, failures>>

HashChange ==
    /\ events > 0
    /\ events' = events - 1
    /\ Show(hash, body)
    /\ UNCHANGED <<home, hash, timer, asked, syncVars, serverVars, clicks,
                   failures>>

SafetyTimer ==
    /\ timer
    /\ timer' = FALSE
    /\ IF hash = "constituents" /\ body.view # "constituents"
       THEN Show("constituents", body)
       ELSE UNCHANGED pageVars
    /\ UNCHANGED <<home, hash, events, asked, syncVars, serverVars, clicks,
                   failures>>

MutFetchAnswered(v) ==
    /\ fetches[v] # "none"
    /\ fetches' = [fetches EXCEPT ![v] = "none"]
    /\ cache' = [cache EXCEPT ![v] = Page(v)]
    /\ Render(v, Page(v))
    /\ revals' = Revalidations(v)
    /\ UNCHANGED <<navVars, syncVars, serverVars, clicks, failures>>

\* The page a showView waited for: dropped when a later navigation took over,
\* cached but not painted when the hash has moved on.
FetchAnswered(v) ==
    /\ fetches[v] # "none"
    /\ fetches' = [fetches EXCEPT ![v] = "none"]
    /\ cache' = IF fetches[v] = "current" THEN [cache EXCEPT ![v] = Page(v)] ELSE cache
    /\ IF fetches[v] = "current" /\ hash = v
       THEN Render(v, Page(v)) /\ revals' = Revalidations(v)
       ELSE StayAs(body) /\ UNCHANGED revals
    /\ UNCHANGED <<navVars, syncVars, serverVars, clicks, failures>>

\* The classic navigation, even when the hash moved on and its event is queued:
\* the view counts as asked for by the code.
FetchFails(v) ==
    /\ fetches[v] # "none"
    /\ Fails
    /\ IF fetches[v] = "current"
       THEN LoadDocument(v) /\ asked' = v
       ELSE /\ fetches' = [fetches EXCEPT ![v] = "none"]
            /\ UNCHANGED <<body, cache, revals, draft, chains, navVars,
                           syncVars>>
    /\ UNCHANGED <<serverVars, clicks>>

MutClean == TRUE

\* isConstituentsClean
Clean == body.input = "none"

\* The fresh page replaces the cached one, and the one shown, if it differs and
\* the user is not typing.
Revalidated ==
    /\ revals > 0
    /\ \E same \in BOOLEAN :
         /\ same => cache["constituents"] \in {NoPage, Page("constituents")}
         /\ ~same => cache["constituents"] # NoPage
         /\ cache' = IF same \/ Clean
                     THEN [cache EXCEPT !["constituents"] = Page("constituents")]
                     ELSE cache
         /\ IF ~same /\ Clean /\ hash = "constituents"
            THEN Render("constituents", Page("constituents"))
            ELSE StayAs(body)
    /\ revals' = revals - 1
    /\ UNCHANGED <<fetches, navVars, syncVars, serverVars, clicks, failures>>

RevalidationFails ==
    /\ revals > 0
    /\ Fails
    /\ revals' = revals - 1
    /\ UNCHANGED <<body, cache, fetches, draft, chains, navVars, syncVars,
                   serverVars, clicks>>

-----------------------------------------------------------------------------
(* constituents.js: rows, drafts and the way back *)

\* The user types into a cell, or leaves it: the value is saved on its own.
TypeInCell ==
    /\ body.view = "constituents" /\ body.input = "none" /\ events = 0
    /\ draft.step # "brokers"
    /\ body' = [body EXCEPT !.input = "cell"]
    /\ UNCHANGED <<cache, fetches, revals, draft, chains, navVars, syncVars,
                   serverVars, clicks, failures>>

SaveCell ==
    /\ body.input = "cell"
    /\ body' = [body EXCEPT !.input = "none"]
    /\ dirty' \in {dirty, TRUE}
    /\ UNCHANGED <<cache, fetches, revals, draft, chains, navVars, post,
                   started, pressed, cancel, serverVars, clicks, failures>>

\* The + button: the brokers are fetched before the draft row is shown.
OpenDraft ==
    /\ body.view = "constituents" /\ body.input = "none" /\ events = 0
    /\ draft.step = "none"
    /\ draft' = [step |-> "brokers", live |-> TRUE]
    /\ UNCHANGED <<body, cache, fetches, revals, chains, navVars, syncVars,
                   serverVars, clicks, failures>>

\* The row goes to the table the button stood in, even if that is gone.
DraftOpens ==
    /\ draft.step = "brokers"
    /\ draft.live => events = 0
    /\ draft' = NoDraft
    /\ body' = IF draft.live THEN [body EXCEPT !.input = "draft"] ELSE body
    /\ UNCHANGED <<cache, fetches, revals, chains, navVars, syncVars,
                   serverVars, clicks, failures>>

DiscardDraft ==
    /\ body.input = "draft"
    /\ body' = [body EXCEPT !.input = "none"]
    /\ draft' = Detached(draft)
    /\ UNCHANGED <<cache, fetches, revals, chains, navVars, syncVars,
                   serverVars, clicks, failures>>

ConfirmDraft ==
    /\ body.input = "draft" /\ draft.step = "none"
    /\ draft' = [step |-> "adding", live |-> TRUE]
    /\ UNCHANGED <<body, cache, fetches, revals, chains, navVars, syncVars,
                   serverVars, clicks, failures>>

\* The answered row replaces the draft; a draft that is gone is not replaced.
RowAdded ==
    /\ draft.step = "adding"
    /\ draft' = NoDraft
    /\ body' = IF draft.live THEN [body EXCEPT !.input = "none"] ELSE body
    /\ dirty' = TRUE
    /\ UNCHANGED <<cache, fetches, revals, chains, navVars, post, started,
                   pressed, cancel, serverVars, clicks, failures>>

DraftFails ==
    /\ draft.step # "none"
    /\ Fails
    /\ draft' = NoDraft
    /\ UNCHANGED <<body, cache, fetches, revals, chains, navVars, syncVars,
                   serverVars, clicks>>

\* refreshAndGo: changed rows are first worked into the charts.
Leave ==
    /\ body.view = "constituents"
    /\ post.step = "none"
    /\ IF dirty
       THEN /\ runs < MaxRuns
            /\ post' = [by |-> "go", step |-> "sent"]
            /\ UNCHANGED <<body, cache, fetches, revals, draft, chains, navVars,
                           clicks>>
       ELSE Click /\ GoDashboard /\ UNCHANGED post
    /\ UNCHANGED <<dirty, started, pressed, cancel, serverVars, failures>>

-----------------------------------------------------------------------------
(* dashboard.js: the update *)

\* syncPrices
Sync ==
    /\ body.view = "dashboard" /\ body.busy = "no" /\ ~pressed
    /\ post.step = "none" /\ runs < MaxRuns
    /\ post' = [by |-> "sync", step |-> "sent"]
    /\ body' = [body EXCEPT !.busy = "own"]
    /\ started' = TRUE
    /\ pressed' = TRUE
    /\ UNCHANGED <<cache, fetches, revals, draft, chains, navVars, dirty,
                   cancel, serverVars, clicks, failures>>

\* The server runs the update, or refuses it beside another one.
PostServed ==
    /\ post.step = "sent"
    /\ \/ run /\ post' = [post EXCEPT !.step = "failed"] /\ UNCHANGED <<run, runs>>
       \/ /\ ~run /\ runs < MaxRuns
          /\ run' = TRUE /\ runs' = runs + 1
          /\ post' = [post EXCEPT !.step = "running"]
    /\ UNCHANGED <<pageVars, navVars, dirty, started, pressed, cancel, lastOk,
                   clicks, failures>>

\* Another page of the user, or this one before a reload, started an update.
OtherRun ==
    /\ ~run /\ runs < MaxRuns /\ post.step # "sent"
    /\ run' = TRUE /\ runs' = runs + 1
    /\ UNCHANGED <<pageVars, navVars, syncVars, lastOk, clicks, failures>>

EndRun(ok) ==
    /\ run' = FALSE
    /\ lastOk' = ok
    /\ post' = IF post.step = "running"
               THEN [post EXCEPT !.step = IF ok THEN "done" ELSE "failed"] ELSE post
    /\ UNCHANGED runs

RunEnds ==
    /\ run
    /\ \/ EndRun(TRUE) /\ UNCHANGED failures
       \/ Fails /\ EndRun(FALSE)
    /\ UNCHANGED <<pageVars, navVars, dirty, started, pressed, cancel, clicks>>

Cancelled ==
    /\ cancel
    /\ cancel' = FALSE
    /\ IF run THEN EndRun(FALSE) ELSE UNCHANGED <<post, serverVars>>
    /\ UNCHANGED <<pageVars, navVars, dirty, started, pressed, clicks,
                   failures>>

\* The end of syncPrices: a reload whatever is shown by now, or the button back.
SyncAnswered ==
    /\ post.by = "sync" /\ post.step \in {"done", "failed"}
    /\ IF post.step = "done"
       THEN LoadDocument(home) /\ asked' = home
       ELSE /\ body' = [body EXCEPT !.busy = IF @ = "own" THEN "no" ELSE @]
            /\ post' = NoPost
            /\ started' = FALSE
            /\ pressed' = FALSE
            /\ UNCHANGED <<cache, fetches, revals, draft, chains, navVars,
                           dirty, cancel>>
    /\ UNCHANGED <<serverVars, clicks, failures>>

\* The end of refreshAndGo.
GoAnswered ==
    /\ post.by = "go" /\ post.step \in {"done", "failed"}
    /\ post' = NoPost
    /\ IF post.step = "failed"
       THEN UNCHANGED <<pageVars, navVars, dirty>>
       ELSE GoDashboard /\ dirty' = FALSE
    /\ UNCHANGED <<started, pressed, cancel, serverVars, clicks, failures>>

\* pollUpdateStatus: a chain goes on while an update runs; one that saw a run it
\* did not start end well reloads the page.
Poll(observed) ==
    /\ observed \in chains
    /\ pressed' = run
    /\ IF ~run /\ observed /\ ~started /\ lastOk
       THEN LoadDocument(home) /\ asked' = home
       ELSE /\ chains' = IF run THEN (chains \ {observed}) \union {TRUE}
                         ELSE chains \ {observed}
            /\ UNCHANGED <<body, cache, fetches, revals, draft, navVars, dirty,
                           post, started, cancel>>
    /\ UNCHANGED <<serverVars, clicks, failures>>

PollGivesUp(observed) ==
    /\ observed \in chains
    /\ Fails
    /\ pressed' = FALSE
    /\ chains' = chains \ {observed}
    /\ UNCHANGED <<body, cache, fetches, revals, draft, navVars, dirty, post,
                   started, cancel, serverVars, clicks>>

\* cancelAndEdit
Edit ==
    /\ body.view = "dashboard"
    /\ Click
    /\ cancel' = TRUE
    /\ started' = FALSE
    /\ pressed' = FALSE
    /\ GoConstituents([body EXCEPT !.busy = "no"])
    /\ UNCHANGED <<dirty, post, serverVars, failures>>

Reload ==
    /\ Click
    /\ LoadDocument(home)
    /\ asked' = home
    /\ UNCHANGED <<serverVars, failures>>

-----------------------------------------------------------------------------
Navigate ==
    \/ Edit \/ Leave \/ GoAnswered \/ ChangeHash \/ HashChange \/ SafetyTimer \/ Reload
    \/ \E v \in Views : FetchAnswered(v) \/ FetchFails(v)
    \/ Revalidated \/ RevalidationFails

EditRows ==
    \/ TypeInCell \/ SaveCell
    \/ OpenDraft \/ DraftOpens \/ DiscardDraft \/ ConfirmDraft \/ RowAdded \/ DraftFails

Update ==
    \/ Sync \/ PostServed \/ OtherRun \/ RunEnds \/ Cancelled \/ SyncAnswered
    \/ \E o \in BOOLEAN : Poll(o) \/ PollGivesUp(o)

DocNext == Navigate \/ EditRows \/ Update

DocSpec == DocInit /\ [][DocNext]_docVars

-----------------------------------------------------------------------------
(* Properties *)

Settled == events = 0 /\ ~timer /\ \A v \in Views : fetches[v] # "current"

\* A page is never filed in the cache under the other view's name, and the page
\* shown is the one asked for as soon as no navigation is under way: answers that
\* come late, out of order or twice (the event, the safety timer, a shared fetch)
\* do not leave the user on a view they had left (navSeq and the hash checks of
\* switcher.js).
SettledShowsAsked ==
    /\ \A v \in Views : cache[v] = NoPage \/ cache[v].view = v
    /\ Settled => body.view = asked

\* On a page that is not being left, a row being drafted or a cell being typed
\* into stays until the user ends it, goes elsewhere or the document is loaded
\* anew: no answer that is still on its way, of a superseded fetch, a
\* revalidation, a saved row or a poll, replaces it (isConstituentsClean).
InputStays ==
    [][Settled /\ body.input # "none" /\ body'.input = "none"
         => \/ SaveCell \/ DiscardDraft \/ RowAdded
            \/ clicks' # clicks \/ GoAnswered
            \/ SyncAnswered \/ \E o \in BOOLEAN : Poll(o)]_docVars
=============================================================================
