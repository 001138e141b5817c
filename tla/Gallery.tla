-------------------------------- MODULE Gallery ---------------------------------
(***************************************************************************)
(* The chart gallery of the dashboard (app.js) in the single document of   *)
(* switcher.js.  refresh reads the listing of the chart files, compares    *)
(* its signature with the last one and repaints the gallery when they      *)
(* differ; it awaits three answers on the way.  Meanwhile the user may     *)
(* leave for the constituents page and come back: the gallery is filed as  *)
(* an HTML string and returns as new nodes.  Charts are told apart by the  *)
(* generation of their files.                                              *)
(***************************************************************************)
EXTENDS Integers, FiniteSets

CONSTANTS
    MaxCharts,      \* bound: times the chart files are rewritten
    MaxMoves,       \* bound: departures from the dashboard and reloads
    MaxRefreshes,   \* bound: polls of the interval under way at once
    MaxFailures,    \* bound: requests that fail
    NoPage          \* the dashboard is not cached; no snapshot is stored

VARIABLES
    charts,     \* the generation of the files on the server
    shown,      \* the dashboard is in the document
    gallery,    \* the generation its gallery shows
    cached,     \* the one the cached dashboard shows
    leaving,    \* the constituents page is being fetched
    booted,     \* galleryBooted: "fetching" the session user, then "yes"
    sig,        \* lastSignature
    refreshes,  \* calls of refresh that await an answer
    snap,       \* the snapshot in sessionStorage
    moves, failures

vars == <<charts, shown, gallery, cached, leaving, booted, sig, refreshes, snap,
          moves, failures>>

NoCharts == -1

\* live: the gallery the call began with is still in the document.
Refresh == [step |-> "scan", live |-> TRUE, got |-> NoCharts]

Init ==
    /\ charts = 0
    /\ shown = TRUE
    /\ gallery = NoCharts
    /\ cached = NoPage
    /\ leaving = FALSE
    /\ booted = "fetching"
    /\ sig = NoCharts
    /\ refreshes = {}
    /\ snap = NoPage
    /\ moves = 0
    /\ failures = 0

Fails == failures < MaxFailures /\ failures' = failures + 1
Move == moves < MaxMoves /\ moves' = moves + 1
Detached == {[r EXCEPT !.live = FALSE] : r \in refreshes}

-----------------------------------------------------------------------------
(* app.js *)

\* The session user is known: the snapshot is painted, with its signature.
Boot ==
    /\ booted = "fetching"
    /\ booted' = "yes"
    /\ IF shown /\ snap # NoPage
       THEN gallery' = snap.charts /\ sig' = snap.sig
       ELSE UNCHANGED <<gallery, sig>>
    /\ refreshes' = IF shown THEN refreshes \union {Refresh} ELSE refreshes
    /\ UNCHANGED <<charts, shown, cached, leaving, snap, moves, failures>>

\* The interval of ensureGalleryBoot.
Poll ==
    /\ shown
    /\ Cardinality(refreshes) < MaxRefreshes
    /\ refreshes' = refreshes \union {Refresh}
    /\ UNCHANGED <<charts, shown, gallery, cached, leaving, booted, sig, snap,
                   moves, failures>>

\* The signature is remembered before the charts it stands for are there.
Scan(r) ==
    /\ r.step = "scan"
    /\ sig' = charts
    /\ refreshes' = IF charts = sig THEN refreshes \ {r}
                    ELSE (refreshes \ {r}) \union {[r EXCEPT !.step = "load"]}
    /\ UNCHANGED <<charts, shown, gallery, cached, leaving, booted, snap, moves,
                   failures>>

ScanFails(r) ==
    /\ r.step = "scan"
    /\ Fails
    /\ refreshes' = refreshes \ {r}
    /\ UNCHANGED <<charts, shown, gallery, cached, leaving, booted, sig, snap, moves>>

Loaded(r, got) ==
    /\ r.step = "load"
    /\ refreshes' = (refreshes \ {r}) \union {[r EXCEPT !.step = "paint", !.got = got]}
    /\ UNCHANGED <<charts, shown, gallery, cached, leaving, booted, sig, snap, moves>>

Load(r) == Loaded(r, charts) /\ UNCHANGED failures

\* A chart that does not load is left out of the cards.
LoadFails(r) == Fails /\ Loaded(r, NoCharts)

\* The cards go to the gallery this call began with; saveSnapshot takes the one
\* in the document.
Paint(r) ==
    /\ r.step = "paint"
    /\ gallery' = IF r.live THEN r.got ELSE gallery
    /\ snap' = IF shown THEN [charts |-> gallery', sig |-> sig] ELSE snap
    /\ refreshes' = refreshes \ {r}
    /\ UNCHANGED <<charts, shown, cached, leaving, booted, sig, moves, failures>>

-----------------------------------------------------------------------------
(* Its surroundings *)

\* showView: the dashboard is filed as it is now ...
Leave ==
    /\ shown /\ ~leaving
    /\ Move
    /\ cached' = gallery
    /\ leaving' = TRUE
    /\ UNCHANGED <<charts, shown, gallery, booted, sig, refreshes, snap, failures>>

\* ... and replaced when the constituents page is there.
Left ==
    /\ leaving
    /\ leaving' = FALSE
    /\ shown' = FALSE
    /\ gallery' = NoCharts
    /\ refreshes' = Detached
    /\ UNCHANGED <<charts, cached, booted, sig, snap, moves, failures>>

\* renderCached and __dashboardShow
Return ==
    /\ ~shown
    /\ shown' = TRUE
    /\ gallery' = cached
    /\ refreshes' = Detached \union {Refresh}
    /\ UNCHANGED <<charts, cached, leaving, booted, sig, snap, moves, failures>>

\* A new document; the snapshot outlives it.
Reload ==
    /\ Move
    /\ shown' = TRUE
    /\ gallery' = NoCharts
    /\ cached' = NoPage
    /\ leaving' = FALSE
    /\ booted' = "fetching"
    /\ sig' = NoCharts
    /\ refreshes' = {}
    /\ UNCHANGED <<charts, snap, failures>>

\* An update rewrites the chart files.
Replot ==
    /\ charts < MaxCharts
    /\ charts' = charts + 1
    /\ UNCHANGED <<shown, gallery, cached, leaving, booted, sig, refreshes, snap,
                   moves, failures>>

Next ==
    \/ Boot \/ Poll \/ Leave \/ Left \/ Return \/ Reload \/ Replot
    \/ \E r \in refreshes : Scan(r) \/ ScanFails(r) \/ Load(r) \/ LoadFails(r) \/ Paint(r)

Spec == Init /\ [][Next]_vars

\* The gallery of a dashboard no refresh is working on shows charts at least as
\* new as the signature under which every later refresh will take it for
\* "confirmed fresh" and return (refresh of app.js).
GalleryIsFresh == shown /\ refreshes = {} => gallery >= sig
=============================================================================
