----------------------------- MODULE PositionStore -----------------------------
(***************************************************************************)
(* Everybody who writes one user's positions: the server threads that      *)
(* serve the constituents endpoints (Editors), the worker processes of     *)
(* endpoint updates (Runs) and the threads that drop the charts of a user  *)
(* without positions (Viewers).                                            *)
(*                                                                         *)
(* An edit reads the whole portfolio, changes one bucket in memory and     *)
(* writes everything back with AssetRepository.restore.  The connection is *)
(* in autocommit mode and its lock is held for one statement at a time, so *)
(* an action below is one SQL statement (with the computation around it)   *)
(* and everything else may happen between two of them.                     *)
(***************************************************************************)
EXTENDS PortfolioLayout

CONSTANTS
    Editors,    \* server threads that edit
    Runs,       \* update workers
    Viewers,    \* server threads that render the dashboard or the page
    Names,      \* portfolio names
    MaxStops    \* bound: writers that fail or are killed half-way

ASSUME WriterAssumption ==
    /\ Editors \intersect Runs = {}
    /\ Buckets # {} /\ Names # {}
    /\ MaxStops \in Nat

VARIABLES
    table,      \* the rows stored for the user
    name,       \* the stored portfolio name
    charts,     \* the user's chart files exist
    phase,      \* what each writer does next
    target,     \* the portfolio a writer holds in memory
    stale,      \* restore: stored buckets the target lacks, still to delete
    todo,       \* restore: buckets of the target still to replace
    cur,        \* restore: the bucket in hand
    left,       \* restore: the keys the loop in hand has still to visit
    added,      \* add endpoint: index and identity of the row to price
    runName,    \* the name a run read when it loaded the portfolio
    viewing,    \* viewers that counted no positions
    stops,      \* writers stopped half-way so far
    solo        \* history: nobody else wrote since the writer's survey

Writers == Editors \union Runs

workVars == <<stale, todo, cur, left>>
vars == <<table, name, charts, phase, target, stale, todo, cur, left, added,
          runName, viewing, stops, solo>>

Phases == {"idle", "fetch", "loaded", "survey", "next", "purge", "fill", "rename"}
Writing(w) == phase[w] \in {"survey", "next", "purge", "fill"}
NoBucket == CHOOSE b \in Buckets : TRUE
NoName == CHOOSE n \in Names : TRUE
Nothing == [bucket |-> NoBucket, index |-> -1, id |-> NoRow]

Goto(w, p) == phase' = [phase EXCEPT ![w] = p]

\* The locals of restore go out of scope.
LeaveRestore(w) ==
    /\ stale' = [stale EXCEPT ![w] = {}]
    /\ todo' = [todo EXCEPT ![w] = {}]
    /\ cur' = [cur EXCEPT ![w] = NoBucket]
    /\ left' = [left EXCEPT ![w] = {}]
    /\ solo' = [solo EXCEPT ![w] = FALSE]

Init ==
    /\ table \in Layouts
    /\ Snapshot(table) = table
    /\ StoredOnce(table)
    /\ \A row \in RowsOf(table) : row.fig \in {"missing", "typed"}
    /\ name \in Names
    /\ charts \in BOOLEAN
    /\ phase = [w \in Writers |-> "idle"]
    /\ target = [w \in Writers |-> EmptyLayout]
    /\ stale = [w \in Writers |-> {}]
    /\ todo = [w \in Writers |-> {}]
    /\ cur = [w \in Writers |-> NoBucket]
    /\ left = [w \in Writers |-> {}]
    /\ added = [w \in Writers |-> Nothing]
    /\ runName = [w \in Writers |-> NoName]
    /\ viewing = {}
    /\ stops = 0
    /\ solo = [w \in Writers |-> FALSE]

-----------------------------------------------------------------------------
(* The read and the change in memory that open every edit.                 *)

\* Writer w goes on to write back p, which holds the buckets in keys.
Restore(w, p, keys) ==
    /\ target' = [target EXCEPT ![w] = p]
    /\ todo' = [todo EXCEPT ![w] = keys]
    /\ Goto(w, "survey")
    /\ UNCHANGED <<table, name, charts, stale, cur, left, runName, viewing, stops, solo>>

\* store_constituent_value: the row at list position k gets a new figure.
Edit(e, b, k) ==
    /\ phase[e] = "idle"
    /\ LET p == Snapshot(table) IN
         /\ k \in Used(p[b])
         /\ Restore(e, [p EXCEPT ![b] = WithFigure(p[b], k, "typed")], Held(p))
    /\ UNCHANGED added

\* reorder_constituents: an exact permutation of the indices, or nothing.
Reorder(e, b) ==
    /\ phase[e] = "idle"
    /\ LET p == Snapshot(table) IN
         /\ Used(p[b]) # {}
         /\ \E order \in Orders(p[b]) :
              Restore(e, [p EXCEPT ![b] = Reordered(p[b], order)], Held(p))
    /\ UNCHANGED added

\* delete_constituent: an emptied bucket stays a key of the assets.
Delete(e, b, k) ==
    /\ phase[e] = "idle"
    /\ LET p == Snapshot(table) IN
         /\ k \in Used(p[b])
         /\ Restore(e, [p EXCEPT ![b] = Without(p[b], k)], Held(p))
    /\ UNCHANGED added

\* add_constituent: the row goes to the end of its bucket, which is created
\* when the user does not hold it.  A row without a cached price may miss one
\* figure; the endpoint remembers its index to fill it in later.
Add(e, b, row) ==
    /\ phase[e] = "idle"
    /\ row.fig \in {"missing", "typed"}
    /\ LET p == Snapshot(table) IN
         /\ NextIndex(p[b]) \in Idx
         /\ Restore(e, [p EXCEPT ![b] = Appended(p[b], row)], Held(p) \union {b})
         /\ added' = [added EXCEPT ![e] =
                        IF row.fig = "missing"
                        THEN [bucket |-> b, index |-> NextIndex(p[b]), id |-> row.id]
                        ELSE Nothing]

\* fill_constituent_figures with the price fetched for the row that was added:
\* whatever row now sits at the remembered index gets the figure, if it misses
\* one.
FillFigure(e) ==
    /\ phase[e] = "fetch"
    /\ LET p == Snapshot(table)
           b == added[e].bucket
           k == added[e].index
       IN  /\ k \in Used(p[b])
           /\ p[b][k].fig = "missing"
           /\ Restore(e, [p EXCEPT ![b] = WithFigure(p[b], k, added[e].id)], Held(p))
    /\ added' = [added EXCEPT ![e] = Nothing]

\* No price came back, the index is out of range by now, or nothing is missing.
NoFill(e) ==
    /\ phase[e] = "fetch"
    /\ added' = [added EXCEPT ![e] = Nothing]
    /\ Goto(e, "idle")
    /\ UNCHANGED <<table, name, charts, target, workVars, runName, viewing, stops, solo>>

\* store_portfolio_name writes the one row of user_portfolios, also when it holds
\* that name already.
Rename(e) ==
    /\ phase[e] = "idle"
    /\ name' \in Names
    /\ UNCHANGED <<table, charts, phase, target, workVars, added, runName,
                   viewing, stops, solo>>

-----------------------------------------------------------------------------
(* AssetRepository.restore, one statement after the other.                 *)

\* Mutant: buckets that went away stay stored.
MutNothingStale(w) == {}

\* The buckets stored now that the target does not hold.
StaleBuckets(w) == Held(table) \ todo[w]

\* The second read.
Survey(w) ==
    /\ phase[w] = "survey"
    /\ stale' = [stale EXCEPT ![w] = StaleBuckets(w)]
    /\ solo' = [solo EXCEPT ![w] = TRUE]
    /\ Goto(w, "next")
    /\ UNCHANGED <<table, name, charts, target, todo, cur, left, added, runName,
                   viewing, stops>>

\* delete_bucket reads the keys it is going to delete.
NextBucket(w) ==
    /\ phase[w] = "next"
    /\ \E b \in IF stale[w] # {} THEN stale[w] ELSE todo[w] :
         /\ cur' = [cur EXCEPT ![w] = b]
         /\ left' = [left EXCEPT ![w] = Used(table[b])]
    /\ Goto(w, "purge")
    /\ UNCHANGED <<table, name, charts, target, stale, todo, added, runName,
                   viewing, stops, solo>>

\* One DELETE or one INSERT ... ON CONFLICT DO UPDATE, in index order.
WriteRow(w, row) ==
    /\ \E i \in left[w] :
         /\ \A j \in left[w] : i <= j
         /\ table' = [table EXCEPT ![cur[w]][i] = row[i]]
         /\ left' = [left EXCEPT ![w] = @ \ {i}]
    /\ solo' = [v \in Writers |-> v = w /\ solo[w]]
    /\ UNCHANGED <<name, charts, phase, target, stale, todo, cur, added,
                   runName, viewing, stops>>

\* Mutant: the delete misses the row.
MutPurgeNothing(w) == phase[w] = "purge" /\ WriteRow(w, table[cur[w]])

PurgeRow(w) == phase[w] = "purge" /\ WriteRow(w, EmptyBucket)
FillRow(w) == phase[w] = "fill" /\ WriteRow(w, target[w][cur[w]])

\* delete_bucket returns: a stale bucket is done, the others are filled next.
Purged(w) ==
    /\ phase[w] = "purge"
    /\ left[w] = {}
    /\ IF cur[w] \in stale[w]
       THEN /\ stale' = [stale EXCEPT ![w] = @ \ {cur[w]}]
            /\ Goto(w, "next")
            /\ UNCHANGED left
       ELSE /\ left' = [left EXCEPT ![w] = Used(target[w][cur[w]])]
            /\ Goto(w, "fill")
            /\ UNCHANGED stale
    /\ UNCHANGED <<table, name, charts, target, todo, cur, added, runName,
                   viewing, stops, solo>>

Filled(w) ==
    /\ phase[w] = "fill"
    /\ left[w] = {}
    /\ todo' = [todo EXCEPT ![w] = @ \ {cur[w]}]
    /\ Goto(w, "next")
    /\ UNCHANGED <<table, name, charts, target, stale, cur, left, added, runName,
                   viewing, stops, solo>>

Restored(w) == phase[w] = "next" /\ stale[w] = {} /\ todo[w] = {}

\* An edit answers, or goes on to fetch the price of the row it added; a run
\* goes on to write the name it loaded.
Finish(w) ==
    /\ Restored(w)
    /\ LeaveRestore(w)
    /\ IF w \in Runs
       THEN Goto(w, "rename") /\ UNCHANGED target
       ELSE /\ Goto(w, IF added[w] = Nothing THEN "idle" ELSE "fetch")
            /\ target' = [target EXCEPT ![w] = EmptyLayout]
    /\ UNCHANGED <<table, name, charts, added, runName, viewing, stops>>

-----------------------------------------------------------------------------
(* An endpoint update: cli.update.main without broker scrapes.             *)

\* load_portfolio: name and rows come from two tables that nothing relates.
Load(r) ==
    /\ phase[r] = "idle"
    /\ target' = [target EXCEPT ![r] = Snapshot(table)]
    /\ runName' = [runName EXCEPT ![r] = name]
    /\ Goto(r, "loaded")
    /\ UNCHANGED <<table, name, charts, workVars, added, viewing, stops, solo>>

\* persist_oskar_shares_in_portfolio and persist_fetched_values_in_portfolio:
\* some row in memory got a figure from its price, so everything is persisted.
Persist(r, b, k) ==
    /\ phase[r] = "loaded"
    /\ LET p == target[r] IN
         /\ k \in Used(p[b])
         /\ Restore(r, [p EXCEPT ![b] = WithFigure(p[b], k, p[b][k].id)], Held(p))
    /\ UNCHANGED added

\* restore(..., portfolio_name = ...): the name rides along.
RestoreName(r) ==
    /\ phase[r] = "rename"
    /\ name' = runName[r]
    /\ Goto(r, "loaded")
    /\ UNCHANGED <<table, charts, target, workVars, added, runName, viewing, stops, solo>>

\* The charts are rewritten from the portfolio in memory and the run is over.
Plot(r) ==
    /\ phase[r] = "loaded"
    /\ charts' = (Held(target[r]) # {})
    /\ target' = [target EXCEPT ![r] = EmptyLayout]
    /\ runName' = [runName EXCEPT ![r] = NoName]
    /\ Goto(r, "idle")
    /\ UNCHANGED <<table, name, workVars, added, viewing, stops, solo>>

-----------------------------------------------------------------------------
(* _clear_empty_user_charts: count the positions, then delete the files.   *)

Count(v) ==
    /\ v \notin viewing
    /\ Held(table) = {}
    /\ viewing' = viewing \union {v}
    /\ UNCHANGED <<table, name, charts, phase, target, workVars, added, runName,
                   stops, solo>>

ClearCharts(v) ==
    /\ v \in viewing
    /\ viewing' = viewing \ {v}
    /\ charts' = FALSE
    /\ UNCHANGED <<table, name, phase, target, workVars, added, runName, stops, solo>>

\* A statement raises (the database is locked by another process), the server
\* is stopped, or a cancel kills the run: what was written stays written.
Stop(w) ==
    /\ phase[w] \notin {"idle", "fetch"}
    /\ stops < MaxStops
    /\ stops' = stops + 1
    /\ LeaveRestore(w)
    /\ target' = [target EXCEPT ![w] = EmptyLayout]
    /\ added' = [added EXCEPT ![w] = Nothing]
    /\ runName' = [runName EXCEPT ![w] = NoName]
    /\ Goto(w, "idle")
    /\ UNCHANGED <<table, name, charts, viewing>>

-----------------------------------------------------------------------------

RestoreStep(w) ==
    Survey(w) \/ NextBucket(w) \/ PurgeRow(w) \/ Purged(w) \/ FillRow(w)
    \/ Filled(w) \/ Finish(w)

\* Bound: the user adds a row that is not in the table yet.
Fresh(row) == row.id \notin {old.id : old \in RowsOf(table)}

EditorStep(e) ==
    \/ \E b \in Buckets, k \in Idx : Edit(e, b, k) \/ Delete(e, b, k)
    \/ \E b \in Buckets : Reorder(e, b)
    \/ \E b \in Buckets, row \in Rows :
         Fresh(row) /\ Add(e, b, row)
    \/ FillFigure(e) \/ NoFill(e) \/ Rename(e)

RunStep(r) ==
    \/ Load(r) \/ RestoreName(r) \/ Plot(r)
    \/ \E b \in Buckets, k \in Idx : Persist(r, b, k)

Next ==
    \/ \E w \in Writers : RestoreStep(w) \/ Stop(w)
    \/ \E e \in Editors : EditorStep(e)
    \/ \E r \in Runs : RunStep(r)
    \/ \E v \in Viewers : Count(v) \/ ClearCharts(v)

Spec == Init /\ [][Next]_vars

-----------------------------------------------------------------------------
(* Properties.                                                             *)

\* The table holds rows of this kind and every writer is at one of its steps.
TypeOK ==
    /\ table \in Layouts
    /\ name \in Names
    /\ charts \in BOOLEAN
    /\ phase \in [Writers -> Phases]
    /\ target \in [Writers -> Layouts]
    /\ stale \in [Writers -> SUBSET Buckets]
    /\ todo \in [Writers -> SUBSET Buckets]
    /\ cur \in [Writers -> Buckets]
    /\ left \in [Writers -> SUBSET Idx]
    /\ added \in [Writers -> [bucket : Buckets, index : Idx \union {-1}, id : RowIds \union {NoRow}]]
    /\ runName \in [Writers -> Names]
    /\ viewing \in SUBSET Viewers
    /\ stops \in 0 .. MaxStops
    /\ solo \in [Writers -> BOOLEAN]

\* restore "replaces this user's positions": a write during which nobody else
\* wrote leaves exactly the portfolio that was in memory, whatever the table
\* looked like before (rows lost or left over by overlapping or interrupted
\* writes, buckets created since the read).
SoloWriteIsExact ==
    \A w \in Writers : Restored(w) /\ solo[w] => table = target[w]

\* Behaviours in which rows are only moved, never added or deleted, and nobody
\* is stopped half-way.
ReorderNext ==
    \/ \E w \in Writers : RestoreStep(w)
    \/ \E e \in Editors, b \in Buckets : Reorder(e, b)

ReorderSpec == Init /\ [][ReorderNext]_vars

\* What reorder_constituents says, "a reorder can never drop or duplicate
\* rows": when only reorders ran and nobody is writing, no row is
\* stored twice.  (A reorder writes as many rows as it read, so a row stored
\* twice took the place of another one.)
RowsStoredOnce ==
    (\A w \in Writers : ~Writing(w)) => StoredOnce(table)

-----------------------------------------------------------------------------
(* What it implements when requests and runs take turns: AtomicPortfolio.  *)

Alone(w) == \A v \in Writers \ {w} : phase[v] = "idle"

\* Behaviours in which nobody starts while somebody else is at work, and nobody
\* is stopped in the middle of a restore.
SerialNext ==
    \/ \E w \in Writers : Alone(w) /\ (RestoreStep(w) \/ (~Writing(w) /\ Stop(w)))
    \/ \E e \in Editors : Alone(e) /\ EditorStep(e)
    \/ \E r \in Runs : Alone(r) /\ RunStep(r)
    \/ \E v \in Viewers : Count(v) \/ ClearCharts(v)

SerialSpec == Init /\ [][SerialNext]_vars

\* An edit takes effect when its thread has read the portfolio, a run each time
\* it persists: from there to the end of the restore the store counts as what the
\* writer holds.
Visible ==
    IF \E w \in Writers : Writing(w)
    THEN target[CHOOSE w \in Writers : Writing(w)]
    ELSE table

Atomic == INSTANCE AtomicPortfolio WITH
              Titles <- Names, rows <- Visible, title <- name

\* Threads and runs that take turns make atomic edits: deleting and inserting row
\* by row ends in exactly the portfolio in memory, the figure fetched for an added
\* row is filled in on that row, and a run neither brings back rows nor a name it
\* loaded before.
ImplementsAtomic == Atomic!AtomicSpec
=============================================================================
