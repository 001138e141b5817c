----------------------------- MODULE PriceCache -----------------------------
(***************************************************************************)
(* The `cache` table (price, country and sector weights per ISIN) and the  *)
(* processes that use it: update runs, workers of the server, curations.   *)
(* Each loads the whole table into a dictionary at its start               *)
(* (`RuntimeContext.cache`) and from then on treats the dictionary as the  *)
(* source of truth: `ensure_cache_loaded` writes it back, whole, before    *)
(* every position that is built and before every figure that is staged.    *)
(*                                                                         *)
(* The connection is in autocommit mode, so every statement is an action:  *)
(* one row written back, the read and the write of an upsert.  That        *)
(* `get_or_create` is up to three statements makes no difference: it       *)
(* returns the row as one of its two reads finds it.                       *)
(*                                                                         *)
(* A figure is a number: 0 is none, 1 was there at the start, each fetch   *)
(* gets the next number.  An empty split that a failed fetch stages counts *)
(* as a figure, too.                                                       *)
(***************************************************************************)
EXTENDS Naturals

CONSTANTS
  Procs,        \* processes with a RuntimeContext
  Isins,
  Fields,       \* fields of a CacheEntry
  Price,        \* the one that is also fetched when it is missing
  QuoteRuns,    \* processes with --fetch-prices
  SplitRuns,    \* ... with the flags for splits
  Curations,    \* `asalloc curate`
  MaxFetches,   \* bound: fetches that found something
  NoRow         \* the table has no row for an ISIN

ASSUME PriceIsField == Price \in Fields
ASSUME FetchesBounded == MaxFetches \in Nat

Figures == 0..(MaxFetches + 1)
Row == [Fields -> Figures]

ASSUME SomeIsins == Isins # {}
ASSUME NoRowIsNoRow == NoRow \notin Row

VARIABLES
  table,        \* the cache table
  pc,           \* where a process is, "off" before its first load
  copy,         \* `ctx.cache`
  left,         \* ISINs a write-back has still to write
  hand,         \* ISIN of the position that is built
  wanted,       \* fields to fetch for it
  news,         \* what was fetched: field -> figure
  merged,       \* the row an upsert is about to write
  dirty,        \* `ctx.cache_dirty`
  clock,        \* number of the last fetch (bound)
  solo          \* history: nobody else changed the table since the load

vars == <<table, pc, copy, left, hand, wanted, news, merged, dirty, clock, solo>>

EmptyRow == [f \in Fields |-> 0]

\* A row with the fetched figures merged into it; `get_or_create` has made
\* an empty one if there was none.
OrEmpty(row) == IF row = NoRow THEN EmptyRow ELSE row
Merge(row, partial) ==
  [f \in Fields |-> IF f \in DOMAIN partial THEN partial[f] ELSE row[f]]

\* The fields a process fetches and stages, given the cached row: those its
\* flags ask for, and a missing price.  A curation stages splits only.
Wanted(p, row) ==
  {f \in Fields : IF f = Price THEN p \notin Curations /\ (p \in QuoteRuns \/ row[f] = 0)
                              ELSE p \in SplitRuns \union Curations}

\* The figure in the table.
Figure(i, f) == OrEmpty(table[i])[f]

Known(rows) == {i \in Isins : rows[i] # NoRow}

\* Where a `restore` of the dictionary is under way.
WritingBack == {"sync", "resync", "flush"}

Table == [Isins -> Row \union {NoRow}]
Partial == UNION {[S -> Figures] : S \in SUBSET Fields}

TypeOK ==
  /\ table \in Table
  /\ pc \in [Procs -> {"off", "ready", "sync", "fetch", "resync", "put", "mirror", "flush"}]
  /\ copy \in [Procs -> Table]
  /\ left \in [Procs -> SUBSET Isins]
  /\ hand \in [Procs -> Isins]
  /\ wanted \in [Procs -> SUBSET Fields]
  /\ news \in [Procs -> Partial]
  /\ merged \in [Procs -> Row]
  /\ dirty \in [Procs -> BOOLEAN]
  /\ clock \in 1..(MaxFetches + 1)
  /\ solo \in [Procs -> BOOLEAN]
  /\ \A p \in Procs :
       left[p] \subseteq IF pc[p] \in WritingBack THEN Known(copy[p]) ELSE {}

\* What a process has in hand when it has nothing in hand.
Nothing == [f \in {} |-> 0]
SomeIsin == CHOOSE i \in Isins : TRUE

Init ==
  /\ table \in [Isins -> [Fields -> {0, 1}] \union {NoRow}]
  /\ pc = [p \in Procs |-> "off"]
  /\ copy = [p \in Procs |-> [i \in Isins |-> NoRow]]
  /\ left = [p \in Procs |-> {}]
  /\ hand = [p \in Procs |-> SomeIsin]
  /\ wanted = [p \in Procs |-> {}]
  /\ news = [p \in Procs |-> Nothing]
  /\ merged = [p \in Procs |-> EmptyRow]
  /\ dirty = [p \in Procs |-> FALSE]
  /\ clock = 1
  /\ solo = [p \in Procs |-> FALSE]

-----------------------------------------------------------------------------

Goto(p, where) == pc' = [pc EXCEPT ![p] = where]

\* The locals of `factory` and `save_position_in_cache` are gone.
Forget(p) ==
  /\ wanted' = [wanted EXCEPT ![p] = {}]
  /\ news' = [news EXCEPT ![p] = Nothing]
  /\ merged' = [merged EXCEPT ![p] = EmptyRow]
  /\ hand' = [hand EXCEPT ![p] = SomeIsin]

Return(p) == Goto(p, "ready") /\ Forget(p)

\* Process p makes row the row of i; the others see the table change.
WriteRow(p, i, row) ==
  /\ table' = [table EXCEPT ![i] = row]
  /\ solo' = [q \in Procs |-> solo[q] /\ (q = p \/ table[i] = row)]

\* Mutant: rows the dictionary does not have are written back, too.
MutWriteBackAll(p) == left' = [left EXCEPT ![p] = Isins]

\* `restore` of the whole dictionary starts.
WriteBack(p) == left' = [left EXCEPT ![p] = Known(copy[p])]

\* The first `ensure_cache_loaded`: one SELECT.
Load(p) ==
  /\ pc[p] = "off"
  /\ copy' = [copy EXCEPT ![p] = table]
  /\ dirty' = [dirty EXCEPT ![p] = FALSE]
  /\ solo' = [solo EXCEPT ![p] = TRUE]
  /\ Goto(p, "ready")
  /\ UNCHANGED <<table, left, hand, wanted, news, merged, clock>>

\* `factory(isin)` begins with `ensure_cache_loaded` ...
Build(p, i) ==
  /\ pc[p] = "ready"
  /\ hand' = [hand EXCEPT ![p] = i]
  /\ WriteBack(p)
  /\ Goto(p, "sync")
  /\ UNCHANGED <<table, copy, wanted, news, merged, dirty, clock, solo>>

\* ... which puts every row of the dictionary into the table ...
RestoreRow(p, i) ==
  /\ pc[p] \in WritingBack
  /\ i \in left[p]
  /\ left' = [left EXCEPT ![p] = @ \ {i}]
  /\ WriteRow(p, i, copy[p][i])
  /\ UNCHANGED <<pc, copy, hand, wanted, news, merged, dirty, clock>>

\* ... and looks up what is cached.
ReadCached(p) ==
  /\ pc[p] = "sync"
  /\ left[p] = {}
  /\ wanted' = [wanted EXCEPT ![p] = Wanted(p, OrEmpty(table[hand[p]]))]
  /\ Goto(p, "fetch")
  /\ UNCHANGED <<table, copy, left, hand, news, merged, dirty, clock, solo>>

\* The vendor is asked.  Nothing to stage: nothing wanted, or nothing found.
FetchNothing(p) ==
  /\ pc[p] = "fetch"
  /\ Return(p)
  /\ UNCHANGED <<table, copy, left, dirty, clock, solo>>

\* Figures are found for some of the fields; `save_position_in_cache` calls
\* `ensure_cache_loaded` again.
Fetch(p, found) ==
  /\ pc[p] = "fetch"
  /\ found # {}
  /\ found \subseteq wanted[p]
  /\ clock < MaxFetches + 1
  /\ clock' = clock + 1
  /\ news' = [news EXCEPT ![p] = [f \in found |-> clock']]
  /\ WriteBack(p)
  /\ Goto(p, "resync")
  /\ UNCHANGED <<table, copy, hand, wanted, merged, dirty, solo>>

\* `stage` -> `upsert`: the row is read, or created empty, and merged ...
UpsertRead(p) ==
  /\ pc[p] = "resync"
  /\ left[p] = {}
  /\ WriteRow(p, hand[p], OrEmpty(table[hand[p]]))
  /\ merged' = [merged EXCEPT ![p] = Merge(OrEmpty(table[hand[p]]), news[p])]
  /\ Goto(p, "put")
  /\ UNCHANGED <<copy, left, hand, wanted, news, dirty, clock>>

\* ... and written, ...
UpsertPut(p) ==
  /\ pc[p] = "put"
  /\ WriteRow(p, hand[p], merged[p])
  /\ Goto(p, "mirror")
  /\ UNCHANGED <<copy, left, hand, wanted, news, merged, dirty, clock>>

\* ... or rejected, when a weight is no fraction: a curation keeps what is
\* stored.  Its second try, with the valid split alone, is as if only that
\* one had been found.  An update fails (Leave).
KeepPrevious(p) ==
  /\ pc[p] = "put"
  /\ p \in Curations
  /\ Return(p)
  /\ UNCHANGED <<table, copy, left, dirty, clock, solo>>

\* Mutant: the staged row is not copied into the dictionary.
MutMirrorNothing(p) ==
  /\ pc[p] = "mirror"
  /\ dirty' = [dirty EXCEPT ![p] = TRUE]
  /\ Return(p)
  /\ UNCHANGED <<table, copy, left, clock, solo>>

\* `_mirror_cache_row`, `mark_cache_dirty`.
MirrorRow(p) ==
  /\ pc[p] = "mirror"
  /\ copy' = [copy EXCEPT ![p][hand[p]] = table[hand[p]]]
  /\ dirty' = [dirty EXCEPT ![p] = TRUE]
  /\ Return(p)
  /\ UNCHANGED <<table, left, clock, solo>>

\* `flush_cache` at the end of an update; without staged rows it does nothing.
FlushBegins(p) ==
  /\ pc[p] = "ready"
  /\ p \notin Curations
  /\ dirty[p]
  /\ WriteBack(p)
  /\ Goto(p, "flush")
  /\ UNCHANGED <<table, copy, hand, wanted, news, merged, dirty, clock, solo>>

FlushEnds(p) ==
  /\ pc[p] = "flush"
  /\ left[p] = {}
  /\ dirty' = [dirty EXCEPT ![p] = FALSE]
  /\ Return(p)
  /\ UNCHANGED <<table, copy, left, clock, solo>>

\* The process ends (a curation never flushes), fails, or is killed.
Leave(p) ==
  /\ pc[p] # "off"
  /\ pc' = [pc EXCEPT ![p] = "off"]
  /\ copy' = [copy EXCEPT ![p] = [i \in Isins |-> NoRow]]
  /\ left' = [left EXCEPT ![p] = {}]
  /\ dirty' = [dirty EXCEPT ![p] = FALSE]
  /\ solo' = [solo EXCEPT ![p] = FALSE]
  /\ Forget(p)
  /\ UNCHANGED <<table, clock>>

ProcStep(p) ==
  \/ Load(p)
  \/ \E i \in Isins : Build(p, i) \/ RestoreRow(p, i)
  \/ ReadCached(p)
  \/ FetchNothing(p)
  \/ \E found \in SUBSET Fields : Fetch(p, found)
  \/ UpsertRead(p)
  \/ UpsertPut(p)
  \/ KeepPrevious(p)
  \/ MirrorRow(p)
  \/ FlushBegins(p)
  \/ FlushEnds(p)
  \/ Leave(p)

Next == \E p \in Procs : ProcStep(p)

Spec == Init /\ [][Next]_vars

-----------------------------------------------------------------------------
(* Properties. *)

\* A step of process p itself.
Moves(p) == pc'[p] # pc[p] \/ left'[p] # left[p]

\* As long as nobody else writes, a process changes no figure but those it
\* fetched, for the ISIN it fetched them for: writing the dictionary back
\* again and again restores no old figure, staging one field leaves the
\* others alone, and the flush at the end changes nothing.
SoloWritesOnlyNews ==
  [][\A p \in Procs : solo[p] /\ Moves(p) =>
       \A i \in Isins, f \in Fields :
         \/ Figure(i, f)' = Figure(i, f)
         \/ i = hand[p] /\ f \in DOMAIN news[p] /\ Figure(i, f)' = news[p][f]]_vars
=============================================================================
