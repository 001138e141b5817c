------------------------------- MODULE UpdateRun -------------------------------
(***************************************************************************)
(* One run of cli.update.main: load the portfolio, read each broker that   *)
(* was asked for and merge what it reports, persist, build every position, *)
(* persist what the positions computed, write the charts.                  *)
(*                                                                         *)
(* A row has a value and a number of shares; a quote turns one into the    *)
(* other.  Numbers are small integers: what was stored, what was scraped   *)
(* and what was computed do not coincide by accident.                      *)
(***************************************************************************)
EXTENDS BrokerFetch, SequencesExt

CONSTANTS
    NBuckets,       \* asset classes, numbered in the order of the dict
    CashBucket,     \* the one of cash rows
    BucketOf,       \* the one the registry or the cockpit gives an ISIN
    OtherBrokers,   \* what rows that no run reads may name as their broker
    Portfolios(_),  \* bound: the stored portfolios a run that reads the brokers
                    \* given may find
    Caches,         \* bound: the cached prices it may find
    ScrapeSets      \* bound: the sets of brokers a run may read

Buckets == 1 .. NBuckets

\* What a row is listed under.  "other": a row without ISIN under a name of the
\* user's own.
Names == {"overnight", "cash", "other"}
Owners == Brokers \union OtherBrokers
Ids == Isins \union Names
Figures == Int \union {NoFigure}
Row(id, b, value, shares) == [id |-> id, broker |-> b, value |-> value, shares |-> shares]
Rows == [id : Ids, broker : Owners, value : Figures, shares : Figures]
Lists == [Buckets -> Seq(Rows)]

ASSUME UpdateAssumption ==
    /\ NBuckets \in Nat \ {0}
    /\ CashBucket \in Buckets
    /\ IsFiniteSet(Isins)
    /\ Isins \intersect Names = {}
    /\ NoFigure \notin Int
    /\ BucketOf \in [Isins -> Buckets]
    /\ ScrapeSets \subseteq SUBSET Brokers
    /\ \A bs \in ScrapeSets : Portfolios(bs) \subseteq Lists
    /\ Caches \subseteq [Isins -> (Nat \ {0}) \union {NoFigure}]

VARIABLES
    stored,     \* the user's positions in the store
    quotes,     \* cached prices
    scrape,     \* the --fetch-<broker> flags
    fetchPrices,    \* --fetch-prices
    phase,      \* where the run is
    portfolio,  \* ctx.portfolio
    pendingShares, pendingValues,   \* the queues of the factory
    charted,    \* the values of the positions built so far
    charts,     \* the values the chart files were drawn from
    doubled     \* history: the portfolio loaded had a holding twice

runVars == <<stored, quotes, scrape, fetchPrices, phase, portfolio,
             pendingShares, pendingValues, charted, charts, doubled>>
vars == <<fetchVars, runVars>>

ScrapedShares == 3
CachedQuote == 1
FreshQuote == 2

Empty == [b \in Buckets |-> <<>>]
Cells(p) == UNION {{b} \X (1 .. Len(p[b])) : b \in Buckets}
RowAt(p, c) == p[c[1]][c[2]]
CellsOf(p, b) == {c \in Cells(p) : RowAt(p, c).broker = b}
Before(c, d) == c[1] < d[1] \/ (c[1] = d[1] /\ c[2] < d[2])

\* The portfolio with the row g[c] at each cell c of p.
Mapped(p, g) == [b \in Buckets |-> [k \in 1 .. Len(p[b]) |-> g[<<b, k>>]]]

\* The numbers of S in ascending order; the rows at these places of a list.
Ascending(S) ==
    [j \in 1 .. Cardinality(S) |-> CHOOSE k \in S : Cardinality({i \in S : i <= k}) = j]
Picked(rows, S) == [j \in 1 .. Cardinality(S) |-> rows[Ascending(S)[j]]]

\* No two rows of the portfolio are the same holding of the same broker.
Unique(p) ==
    \A c, d \in Cells(p) :
        RowAt(p, c).id = RowAt(p, d).id /\ RowAt(p, c).broker = RowAt(p, d).broker => c = d

\* OSKAR's rows without ISIN, the Tagesgeld aside.
Nameless(row) == row.broker = "oskar" /\ row.id \notin Isins \union {"overnight"}

\* What the merges take for the same holding: OSKAR's nameless rows are one.
Alike(r, s) == r.broker = s.broker /\ (r.id = s.id \/ (Nameless(r) /\ Nameless(s)))

NoQueue == [k \in {} |-> NoFigure]

Init ==
    /\ FetchInit
    /\ scrape \in ScrapeSets
    /\ \A b \in Brokers \ scrape : account[b] = {}
    /\ fetchPrices \in BOOLEAN
    /\ stored \in Portfolios(scrape)
    /\ quotes \in Caches
    /\ phase = "load"
    /\ portfolio = Empty
    /\ pendingShares = NoQueue /\ pendingValues = NoQueue
    /\ charted = Empty
    /\ charts = Empty
    /\ doubled = FALSE

-----------------------------------------------------------------------------
(* Reading the brokers, one after the other.                               *)

Order == <<"oskar", "scalable", "traderepublic">>
Place(b) == CHOOSE k \in DOMAIN Order : Order[k] = b

\* On to the first of the brokers bs, or to the positions.
ReadNext(bs) ==
    IF bs = {}
    THEN /\ phase' = "compose"
         /\ fetched' = NoHoldings /\ missed' = FALSE
         /\ UNCHANGED <<account, broker, fstep, page, browser, sc, session, scrapeVars>>
    ELSE /\ phase' = "fetch"
         /\ StartFetch(Order[CHOOSE k \in DOMAIN Order :
                               Order[k] \in bs /\ \A b \in bs : k <= Place(b)])

\* load_portfolio, ensure_cache_loaded.
Load ==
    /\ phase = "load"
    /\ portfolio' = stored
    /\ doubled' = \E c, d \in Cells(stored) : c # d /\ Alike(RowAt(stored, c), RowAt(stored, d))
    /\ ReadNext(scrape)
    /\ UNCHANGED <<stored, quotes, scrape, fetchPrices, pendingShares,
                   pendingValues, charted, charts>>

Fetch ==
    /\ phase = "fetch"
    /\ FetchNext
    /\ UNCHANGED runVars

-----------------------------------------------------------------------------
(* update_<broker>_etfs_in_portfolio.                                      *)

HomeBucket(id) == IF id \in Isins THEN BucketOf[id] ELSE CashBucket

\* OSKAR reports no share counts, and nobody one for an account.
Count(b, id) == IF id \in Isins /\ b # "oskar" THEN ScrapedShares ELSE NoFigure
Refreshed(row, b, f) ==
    [row EXCEPT !.value = f[row.id],
                !.shares = IF b = "oskar" THEN row.shares ELSE Count(b, row.id)]

\* The holdings for which no row was refreshed, and the rows they get.
Fresh(p, f, hit) == {id \in DOMAIN f : \A c \in hit : RowAt(p, c).id # id}
NewRows(b, f, ids) ==
    LET order == SetToSeq(ids)
    IN  [j \in 1 .. Cardinality(ids) |-> Row(order[j], b, f[order[j]], Count(b, order[j]))]

\* The rows in hit get the holding of their id, the rows in gone are removed, a
\* holding without a row gets one in its bucket.
Merged(p, b, f, hit, gone) ==
    LET marked == Mapped(p, [c \in Cells(p) |-> IF c \in hit THEN Refreshed(RowAt(p, c), b, f)
                                                ELSE RowAt(p, c)])
    IN  [k \in Buckets |->
            Picked(marked[k], {j \in 1 .. Len(p[k]) : <<k, j>> \notin gone})
            \o NewRows(b, f, {id \in Fresh(p, f, hit) : HomeBucket(id) = k})]

\* OSKAR: only the first row of an ISIN is looked at (scanned_oskar_isins), be
\* it updated or removed; a row without ISIN is removed unless it is the
\* Tagesgeld, and from then on hides every row without ISIN, the Tagesgeld too.
Firsts(p) ==
    {c \in CellsOf(p, "oskar") :
        /\ RowAt(p, c).id \in Isins
        /\ \A d \in CellsOf(p, "oskar") : Before(d, c) => RowAt(p, d).id # RowAt(p, c).id}
FirstNameless(p) ==
    {c \in Cells(p) : /\ Nameless(RowAt(p, c))
                      /\ \A d \in Cells(p) : Nameless(RowAt(p, d)) => ~Before(d, c)}

\* Pass over the rows for the first ETF: what comes after the first nameless
\* row is skipped; in later passes every row without ISIN is.
Hidden(p, f, c) ==
    \E d \in Cells(p) :
        Nameless(RowAt(p, d)) /\ (DOMAIN f \intersect Isins = {} => Before(d, c))

OskarMerge(p, f) ==
    LET savings == {c \in CellsOf(p, "oskar") :
                        RowAt(p, c).id = "overnight" /\ ~Hidden(p, f, c)}
        gone == {c \in Firsts(p) : RowAt(p, c).id \notin DOMAIN f} \union FirstNameless(p)
        hit == {c \in Firsts(p) \union savings : RowAt(p, c).id \in DOMAIN f}
    IN  Merged(p, "oskar", f, hit, gone)

\* Mutant: rows of every broker are taken for the one that was read.
MutMerge(p, b, f) ==
    LET hit == {c \in Cells(p) : RowAt(p, c).id \in DOMAIN f}
    IN  Merged(p, b, f, hit, CellsOf(p, b) \ hit)

\* Scalable and Trade Republic: every row of the broker is refreshed or removed.
PlainMerge(p, b, f) ==
    LET hit == {c \in CellsOf(p, b) : RowAt(p, c).id \in DOMAIN f}
    IN  Merged(p, b, f, hit, CellsOf(p, b) \ hit)

\* Nothing fetched leaves the portfolio as it is.
MergeHoldings(p, b, f) ==
    IF DOMAIN f = {} THEN p
    ELSE IF b = "oskar" THEN OskarMerge(p, f)
    ELSE PlainMerge(p, b, f)

\* The unit prices Scalable and Trade Republic report go to the cache.
BrokerQuotes(b, f) ==
    IF fetchPrices /\ b # "oskar"
    THEN [i \in Isins |-> IF i \in DOMAIN f THEN FreshQuote ELSE quotes[i]]
    ELSE quotes

Merge ==
    /\ phase = "fetch" /\ fstep = "fetched"
    /\ portfolio' = MergeHoldings(portfolio, broker, fetched)
    /\ quotes' = BrokerQuotes(broker, fetched)
    /\ phase' = IF broker = "oskar" THEN "estimate" ELSE "persist"
    /\ UNCHANGED <<fetchVars, stored, scrape, fetchPrices, pendingShares,
                   pendingValues, charted, charts, doubled>>

\* OSKAR reports no share counts: they are derived from value and quote.
SharesFor(value, quote) == value \div quote

\* _estimate_oskar_shares_with_fresh_quotes: one quote for each ISIN of OSKAR;
\* those that cannot be had are skipped.
Estimate ==
    /\ phase = "estimate"
    /\ \E answered \in SUBSET Isins :
         LET priced == {c \in CellsOf(portfolio, "oskar") :
                          /\ ~fetchPrices
                          /\ RowAt(portfolio, c).id \in answered
                          /\ RowAt(portfolio, c).value # NoFigure}
             ids == {RowAt(portfolio, c).id : c \in priced}
         IN  /\ answered = ids
             /\ portfolio' = Mapped(portfolio, [c \in Cells(portfolio) |->
                    IF c \in priced
                    THEN [RowAt(portfolio, c) EXCEPT
                            !.shares = SharesFor(RowAt(portfolio, c).value, FreshQuote)]
                    ELSE RowAt(portfolio, c)])
             /\ quotes' = [i \in Isins |-> IF i \in ids THEN FreshQuote ELSE quotes[i]]
    /\ phase' = "persist"
    /\ UNCHANGED <<fetchVars, stored, scrape, fetchPrices, pendingShares,
                   pendingValues, charted, charts, doubled>>

\* ctx.persist_portfolio, then the next broker.
Persist ==
    /\ phase = "persist"
    /\ stored' = portfolio
    /\ ReadNext({b \in scrape : Place(b) > Place(broker)})
    /\ UNCHANGED <<quotes, scrape, fetchPrices, portfolio, pendingShares,
                   pendingValues, charted, charts, doubled>>

-----------------------------------------------------------------------------
(* Building the positions: position.factory and Position.__init__.         *)

\* _scrape_holdings_value_prevails.
ValuePrevails(row) ==
    /\ row.value # NoFigure
    /\ row.broker \in Brokers
    /\ row.broker \in scrape \/ ~fetchPrices

\* The quote a position ends up with when a lookup gives answer.
Price(row, answer) ==
    CASE row.id \notin Isins -> NoFigure
      [] fetchPrices /\ answer # NoFigure -> answer
      [] ~fetchPrices /\ quotes[row.id] = NoFigure -> answer
      [] OTHER -> quotes[row.id]

\* shares x quote, if both are there and the stored value does not prevail.
FromQuote(row, price) ==
    ~ValuePrevails(row) /\ row.shares # NoFigure /\ price # NoFigure

HoldingsValue(row, price) ==
    IF FromQuote(row, price) THEN row.shares * price ELSE row.value

\* The bucket being built: the first with rows that are not built yet.
Unbuilt == {c \in Cells(portfolio) : c[2] = Len(charted[c[1]]) + 1}
NextCell == CHOOSE c \in Unbuilt : \A d \in Unbuilt : ~Before(d, c)

\* A bucket that is complete adds up its values, which fails on a None.
SumFails ==
    \E b \in Buckets : /\ Len(charted[b]) = Len(portfolio[b])
                       /\ \E k \in DOMAIN charted[b] : charted[b][k] = NoFigure

\* _stage_fetched_asset_value.
Queued(row, price) == fetchPrices /\ FromQuote(row, price)

\* OSKAR gives no share count: value / quote, on runs that fetched both.
OskarShares(row, price) ==
    /\ ValuePrevails(row) /\ row.broker = "oskar" /\ row.broker \in scrape
    /\ fetchPrices /\ price # NoFigure

\* What the queue of values knows a row by.
Holder(row) == <<row.id, row.broker>>

Assign(q, cond, key, x) == IF cond THEN [k \in DOMAIN q \union {key} |->
                                           IF k = key THEN x ELSE q[k]]
                           ELSE q

Build ==
    /\ phase = "compose"
    /\ Unbuilt # {} /\ ~SumFails
    /\ \E answer \in {NoFigure, FreshQuote} :
         LET c == NextCell
             row == RowAt(portfolio, c)
             price == Price(row, answer)
         IN  /\ row.id \in Isins \/ row.value # NoFigure \/ fetchPrices
             /\ charted' = [charted EXCEPT ![c[1]] = Append(@, HoldingsValue(row, price))]
             /\ pendingValues' = Assign(pendingValues, Queued(row, price),
                                        Holder(row), HoldingsValue(row, price))
             /\ pendingShares' = Assign(pendingShares, OskarShares(row, price),
                                        <<row.id, row.value>>, SharesFor(row.value, price))
             /\ quotes' = IF row.id \in Isins /\ price # NoFigure
                          THEN [quotes EXCEPT ![row.id] = price] ELSE quotes
    /\ UNCHANGED <<fetchVars, stored, scrape, fetchPrices, phase, portfolio, charts, doubled>>

Composed ==
    /\ phase = "compose"
    /\ Unbuilt = {} /\ ~SumFails
    /\ phase' = "shares"
    /\ UNCHANGED <<fetchVars, stored, quotes, scrape, fetchPrices, portfolio,
                   pendingShares, pendingValues, charted, charts, doubled>>

\* The rows of p with what is queued for them.
WithShares(p, queue) ==
    Mapped(p, [c \in Cells(p) |->
        IF RowAt(p, c).broker = "oskar" /\ <<RowAt(p, c).id, RowAt(p, c).value>> \in DOMAIN queue
        THEN [RowAt(p, c) EXCEPT !.shares = queue[<<RowAt(p, c).id, RowAt(p, c).value>>]]
        ELSE RowAt(p, c)])

WithValues(p, queue) ==
    Mapped(p, [c \in Cells(p) |->
        IF Holder(RowAt(p, c)) \in DOMAIN queue
        THEN [RowAt(p, c) EXCEPT !.value = queue[Holder(RowAt(p, c))]]
        ELSE RowAt(p, c)])

\* persist_oskar_shares_in_portfolio: only what changed is a reason to write.
PersistShares ==
    /\ phase = "shares"
    /\ portfolio' = WithShares(portfolio, pendingShares)
    /\ stored' = IF portfolio' # portfolio THEN portfolio' ELSE stored
    /\ pendingShares' = NoQueue
    /\ phase' = "values"
    /\ UNCHANGED <<fetchVars, quotes, scrape, fetchPrices, pendingValues, charted, charts, doubled>>

\* Mutant: the computed values stay in memory.
MutPersistValues ==
    /\ phase = "values"
    /\ pendingValues' = NoQueue
    /\ phase' = "plot"
    /\ UNCHANGED <<fetchVars, stored, portfolio, quotes, scrape, fetchPrices,
                   pendingShares, charted, charts, doubled>>

\* persist_fetched_values_in_portfolio.
PersistValues ==
    /\ phase = "values"
    /\ portfolio' = WithValues(portfolio, pendingValues)
    /\ stored' = IF DOMAIN pendingValues # {} THEN portfolio' ELSE stored
    /\ pendingValues' = NoQueue
    /\ phase' = "plot"
    /\ UNCHANGED <<fetchVars, quotes, scrape, fetchPrices, pendingShares, charted, charts, doubled>>

\* The charts of the last run make way for this one's.
Plot ==
    /\ phase = "plot"
    /\ charts' = charted
    /\ phase' = "done"
    /\ UNCHANGED <<fetchVars, stored, quotes, scrape, fetchPrices, portfolio,
                   pendingShares, pendingValues, charted, doubled>>

Die ==
    /\ phase' = "dead"
    /\ UNCHANGED <<fetchVars, stored, quotes, scrape, fetchPrices, portfolio,
                   pendingShares, pendingValues, charted, charts, doubled>>

\* A broker that could not be read ends the run.
FetchFails == phase = "fetch" /\ fstep = "failed" /\ Die

\* A position without price, value or ISIN, or a sum with a None in it.
ComposeFails ==
    /\ phase = "compose"
    /\ \/ SumFails
       \/ /\ Unbuilt # {} /\ ~fetchPrices
          /\ RowAt(portfolio, NextCell).id \notin Isins
          /\ RowAt(portfolio, NextCell).value = NoFigure
    /\ Die

\* UpdateCancelled, raised between two positions.
Cancel == phase = "compose" /\ Unbuilt # {} /\ Die

Advance ==
    \/ Load \/ Merge \/ Estimate \/ Persist \/ Build \/ Composed
    \/ PersistShares \/ PersistValues \/ Plot \/ FetchFails \/ ComposeFails

Ended == phase \in {"done", "dead"} /\ UNCHANGED vars

Next == Fetch \/ Advance \/ Cancel \/ Ended

Spec == Init /\ [][Next]_vars

\* The run goes on, pages and commands answer or time out, deadlines pass.
FairSpec ==
    /\ Spec
    /\ WF_vars(Advance)
    /\ WF_vars(phase = "fetch" /\ Waiting /\ UNCHANGED runVars)
    /\ WF_vars(phase = "fetch" /\ Deadlines /\ UNCHANGED runVars)

-----------------------------------------------------------------------------
(* Properties.                                                             *)

\* The finally blocks of the three clients: whatever failed on the way, no
\* broker session and no browser is left open when the reading is over.
SessionsEnd == phase # "fetch" => ~session /\ ~browser

\* The merges "skip" the rows of other brokers: these keep their figures and
\* their order, whatever is removed, refreshed and appended around them.
OtherRows(rows, b) == Picked(rows, {k \in DOMAIN rows : rows[k].broker # b})
OthersUntouched ==
    [][portfolio' # portfolio /\ phase = "fetch" =>
         \A b \in Buckets : OtherRows(portfolio'[b], broker) = OtherRows(portfolio[b], broker)]_vars

\* The holdings a stored portfolio shows for broker b.  OSKAR's Tagesgeld is
\* left in place when OSKAR reports none.
Shown(p, b) ==
    {RowAt(p, c).id : c \in CellsOf(p, b)} \ (IF b = "oskar" THEN {"overnight"} ELSE {})

\* A portfolio without duplicates (doubled) mirrors the broker once its holdings are
\* merged, unless a failure was swallowed on the way: what the user sold is
\* gone, what was bought is there, each holding once and with its new figure,
\* however the cockpit folded its tree meanwhile.
MirrorsBroker ==
    phase \in {"estimate", "persist"} /\ ~missed /\ account[broker] # {} /\ ~doubled =>
        /\ Shown(portfolio, broker) =
             account[broker] \ (IF broker = "oskar" THEN {"overnight"} ELSE {})
        /\ \A id \in account[broker] : \E c \in CellsOf(portfolio, broker) :
             RowAt(portfolio, c).id = id /\ RowAt(portfolio, c).value = fetched[id]
        /\ \A c, d \in CellsOf(portfolio, broker) :
             RowAt(portfolio, c).id = RowAt(portfolio, d).id /\ RowAt(portfolio, c).id \in Isins
             => c = d

\* After a --fetch-prices run the charts and the constituents page agree: the
\* store holds the very values the charts were drawn from, unless the same
\* holding is stored twice.
ChartsMatchStore ==
    phase = "done" /\ fetchPrices /\ Unique(portfolio) =>
        \A c \in Cells(stored) : RowAt(stored, c).value = charts[c[1]][c[2]]

\* Every run ends, whatever pages, commands and prompts do.
RunEnds == <>(phase \in {"done", "dead"})
=============================================================================
