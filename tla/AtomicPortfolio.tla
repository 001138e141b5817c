---------------------------- MODULE AtomicPortfolio ----------------------------
(***************************************************************************)
(* What the constituents endpoints and the update promise a user: a        *)
(* portfolio of lists without gaps on which every edit takes effect at     *)
(* once and completely.                                                    *)
(***************************************************************************)
EXTENDS PortfolioLayout

CONSTANTS Titles

VARIABLES
    rows,   \* the user's rows
    title   \* the portfolio name

atomicVars == <<rows, title>>

AtomicInit == rows \in Layouts /\ Snapshot(rows) = rows /\ title \in Titles

\* Bucket b becomes f and nothing else changes.
SetBucket(b, f) == rows' = [rows EXCEPT ![b] = f] /\ UNCHANGED title

\* The user types a figure in, or the row is valued at its own price.
SetFigure(b, k) ==
    /\ k \in Used(rows[b])
    /\ \E fig \in {"typed", rows[b][k].id} : SetBucket(b, WithFigure(rows[b], k, fig))

Move(b) == \E order \in Orders(rows[b]) : SetBucket(b, Reordered(rows[b], order))

Remove(b, k) == k \in Used(rows[b]) /\ SetBucket(b, Without(rows[b], k))

\* A row the portfolio does not hold yet.
Insert(b, row) ==
    /\ NextIndex(rows[b]) \in Idx
    /\ row.fig \in {"missing", "typed"}
    /\ \A held \in RowsOf(rows) : held.id # row.id
    /\ SetBucket(b, Appended(rows[b], row))

Retitle(t) == title' = t /\ UNCHANGED rows

AtomicNext ==
    \/ \E b \in Buckets, k \in Idx : SetFigure(b, k) \/ Remove(b, k)
    \/ \E b \in Buckets : Move(b) \/ \E row \in Rows : Insert(b, row)
    \/ \E t \in Titles : Retitle(t)

AtomicSpec == AtomicInit /\ [][AtomicNext]_atomicVars
=============================================================================
