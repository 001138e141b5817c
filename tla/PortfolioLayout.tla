---------------------------- MODULE PortfolioLayout ----------------------------
(***************************************************************************)
(* One user's rows of the user_positions table and the edits of a bucket   *)
(* as functions on them.                                                   *)
(*                                                                         *)
(* A layout gives every primary key (bucket, position_idx) of the user its *)
(* row, or NoRow.  A row is an identity (name, ISIN and broker together)   *)
(* and a figure: the value/shares pair reduced to where it comes from.     *)
(***************************************************************************)
EXTENDS Integers, FiniteSets

CONSTANTS
    Buckets,    \* asset classes
    RowIds,     \* identities of rows
    MaxRows,    \* bound: rows of a bucket
    NoRow       \* no row under this key

\* A figure is missing, was typed in by the user, or was computed from the
\* price of the row with that identity.
Figures == {"missing", "typed"} \union RowIds
Rows == [id : RowIds, fig : Figures]
Idx == 0 .. MaxRows - 1
Layouts == [Buckets -> [Idx -> Rows \union {NoRow}]]

ASSUME LayoutAssumption == MaxRows \in Nat /\ NoRow \notin Rows

Used(f) == {i \in DOMAIN f : f[i] # NoRow}

\* How many rows the list of the bucket has in front of the one at index i.
Rank(f, i) == Cardinality({j \in Used(f) : j < i})

\* The list a snapshot returns, sorted by position_idx, laid out from 0 on.
Compact(f) ==
    [k \in Idx |->
        IF \E i \in Used(f) : Rank(f, i) = k
        THEN f[CHOOSE i \in Used(f) : Rank(f, i) = k]
        ELSE NoRow]

Snapshot(p) == [b \in Buckets |-> Compact(p[b])]
Held(p) == {b \in Buckets : Used(p[b]) # {}}
EmptyBucket == [i \in Idx |-> NoRow]
EmptyLayout == [b \in Buckets |-> EmptyBucket]

-----------------------------------------------------------------------------
(* The edits, on the list of one bucket as a snapshot lays it out.         *)

\* Mutant: the figure replaces the row.
MutFigureOnly(f, k, fig) == [f EXCEPT ![k] = [fig |-> fig]]
WithFigure(f, k, fig) == [f EXCEPT ![k] = [id |-> f[k].id, fig |-> fig]]

\* The exact permutations of the row indices.
Orders(f) == {order \in [Used(f) -> Used(f)] :
                \A i, j \in Used(f) : order[i] = order[j] => i = j}
Reordered(f, order) ==
    [k \in Idx |-> IF k \in Used(f) THEN f[order[k]] ELSE NoRow]

Without(f, k) == Compact([f EXCEPT ![k] = NoRow])

NextIndex(f) == Cardinality(Used(f))
Appended(f, row) == [f EXCEPT ![NextIndex(f)] = row]

Keys(p) == {k \in Buckets \X Idx : p[k[1]][k[2]] # NoRow}
RowsOf(p) == {p[k[1]][k[2]] : k \in Keys(p)}

\* No row is stored under two keys.
StoredOnce(p) ==
    \A k, l \in Keys(p) : p[k[1]][k[2]].id = p[l[1]][l[2]].id => k = l
=============================================================================
