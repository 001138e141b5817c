-------------------------- MODULE PositionStoreProofs --------------------------
(***************************************************************************)
(* A write that nobody disturbs is exact, and when writers take turns the  *)
(* store implements AtomicPortfolio and keeps no row twice, for any sets   *)
(* of threads, runs, buckets and rows.                                     *)
(*                                                                         *)
(* The argument: while writer w is alone, a bucket it is done with equals  *)
(* its target (DoneIsExact), one it still has to delete is empty in the    *)
(* target (StaleIsGone), and of the bucket in hand the keys not left to    *)
(* visit are empty during the purge and as in the target during the fill   *)
(* (PurgedSoFar, FilledSoFar).  When nothing is left, everything is done.  *)
(*                                                                         *)
(* The refinement: every edit maps a list without gaps to one, so reading  *)
(* back what is stored changes nothing; the edit takes effect when its     *)
(* restore starts, and the restore, which is exact, shows nothing new.  A  *)
(* run takes effect likewise, once for every time it persists; what it     *)
(* holds meanwhile is what is stored, since nobody else is at work.        *)
(***************************************************************************)
EXTENDS PositionStore, FunctionTheorems, FiniteSetTheorems, TLAPS

\* A writer is alone at most from its survey to the end of its restore.
SoloWhileRestoring ==
    \A w \in Writers : solo[w] => phase[w] \in {"next", "purge", "fill"}

\* restore replaces every bucket its portfolio holds.
KeysCoverTarget ==
    \A w \in Writers : phase[w] = "survey" =>
        \A b \in Buckets \ todo[w] : target[w][b] = EmptyBucket

\* A bucket is stale because the portfolio in memory lacks it.
StaleIsGone ==
    \A w \in Writers : phase[w] \in {"next", "purge", "fill"} =>
        \A b \in stale[w] : b \notin todo[w] /\ target[w][b] = EmptyBucket

\* The bucket in hand is one of those to delete or to replace.
InHandIsDue ==
    \A w \in Writers :
        /\ phase[w] = "purge" => cur[w] \in stale[w] \union todo[w]
        /\ phase[w] = "fill" => cur[w] \in todo[w]

\* A bucket that is neither stale nor to be replaced is already as it should be.
DoneIsExact ==
    \A w \in Writers : solo[w] =>
        \A b \in Buckets \ (stale[w] \union todo[w]) : table[b] = target[w][b]

\* delete_bucket: the keys it has visited are gone.
PurgedSoFar ==
    \A w \in Writers : solo[w] /\ phase[w] = "purge" =>
        \A i \in Idx \ left[w] : table[cur[w]][i] = NoRow

\* batch_upsert_positions: the keys it has visited hold the rows in memory.
FilledSoFar ==
    \A w \in Writers : solo[w] /\ phase[w] = "fill" =>
        \A i \in Idx \ left[w] : table[cur[w]][i] = target[w][cur[w]][i]

\* A row whose price is being fetched has an identity.
PricedRow ==
    \A w \in Writers :
        /\ added[w] # Nothing => added[w].id \in RowIds
        /\ phase[w] = "fetch" => added[w] # Nothing

\* The inductive invariant.
WInv ==
    /\ TypeOK
    /\ PricedRow /\ SoloWhileRestoring /\ KeysCoverTarget /\ StaleIsGone
    /\ InHandIsDue /\ DoneIsExact /\ PurgedSoFar /\ FilledSoFar

-----------------------------------------------------------------------------
(* The edits of a bucket stay within the layouts.                          *)

\* What an edit computes from buckets of rows are buckets of rows.
LEMMA BucketTypes ==
    /\ EmptyBucket \in [Idx -> Rows \union {NoRow}]
    /\ \A f \in [Idx -> Rows \union {NoRow}] :
         /\ Used(f) \subseteq Idx
         /\ Compact(f) \in [Idx -> Rows \union {NoRow}]
         /\ \A k \in Used(f) :
              /\ \A fig \in Figures :
                   WithFigure(f, k, fig) \in [Idx -> Rows \union {NoRow}]
              /\ Without(f, k) \in [Idx -> Rows \union {NoRow}]
         /\ \A order \in Orders(f) : Reordered(f, order) \in [Idx -> Rows \union {NoRow}]
         /\ \A row \in Rows : Appended(f, row) \in [Idx -> Rows \union {NoRow}]
<1>. DEFINE Bucket == [Idx -> Rows \union {NoRow}]
<1>1. EmptyBucket \in Bucket
  BY DEF EmptyBucket
<1>2. \A f \in Bucket : Used(f) \subseteq Idx /\ Compact(f) \in Bucket
  BY DEF Used, Compact
<1>3. ASSUME NEW f \in Bucket, NEW k \in Used(f), NEW fig \in Figures
      PROVE  WithFigure(f, k, fig) \in Bucket
  <2>1. f[k] \in Rows
    BY DEF Used
  <2>2. [id |-> f[k].id, fig |-> fig] \in Rows
    BY <2>1 DEF Rows
  <2>. QED
    BY <2>2 DEF WithFigure
<1>4. ASSUME NEW f \in Bucket, NEW k \in Used(f) PROVE Without(f, k) \in Bucket
  <2>1. [f EXCEPT ![k] = NoRow] \in Bucket
    OBVIOUS
  <2>. QED
    BY <2>1, <1>2 DEF Without
<1>5. ASSUME NEW f \in Bucket, NEW order \in Orders(f)
      PROVE  Reordered(f, order) \in Bucket
  BY <1>2 DEF Orders, Reordered
<1>6. ASSUME NEW f \in Bucket, NEW row \in Rows PROVE Appended(f, row) \in Bucket
  BY DEF Appended
<1>. QED
  BY <1>1, <1>2, <1>3, <1>4, <1>5, <1>6

\* A snapshot of the table and a portfolio with one bucket replaced are layouts.
LEMMA LayoutTypes ==
    ASSUME NEW p \in Layouts
    PROVE  /\ Snapshot(p) \in Layouts
           /\ \A b \in Buckets, f \in [Idx -> Rows \union {NoRow}] :
                [p EXCEPT ![b] = f] \in Layouts
  BY BucketTypes DEF Layouts, Snapshot

\* A bucket that a layout does not hold is empty.
LEMMA NotHeldIsEmpty ==
    ASSUME NEW p \in Layouts, NEW b \in Buckets \ Held(p)
    PROVE  p[b] = EmptyBucket
<1>1. p[b] \in [Idx -> Rows \union {NoRow}]
  BY DEF Layouts
<1>2. Used(p[b]) = {}
  BY DEF Held
<1>3. \A i \in Idx : p[b][i] = NoRow
  BY <1>1, <1>2 DEF Used
<1>. QED
  BY <1>1, <1>3 DEF EmptyBucket

-----------------------------------------------------------------------------
(* The step.                                                               *)

\* Every edit, and every run that persists, starts a restore like this one.
LEMMA RestoreKeeps ==
    ASSUME WInv,
           NEW w \in Writers, NEW p \in Layouts, NEW keys \in SUBSET Buckets,
           \A b \in Buckets \ keys : p[b] = EmptyBucket,
           phase[w] \in {"idle", "fetch", "loaded"},
           Restore(w, p, keys),
           added' \in [Writers -> [bucket : Buckets, index : Idx \union {-1},
                                   id : RowIds \union {NoRow}]],
           \A v \in Writers : /\ added'[v] # Nothing => added'[v].id \in RowIds
                              /\ v # w => added'[v] = added[v]
    PROVE  WInv'
<1>. USE DEF WInv, Restore, Goto
<1>1. TypeOK'
  BY DEF TypeOK, Phases
<1>2. ~solo[w]
  BY DEF SoloWhileRestoring
<1>3. PricedRow'
  BY DEF PricedRow, TypeOK
<1>4. SoloWhileRestoring' /\ KeysCoverTarget'
  BY <1>2 DEF SoloWhileRestoring, KeysCoverTarget, TypeOK
<1>5. StaleIsGone' /\ InHandIsDue'
  BY DEF StaleIsGone, InHandIsDue, TypeOK
<1>6. DoneIsExact' /\ PurgedSoFar' /\ FilledSoFar'
  BY <1>2 DEF DoneIsExact, PurgedSoFar, FilledSoFar, TypeOK
<1>. QED
  BY <1>1, <1>3, <1>4, <1>5, <1>6

\* The same for an edit that replaces bucket b of the portfolio it read.
LEMMA EditKeeps ==
    ASSUME WInv,
           NEW w \in Writers, NEW p \in Layouts, NEW b \in Buckets,
           NEW f \in [Idx -> Rows \union {NoRow}],
           NEW keys \in SUBSET Buckets, Held(p) \subseteq keys, b \in keys,
           phase[w] \in {"idle", "fetch", "loaded"},
           Restore(w, [p EXCEPT ![b] = f], keys),
           added' \in [Writers -> [bucket : Buckets, index : Idx \union {-1},
                                   id : RowIds \union {NoRow}]],
           \A v \in Writers : /\ added'[v] # Nothing => added'[v].id \in RowIds
                              /\ v # w => added'[v] = added[v]
    PROVE  WInv'
<1>1. [p EXCEPT ![b] = f] \in Layouts
  BY LayoutTypes
<1>2. \A c \in Buckets \ keys : [p EXCEPT ![b] = f][c] = EmptyBucket
  BY NotHeldIsEmpty DEF Layouts
<1>. QED
  BY <1>1, <1>2, RestoreKeeps

\* What a writer's locals are outside of a restore.
LEMMA Defaults ==
    /\ NoBucket \in Buckets /\ NoName \in Names /\ EmptyLayout \in Layouts
    /\ Nothing \in [bucket : Buckets, index : Idx \union {-1},
                   id : RowIds \union {NoRow}]
<1>1. NoBucket \in Buckets /\ NoName \in Names
  BY WriterAssumption DEF NoBucket, NoName
<1>. QED
  BY <1>1, BucketTypes DEF EmptyLayout, Layouts, Nothing

\* A writer outside of a restore, or leaving one, disturbs nobody's.
LEMMA OutsideKeeps ==
    ASSUME WInv, TypeOK', PricedRow', NEW w \in Writers,
           phase'[w] \in {"idle", "fetch", "loaded", "rename"}, ~solo'[w],
           table' = table,
           \A v \in Writers \ {w} :
               /\ phase'[v] = phase[v] /\ target'[v] = target[v]
               /\ stale'[v] = stale[v] /\ todo'[v] = todo[v]
               /\ cur'[v] = cur[v] /\ left'[v] = left[v] /\ solo'[v] = solo[v]
    PROVE  WInv'
<1>. USE DEF WInv
<1>1. SoloWhileRestoring' /\ KeysCoverTarget'
  BY DEF SoloWhileRestoring, KeysCoverTarget
<1>2. StaleIsGone' /\ InHandIsDue'
  BY DEF StaleIsGone, InHandIsDue
<1>3. DoneIsExact' /\ PurgedSoFar' /\ FilledSoFar'
  BY DEF DoneIsExact, PurgedSoFar, FilledSoFar
<1>. QED
  BY <1>1, <1>2, <1>3

\* Every endpoint that edits keeps the invariant.
LEMMA EditorInv ==
    ASSUME WInv, NEW e \in Editors, EditorStep(e)
    PROVE  WInv'
<1>. DEFINE p == Snapshot(table)
<1>. e \in Writers
  BY DEF Writers
<1>1. p \in Layouts /\ Held(p) \in SUBSET Buckets
  BY LayoutTypes DEF WInv, TypeOK, Held
<1>2. \A b \in Buckets : p[b] \in [Idx -> Rows \union {NoRow}]
  BY <1>1 DEF Layouts
<1>3. \A b \in Buckets : Used(p[b]) # {} => b \in Held(p)
  BY DEF Held
<1>4. /\ added \in [Writers -> [bucket : Buckets, index : Idx \union {-1},
                             id : RowIds \union {NoRow}]]
      /\ \A v \in Writers : added[v] # Nothing => added[v].id \in RowIds
  BY DEF WInv, TypeOK, PricedRow
<1>. HIDE DEF p
<1>5. ASSUME NEW b \in Buckets, NEW k \in Idx, Edit(e, b, k) PROVE WInv'
  <2>1. "typed" \in Figures /\ k \in Used(p[b])
    BY <1>5 DEF Edit, Figures, p
  <2>2. WithFigure(p[b], k, "typed") \in [Idx -> Rows \union {NoRow}]
    BY <1>2, <2>1, BucketTypes
  <2>. QED
    BY <1>1, <1>3, <1>4, <1>5, <2>1, <2>2, EditKeeps DEF Edit, p
<1>6. ASSUME NEW b \in Buckets, NEW k \in Idx, Delete(e, b, k) PROVE WInv'
  <2>1. k \in Used(p[b]) /\ Without(p[b], k) \in [Idx -> Rows \union {NoRow}]
    BY <1>2, <1>6, BucketTypes DEF Delete, p
  <2>. QED
    BY <1>1, <1>3, <1>4, <1>6, <2>1, EditKeeps DEF Delete, p
<1>7. ASSUME NEW b \in Buckets, Reorder(e, b) PROVE WInv'
  <2>1. PICK order \in Orders(p[b]) :
          Restore(e, [p EXCEPT ![b] = Reordered(p[b], order)], Held(p))
    BY <1>7 DEF Reorder, p
  <2>2. Reordered(p[b], order) \in [Idx -> Rows \union {NoRow}]
    BY <1>2, BucketTypes
  <2>. QED
    BY <1>1, <1>3, <1>4, <1>7, <2>1, <2>2, EditKeeps DEF Reorder, p
<1>8. ASSUME NEW b \in Buckets, NEW row \in Rows, Add(e, b, row) PROVE WInv'
  <2>1. Appended(p[b], row) \in [Idx -> Rows \union {NoRow}]
    BY <1>2, BucketTypes
  <2>2. /\ added' \in [Writers -> [bucket : Buckets, index : Idx \union {-1},
                                 id : RowIds \union {NoRow}]]
        /\ \A v \in Writers : /\ added'[v] # Nothing => added'[v].id \in RowIds
                              /\ v # e => added'[v] = added[v]
    BY <1>4, <1>8, WriterAssumption DEF Add, Nothing, NoBucket, Rows, p
  <2>. QED
    BY <1>1, <1>8, <2>1, <2>2, EditKeeps DEF Add, p
<1>9. CASE FillFigure(e)
  <2>. DEFINE b == added[e].bucket
              k == added[e].index
  <2>1. /\ b \in Buckets /\ k \in Used(p[b]) /\ added[e].id \in Figures
        /\ phase[e] = "fetch"
        /\ Restore(e, [p EXCEPT ![b] = WithFigure(p[b], k, added[e].id)], Held(p))
        /\ added' = [added EXCEPT ![e] = Nothing]
    BY <1>4, <1>9 DEF FillFigure, WInv, PricedRow, Figures, p
  <2>2. WithFigure(p[b], k, added[e].id) \in [Idx -> Rows \union {NoRow}]
    BY <1>2, <2>1, BucketTypes
  <2>3. /\ added' \in [Writers -> [bucket : Buckets, index : Idx \union {-1},
                                 id : RowIds \union {NoRow}]]
        /\ \A v \in Writers : /\ added'[v] # Nothing => added'[v].id \in RowIds
                              /\ v # e => added'[v] = added[v]
    BY <1>4, <2>1, WriterAssumption DEF Nothing, NoBucket
  <2>. QED
    BY <1>1, <1>3, <2>1, <2>2, <2>3, EditKeeps
<1>10. CASE NoFill(e)
  <2>1. added' = [added EXCEPT ![e] = Nothing] /\ phase' = [phase EXCEPT ![e] = "idle"]
    BY <1>10 DEF NoFill, Goto
  <2>2. TypeOK' /\ PricedRow'
    BY <1>10, <2>1, Defaults DEF NoFill, WInv, TypeOK, PricedRow, Phases, workVars
  <2>3. phase'[e] = "idle" /\ ~solo'[e]
    BY <1>10, <2>1 DEF NoFill, WInv, TypeOK, SoloWhileRestoring
  <2>. QED
    BY <1>10, <2>2, <2>3, OutsideKeeps DEF NoFill, WInv, TypeOK, Goto, workVars
<1>11. CASE Rename(e)
  <2>1. TypeOK' /\ PricedRow'
    BY <1>11 DEF Rename, WInv, TypeOK, PricedRow, workVars
  <2>2. phase'[e] = "idle" /\ ~solo'[e]
    BY <1>11 DEF Rename, WInv, SoloWhileRestoring
  <2>. QED
    BY <1>11, <2>1, <2>2, OutsideKeeps DEF Rename, workVars
<1>. QED
  BY <1>5, <1>6, <1>7, <1>8, <1>9, <1>10, <1>11 DEF EditorStep

\* What an endpoint update does keeps the invariant.
LEMMA RunInv ==
    ASSUME WInv, NEW r \in Runs, RunStep(r)
    PROVE  WInv'
<1>. r \in Writers
  BY DEF Writers
<1>1. ASSUME NEW b \in Buckets, NEW k \in Idx, Persist(r, b, k) PROVE WInv'
  <2>. DEFINE p == target[r]
  <2>1. p \in Layouts /\ Held(p) \in SUBSET Buckets
    BY DEF WInv, TypeOK, Held
  <2>2. p[b] \in [Idx -> Rows \union {NoRow}]
    BY <2>1 DEF Layouts
  <2>3. k \in Used(p[b]) /\ b \in Held(p)
    BY <1>1 DEF Persist, Held
  <2>4. p[b][k].id \in Figures
    BY <2>2, <2>3 DEF Used, Rows, Figures
  <2>5. WithFigure(p[b], k, p[b][k].id) \in [Idx -> Rows \union {NoRow}]
    BY <2>2, <2>3, <2>4, BucketTypes
  <2>6. /\ added' \in [Writers -> [bucket : Buckets, index : Idx \union {-1},
                                 id : RowIds \union {NoRow}]]
        /\ \A v \in Writers : /\ added'[v] # Nothing => added'[v].id \in RowIds
                              /\ v # r => added'[v] = added[v]
    BY <1>1 DEF Persist, WInv, TypeOK, PricedRow
  <2>7. /\ phase[r] = "loaded"
        /\ Restore(r, [p EXCEPT ![b] = WithFigure(p[b], k, p[b][k].id)], Held(p))
    BY <1>1 DEF Persist
  <2>. HIDE DEF p
  <2>. QED
    BY <2>1, <2>3, <2>5, <2>6, <2>7, EditKeeps
<1>2. CASE Load(r)
  <2>1. TypeOK' /\ PricedRow'
    BY <1>2, LayoutTypes DEF Load, WInv, TypeOK, PricedRow, Goto, Phases, workVars
  <2>2. phase'[r] = "loaded" /\ ~solo'[r]
    BY <1>2 DEF Load, WInv, TypeOK, SoloWhileRestoring, Goto
  <2>. QED
    BY <1>2, <2>1, <2>2, OutsideKeeps DEF Load, WInv, TypeOK, Goto, workVars
<1>3. CASE RestoreName(r)
  <2>1. TypeOK' /\ PricedRow'
    BY <1>3 DEF RestoreName, WInv, TypeOK, PricedRow, Goto, Phases, workVars
  <2>2. phase'[r] = "loaded" /\ ~solo'[r]
    BY <1>3 DEF RestoreName, WInv, TypeOK, SoloWhileRestoring, Goto
  <2>. QED
    BY <1>3, <2>1, <2>2, OutsideKeeps DEF RestoreName, WInv, TypeOK, Goto, workVars
<1>4. CASE Plot(r)
  <2>1. TypeOK' /\ PricedRow'
    BY <1>4, Defaults DEF Plot, WInv, TypeOK, PricedRow, Goto, Phases, workVars
  <2>2. phase'[r] = "idle" /\ ~solo'[r]
    BY <1>4 DEF Plot, WInv, TypeOK, SoloWhileRestoring, Goto
  <2>. QED
    BY <1>4, <2>1, <2>2, OutsideKeeps DEF Plot, WInv, TypeOK, Goto, workVars
<1>. QED
  BY <1>1, <1>2, <1>3, <1>4 DEF RunStep

\* Every statement and every read of a restore keeps the invariant.
LEMMA RestoreInv ==
    ASSUME WInv, NEW w \in Writers, RestoreStep(w)
    PROVE  WInv'
<1>. USE DEF WInv
<1>1. CASE Survey(w)
  <2>1. TypeOK' /\ PricedRow'
    BY <1>1 DEF Survey, StaleBuckets, TypeOK, PricedRow, Goto, Phases, Held
  <2>2. SoloWhileRestoring' /\ KeysCoverTarget'
    BY <1>1 DEF Survey, StaleBuckets, TypeOK, SoloWhileRestoring, KeysCoverTarget, Goto
  <2>3. StaleIsGone' /\ InHandIsDue'
    BY <1>1 DEF Survey, StaleBuckets, TypeOK, KeysCoverTarget, StaleIsGone, InHandIsDue, Goto, Held
  <2>4. \A b \in Buckets \ (stale'[w] \union todo[w]) : table[b] = target[w][b]
    BY <1>1, NotHeldIsEmpty DEF Survey, StaleBuckets, TypeOK, KeysCoverTarget
  <2>5. DoneIsExact' /\ PurgedSoFar' /\ FilledSoFar'
    BY <1>1, <2>4 DEF Survey, StaleBuckets, TypeOK, DoneIsExact, PurgedSoFar, FilledSoFar, Goto
  <2>. QED
    BY <2>1, <2>2, <2>3, <2>5
<1>2. CASE NextBucket(w)
  <2>1. PICK b \in IF stale[w] # {} THEN stale[w] ELSE todo[w] :
          /\ cur' = [cur EXCEPT ![w] = b]
          /\ left' = [left EXCEPT ![w] = Used(table[b])]
    BY <1>2 DEF NextBucket
  <2>2. b \in Buckets /\ b \in stale[w] \union todo[w]
    BY <2>1 DEF TypeOK
  <2>3. table[b] \in [Idx -> Rows \union {NoRow}]
    BY <2>2 DEF TypeOK, Layouts
  <2>4. Used(table[b]) \in SUBSET Idx /\ \A i \in Idx \ Used(table[b]) : table[b][i] = NoRow
    BY <2>3 DEF Used
  <2>5. TypeOK' /\ PricedRow'
    BY <1>2, <2>1, <2>2, <2>4 DEF NextBucket, TypeOK, PricedRow, Goto, Phases
  <2>6. SoloWhileRestoring' /\ KeysCoverTarget' /\ StaleIsGone' /\ InHandIsDue'
    BY <1>2, <2>1, <2>2
       DEF NextBucket, TypeOK, SoloWhileRestoring, KeysCoverTarget, StaleIsGone,
           InHandIsDue, Goto
  <2>7. DoneIsExact' /\ PurgedSoFar' /\ FilledSoFar'
    BY <1>2, <2>1, <2>2, <2>4
       DEF NextBucket, TypeOK, DoneIsExact, PurgedSoFar, FilledSoFar, Goto
  <2>. QED
    BY <2>5, <2>6, <2>7
<1>3. ASSUME NEW row \in [Idx -> Rows \union {NoRow}], WriteRow(w, row),
             \/ phase[w] = "purge" /\ row = EmptyBucket
             \/ phase[w] = "fill" /\ row = target[w][cur[w]]
      PROVE  WInv'
  <2>1. PICK i \in left[w] :
          /\ table' = [table EXCEPT ![cur[w]][i] = row[i]]
          /\ left' = [left EXCEPT ![w] = @ \ {i}]
    BY <1>3 DEF WriteRow
  <2>2. i \in Idx /\ cur[w] \in Buckets
    BY <2>1 DEF TypeOK
  <2>3. table' \in Layouts
    BY <2>1, <2>2 DEF TypeOK, Layouts
  <2>4. TypeOK' /\ PricedRow'
    BY <1>3, <2>1, <2>3 DEF WriteRow, TypeOK, PricedRow
  <2>5. SoloWhileRestoring' /\ KeysCoverTarget' /\ StaleIsGone' /\ InHandIsDue'
    BY <1>3 DEF WriteRow, TypeOK, SoloWhileRestoring, KeysCoverTarget, StaleIsGone,
                InHandIsDue
  <2>6. /\ \A b \in Buckets \ {cur[w]} : table'[b] = table[b]
        /\ table'[cur[w]] = [table[cur[w]] EXCEPT ![i] = row[i]]
    BY <2>1, <2>2 DEF TypeOK, Layouts
  <2>7. \A v \in Writers : solo'[v] <=> v = w /\ solo[w]
    BY <1>3 DEF WriteRow
  <2>8. DoneIsExact'
    BY <1>3, <2>6, <2>7 DEF WriteRow, DoneIsExact, InHandIsDue
  <2>9. PurgedSoFar' /\ FilledSoFar'
    <3>1. table[cur[w]] \in [Idx -> Rows \union {NoRow}]
      BY <2>2 DEF TypeOK, Layouts
    <3>2. \A j \in Idx : table'[cur[w]][j] = IF j = i THEN row[i] ELSE table[cur[w]][j]
      BY <2>2, <2>6, <3>1
    <3>. QED
      BY <1>3, <2>1, <2>2, <2>7, <3>2
         DEF WriteRow, PurgedSoFar, FilledSoFar, TypeOK, EmptyBucket
  <2>. QED
    BY <2>4, <2>5, <2>8, <2>9
<1>4. CASE PurgeRow(w)
  BY <1>3, <1>4, BucketTypes DEF PurgeRow
<1>5. CASE FillRow(w)
  <2>1. target[w][cur[w]] \in [Idx -> Rows \union {NoRow}]
    BY DEF TypeOK, Layouts
  <2>. QED
    BY <1>3, <1>5, <2>1 DEF FillRow
<1>6. CASE Purged(w)
  <2>. DEFINE f == target[w][cur[w]]
  <2>1. /\ cur[w] \in Buckets
        /\ table[cur[w]] \in [Idx -> Rows \union {NoRow}]
        /\ f \in [Idx -> Rows \union {NoRow}]
    BY DEF TypeOK, Layouts
  <2>2. Used(f) \in SUBSET Idx /\ \A i \in Idx \ Used(f) : f[i] = NoRow
    BY <2>1 DEF Used
  <2>3. solo[w] => table[cur[w]] = EmptyBucket
    BY <1>6, <2>1 DEF Purged, PurgedSoFar, EmptyBucket
  <2>4. CASE cur[w] \in stale[w]
    <3>1. /\ phase' = [phase EXCEPT ![w] = "next"]
          /\ stale' = [stale EXCEPT ![w] = @ \ {cur[w]}]
          /\ UNCHANGED <<table, name, charts, target, todo, cur, left, added, runName,
                         viewing, stops, solo>>
      BY <1>6, <2>4 DEF Purged, Goto
    <3>2. TypeOK' /\ PricedRow'
      BY <3>1 DEF TypeOK, PricedRow, Phases
    <3>3. SoloWhileRestoring' /\ KeysCoverTarget' /\ StaleIsGone'
      BY <1>6, <2>4
         DEF Purged, TypeOK, SoloWhileRestoring, KeysCoverTarget, StaleIsGone, Goto
    <3>4. InHandIsDue' /\ PurgedSoFar' /\ FilledSoFar'
      BY <1>6, <2>4
         DEF Purged, TypeOK, InHandIsDue, PurgedSoFar, FilledSoFar, Goto
    <3>5. DoneIsExact'
      BY <1>6, <2>3, <2>4 DEF Purged, TypeOK, DoneIsExact, StaleIsGone, Goto
    <3>. QED
      BY <3>2, <3>3, <3>4, <3>5
  <2>5. CASE cur[w] \notin stale[w]
    <3>1. TypeOK' /\ PricedRow' /\ SoloWhileRestoring' /\ KeysCoverTarget'
      BY <1>6, <2>2, <2>5
         DEF Purged, TypeOK, PricedRow, SoloWhileRestoring, KeysCoverTarget, Goto, Phases
    <3>2. StaleIsGone' /\ InHandIsDue' /\ DoneIsExact'
      BY <1>6, <2>5
         DEF Purged, TypeOK, StaleIsGone, InHandIsDue, DoneIsExact, Goto
    <3>3. PurgedSoFar'
      BY <1>6, <2>5 DEF Purged, TypeOK, PurgedSoFar, Goto
    <3>4. /\ left'[w] = Used(f) /\ cur' = cur /\ table' = table /\ target' = target
          /\ solo' = solo
          /\ \A v \in Writers \ {w} : phase'[v] = phase[v] /\ left'[v] = left[v]
      BY <1>6, <2>5 DEF Purged, TypeOK, Goto
    <3>5. FilledSoFar'
      BY <2>2, <2>3, <3>4 DEF FilledSoFar, EmptyBucket
    <3>. QED
      BY <3>1, <3>2, <3>3, <3>5
  <2>. QED
    BY <2>4, <2>5
<1>7. CASE Filled(w)
  <2>1. TypeOK' /\ PricedRow' /\ SoloWhileRestoring' /\ KeysCoverTarget'
    BY <1>7
       DEF Filled, TypeOK, PricedRow, SoloWhileRestoring, KeysCoverTarget, Goto, Phases
  <2>2. StaleIsGone' /\ InHandIsDue' /\ PurgedSoFar' /\ FilledSoFar'
    BY <1>7
       DEF Filled, TypeOK, StaleIsGone, InHandIsDue, PurgedSoFar, FilledSoFar, Goto
  <2>3. solo[w] => table[cur[w]] = target[w][cur[w]]
    <3>1. /\ table[cur[w]] \in [Idx -> Rows \union {NoRow}]
          /\ target[w][cur[w]] \in [Idx -> Rows \union {NoRow}]
      BY DEF TypeOK, Layouts
    <3>2. solo[w] => \A i \in Idx : table[cur[w]][i] = target[w][cur[w]][i]
      BY <1>7 DEF Filled, FilledSoFar
    <3>. QED
      BY <3>1, <3>2
  <2>4. DoneIsExact'
    BY <1>7, <2>3 DEF Filled, TypeOK, DoneIsExact, Goto
  <2>. QED
    BY <2>1, <2>2, <2>4
<1>8. CASE Finish(w)
  <2>1. PICK next \in {"idle", "fetch", "rename"}, p \in {target[w], EmptyLayout} :
          /\ phase' = [phase EXCEPT ![w] = next]
          /\ target' = [target EXCEPT ![w] = p]
          /\ next = "fetch" => added[w] # Nothing
    <3>1. CASE w \in Runs
      BY <1>8, <3>1 DEF Finish, TypeOK, Goto
    <3>2. CASE w \notin Runs
      BY <1>8, <3>2 DEF Finish, TypeOK, Goto
    <3>. QED
      BY <3>1, <3>2
  <2>2. /\ stale' = [stale EXCEPT ![w] = {}] /\ todo' = [todo EXCEPT ![w] = {}]
        /\ cur' = [cur EXCEPT ![w] = NoBucket] /\ left' = [left EXCEPT ![w] = {}]
        /\ solo' = [solo EXCEPT ![w] = FALSE]
        /\ UNCHANGED <<table, name, charts, added, runName, viewing, stops>>
    BY <1>8 DEF Finish, LeaveRestore
  <2>3. TypeOK'
    BY <2>1, <2>2, Defaults DEF TypeOK, Phases
  <2>4. PricedRow'
    BY <2>1, <2>2 DEF PricedRow, TypeOK
  <2>5. phase'[w] \in {"idle", "fetch", "loaded", "rename"} /\ ~solo'[w]
    BY <2>1, <2>2 DEF TypeOK
  <2>6. \A v \in Writers \ {w} :
           /\ phase'[v] = phase[v] /\ target'[v] = target[v]
           /\ stale'[v] = stale[v] /\ todo'[v] = todo[v]
           /\ cur'[v] = cur[v] /\ left'[v] = left[v] /\ solo'[v] = solo[v]
    BY <2>1, <2>2 DEF TypeOK
  <2>. HIDE DEF WInv
  <2>. QED
    BY <2>2, <2>3, <2>4, <2>5, <2>6, OutsideKeeps
<1>. QED
  BY <1>1, <1>2, <1>4, <1>5, <1>6, <1>7, <1>8 DEF RestoreStep

\* Every step of the server threads and of the workers keeps the invariant.
LEMMA WInvStep == WInv /\ [Next]_vars => WInv'
<1>. SUFFICES ASSUME WInv, [Next]_vars PROVE WInv'
  OBVIOUS
<1>1. ASSUME NEW w \in Writers, Stop(w) PROVE WInv'
  <2>1. phase'[w] = "idle" /\ ~solo'[w]
    BY <1>1 DEF Stop, LeaveRestore, WInv, TypeOK, Goto
  <2>2. TypeOK' /\ PricedRow'
    BY <1>1, Defaults, WriterAssumption
       DEF Stop, LeaveRestore, WInv, TypeOK, PricedRow, Goto, Phases
  <2>. QED
    BY <1>1, <2>1, <2>2, OutsideKeeps DEF Stop, LeaveRestore, WInv, TypeOK, Goto
<1>2. ASSUME NEW v \in Viewers, Count(v) \/ ClearCharts(v) PROVE WInv'
  <2>1. UNCHANGED <<table, name, phase, target, workVars, added, runName, stops, solo>>
    BY <1>2 DEF Count, ClearCharts
  <2>2. charts' \in BOOLEAN /\ viewing' \in SUBSET Viewers
    BY <1>2 DEF Count, ClearCharts, WInv, TypeOK
  <2>3. TypeOK'
    BY <2>1, <2>2 DEF WInv, TypeOK, workVars
  <2>. QED
    BY <2>1, <2>3
       DEF WInv, PricedRow, SoloWhileRestoring, KeysCoverTarget, StaleIsGone,
           InHandIsDue, DoneIsExact, PurgedSoFar, FilledSoFar, workVars
<1>3. CASE UNCHANGED vars
  BY <1>3 DEF vars, WInv, TypeOK, PricedRow, SoloWhileRestoring,
              KeysCoverTarget, StaleIsGone, InHandIsDue, DoneIsExact, PurgedSoFar,
              FilledSoFar, workVars
<1>. QED
  BY <1>1, <1>2, <1>3, EditorInv, RunInv, RestoreInv DEF Next

\* A table nobody is writing to satisfies the invariant.
LEMMA WInvInit == Init => WInv
<1>. SUFFICES ASSUME Init PROVE WInv
  OBVIOUS
<1>1. TypeOK
  BY Defaults, WriterAssumption DEF Init, TypeOK, Phases
<1>2. PricedRow /\ SoloWhileRestoring /\ KeysCoverTarget /\ StaleIsGone /\ InHandIsDue
  BY DEF Init, PricedRow, SoloWhileRestoring, KeysCoverTarget, StaleIsGone, InHandIsDue
<1>3. DoneIsExact /\ PurgedSoFar /\ FilledSoFar
  BY DEF Init, DoneIsExact, PurgedSoFar, FilledSoFar
<1>. QED
  BY <1>1, <1>2, <1>3 DEF WInv

-----------------------------------------------------------------------------
(* The theorems.                                                           *)

\* The invariant holds in every reachable state.
LEMMA Invariance == Spec => []WInv
  BY WInvInit, WInvStep, PTL DEF Spec

\* The table keeps holding rows under the keys it may use, and every writer is
\* at a step of its handler with the locals that step needs.
THEOREM TypeCorrect == Spec => []TypeOK
<1>. WInv => TypeOK
  BY DEF WInv
<1>. QED
  BY Invariance, PTL

\* When a writer that is still alone has nothing left to do, it is done.
LEMMA RestoredIsExact ==
    ASSUME WInv, NEW w \in Writers, Restored(w), solo[w]
    PROVE  table = target[w]
<1>1. table \in Layouts /\ target[w] \in Layouts
  BY DEF WInv, TypeOK
<1>2. \A b \in Buckets : table[b] = target[w][b]
  BY DEF WInv, DoneIsExact, Restored
<1>. QED
  BY <1>1, <1>2 DEF Layouts

\* AssetRepository.restore replaces the user's positions: a write during which
\* nobody else wrote leaves exactly the portfolio that was in memory.
THEOREM SoloWriteExact == Spec => []SoloWriteIsExact
<1>1. WInv => SoloWriteIsExact
  BY RestoredIsExact DEF SoloWriteIsExact
<1>. QED
  BY <1>1, Invariance, PTL

-----------------------------------------------------------------------------
(* Lists without gaps.                                                     *)

Bucket == [Idx -> Rows \union {NoRow}]

\* As many as n, from 0 on.
Dense(f, n) == n \in Nat /\ Used(f) = 0 .. n - 1

\* The rows of a bucket are finitely many, and as a list they fit in it.
LEMMA UsedIsFinite ==
    ASSUME NEW f \in Bucket
    PROVE  /\ Used(f) \subseteq Idx /\ IsFiniteSet(Used(f))
           /\ Cardinality(Used(f)) \in Nat /\ Cardinality(Used(f)) <= MaxRows
<1>1. Used(f) \subseteq Idx
  BY DEF Bucket, Used
<1>2. IsFiniteSet(Idx) /\ Cardinality(Idx) = MaxRows
  BY FS_Interval, LayoutAssumption DEF Idx
<1>. QED
  BY <1>1, <1>2, FS_Subset, FS_CardinalityType

\* The rank of a row is its place in the sorted list: ranks tell rows apart and
\* every place below the number of rows is one.
LEMMA RankIsPlace ==
    ASSUME NEW f \in Bucket
    PROVE  /\ \A i \in Used(f) : Rank(f, i) \in 0 .. Cardinality(Used(f)) - 1
           /\ \A k \in 0 .. Cardinality(Used(f)) - 1 : \E i \in Used(f) : Rank(f, i) = k
<1>. DEFINE U == Used(f)
            N == Cardinality(U)
            Below(i) == {j \in U : j < i}
            rank == [i \in U |-> Cardinality(Below(i))]
<1>1. /\ IsFiniteSet(U) /\ N \in Nat
      /\ \A i \in U : i \in Int
  BY UsedIsFinite, LayoutAssumption DEF Idx
<1>. HIDE DEF U, N
<1>2. ASSUME NEW i \in U
      PROVE  IsFiniteSet(Below(i)) /\ Cardinality(Below(i)) \in 0 .. N - 1
  <2>1. Below(i) \in SUBSET U /\ i \notin Below(i) /\ Below(i) # U
    BY <1>1
  <2>2. IsFiniteSet(Below(i)) /\ Cardinality(Below(i)) <= N /\ Cardinality(Below(i)) # N
    BY <1>1, <2>1, FS_Subset DEF N
  <2>3. Cardinality(Below(i)) \in Nat
    BY <2>2, FS_CardinalityType
  <2>. QED
    BY <1>1, <2>2, <2>3
<1>3. ASSUME NEW i \in U, NEW j \in U, i < j
      PROVE  Cardinality(Below(i)) < Cardinality(Below(j))
  <2>1. \A l \in U : l < i => l < j
    BY <1>1, <1>3
  <2>2. Below(i) \in SUBSET Below(j) /\ i \in Below(j) /\ i \notin Below(i)
    BY <1>1, <1>3, <2>1
  <2>3. /\ Cardinality(Below(i)) <= Cardinality(Below(j))
        /\ Cardinality(Below(i)) # Cardinality(Below(j))
    BY <1>2, <2>2, FS_Subset
  <2>4. Cardinality(Below(i)) \in Int /\ Cardinality(Below(j)) \in Int
    BY <1>1, <1>2
  <2>. QED
    BY <2>3, <2>4
<1>4. rank \in [U -> 0 .. N - 1]
  BY <1>2
<1>5. \A i, j \in U : rank[i] = rank[j] => i = j
  <2>. TAKE i, j \in U
  <2>1. /\ i \in Int /\ j \in Int /\ rank[i] \in Int /\ rank[j] \in Int
        /\ i < j => rank[i] < rank[j]
        /\ j < i => rank[j] < rank[i]
    BY <1>1, <1>3, <1>4
  <2>. QED
    BY <2>1
<1>6. rank \in Surjection(U, 0 .. N - 1)
  <2>1. rank \in Injection(U, 0 .. N - 1)
    BY <1>4, <1>5, Fun_IsInj
  <2>2. IsFiniteSet(0 .. N - 1) /\ Cardinality(0 .. N - 1) = N
    BY <1>1, FS_Interval
  <2>. HIDE DEF rank
  <2>. QED
    BY <2>1, <2>2, FS_Injection DEF N
<1>7. \A k \in 0 .. N - 1 : \E i \in U : rank[i] = k
  <2>. HIDE DEF rank
  <2>. QED
    BY <1>6, Fun_SurjectionProperties, Zenon
<1>8. \A i \in U : Rank(f, i) = Cardinality(Below(i))
  BY DEF Rank, U
<1>. QED
  BY <1>2, <1>7, <1>8 DEF U, N

\* What a snapshot lays out has no gaps, and it leaves a list without gaps as
\* it is.
LEMMA CompactIsDense ==
    ASSUME NEW f \in Bucket
    PROVE  Compact(f) \in Bucket /\ Dense(Compact(f), Cardinality(Used(f)))
<1>. DEFINE N == Cardinality(Used(f))
<1>1. N \in Nat /\ 0 .. N - 1 \subseteq Idx
  BY UsedIsFinite, LayoutAssumption DEF Idx
<1>2. Compact(f) \in Bucket
  BY BucketTypes DEF Bucket
<1>3. ASSUME NEW k \in Idx PROVE Compact(f)[k] # NoRow <=> k \in 0 .. N - 1
  <2>1. CASE k \in 0 .. N - 1
    <3>1. \E i \in Used(f) : Rank(f, i) = k
      BY <2>1, RankIsPlace
    <3>2. /\ Compact(f)[k] = f[CHOOSE i \in Used(f) : Rank(f, i) = k]
          /\ (CHOOSE i \in Used(f) : Rank(f, i) = k) \in Used(f)
      BY <3>1 DEF Compact
    <3>. QED
      BY <2>1, <3>2 DEF Used
  <2>2. CASE k \notin 0 .. N - 1
    <3>1. ~ \E i \in Used(f) : Rank(f, i) = k
      BY <2>2, RankIsPlace
    <3>. QED
      BY <2>2, <3>1 DEF Compact
  <2>. QED
    BY <2>1, <2>2
<1>4. Used(Compact(f)) = {k \in Idx : Compact(f)[k] # NoRow}
  BY <1>2 DEF Used, Bucket
<1>. QED
  BY <1>1, <1>2, <1>3, <1>4 DEF Dense

LEMMA DenseIsCompact ==
    ASSUME NEW f \in Bucket, NEW n, Dense(f, n)
    PROVE  Compact(f) = f /\ Cardinality(Used(f)) = n
<1>1. n \in Nat /\ Used(f) = 0 .. n - 1
  BY DEF Dense
<1>2. ASSUME NEW i \in Used(f) PROVE Rank(f, i) = i
  <2>1. i \in 0 .. n - 1 /\ {j \in Used(f) : j < i} = 0 .. i - 1
    BY <1>1
  <2>2. Cardinality(0 .. i - 1) = i
    BY <2>1, FS_Interval
  <2>. QED
    BY <2>1, <2>2 DEF Rank
<1>3. ASSUME NEW k \in Idx PROVE Compact(f)[k] = f[k]
  <2>1. CASE k \in Used(f)
    <3>1. \A i \in Used(f) : Rank(f, i) = k <=> i = k
      BY <1>2
    <3>2. (CHOOSE i \in Used(f) : Rank(f, i) = k) = k
      BY <2>1, <3>1
    <3>. QED
      BY <2>1, <3>1, <3>2 DEF Compact
  <2>2. CASE k \notin Used(f)
    <3>1. f[k] = NoRow
      BY <2>2 DEF Used, Bucket
    <3>2. ~ \E i \in Used(f) : Rank(f, i) = k
      BY <1>2, <2>2
    <3>. QED
      BY <3>1, <3>2 DEF Compact
  <2>. QED
    BY <2>1, <2>2
<1>4. Compact(f) = f
  BY <1>3 DEF Compact, Bucket
<1>5. Cardinality(0 .. n - 1) = n
  BY <1>1, FS_Interval
<1>. QED
  BY <1>1, <1>4, <1>5

\* Every edit of a list without gaps leaves one.
LEMMA EditsStayDense ==
    ASSUME NEW f \in Bucket, Compact(f) = f
    PROVE  /\ \A k \in Used(f) : /\ \A fig \in Figures :
                                      Compact(WithFigure(f, k, fig)) = WithFigure(f, k, fig)
                                 /\ Compact(Without(f, k)) = Without(f, k)
           /\ \A order \in Orders(f) : Compact(Reordered(f, order)) = Reordered(f, order)
           /\ \A row \in Rows : NextIndex(f) \in Idx =>
                /\ Compact(Appended(f, row)) = Appended(f, row)
                /\ NextIndex(f) \in Used(Appended(f, row))
                /\ Appended(f, row)[NextIndex(f)] = row
<1>. DEFINE n == Cardinality(Used(f))
<1>1. n \in Nat /\ Used(f) = 0 .. n - 1
  BY CompactIsDense DEF Dense
<1>2. \A g \in Bucket : Used(g) = Used(f) => Compact(g) = g
  BY <1>1, DenseIsCompact DEF Dense
<1>3. ASSUME NEW k \in Used(f), NEW fig \in Figures
      PROVE  Compact(WithFigure(f, k, fig)) = WithFigure(f, k, fig)
  <2>1. WithFigure(f, k, fig) \in Bucket /\ k \in Idx
    BY BucketTypes DEF Bucket
  <2>2. f[k] \in Rows
    BY <2>1 DEF Used, Bucket
  <2>3. [id |-> f[k].id, fig |-> fig] # NoRow
    BY <2>2, LayoutAssumption DEF Rows
  <2>4. Used(WithFigure(f, k, fig)) = Used(f)
    BY <2>1, <2>3 DEF Used, WithFigure, Bucket
  <2>. QED
    BY <1>2, <2>1, <2>4
<1>4. ASSUME NEW k \in Used(f) PROVE Compact(Without(f, k)) = Without(f, k)
  <2>1. [f EXCEPT ![k] = NoRow] \in Bucket
    BY DEF Bucket
  <2>. QED
    BY <2>1, CompactIsDense, DenseIsCompact DEF Without
<1>5. ASSUME NEW order \in Orders(f) PROVE Compact(Reordered(f, order)) = Reordered(f, order)
  <2>1. Reordered(f, order) \in Bucket
    BY BucketTypes DEF Bucket
  <2>2. \A k \in Used(f) : f[order[k]] # NoRow
    BY DEF Orders, Used
  <2>3. Used(Reordered(f, order)) = Used(f)
    BY <2>1, <2>2 DEF Used, Reordered, Bucket
  <2>. QED
    BY <1>2, <2>1, <2>3
<1>6. ASSUME NEW row \in Rows, NextIndex(f) \in Idx
      PROVE  /\ Compact(Appended(f, row)) = Appended(f, row)
             /\ NextIndex(f) \in Used(Appended(f, row))
             /\ Appended(f, row)[NextIndex(f)] = row
  <2>1. Appended(f, row) \in Bucket /\ row # NoRow
    BY BucketTypes, LayoutAssumption DEF Bucket
  <2>2. Appended(f, row)[n] = row /\ \A k \in Idx \ {n} : Appended(f, row)[k] = f[k]
    BY <1>6 DEF Appended, NextIndex, Bucket
  <2>3. Used(Appended(f, row)) = Used(f) \union {n}
    BY <1>6, <2>1, <2>2 DEF Used, Bucket, NextIndex
  <2>4. Used(Appended(f, row)) = 0 .. (n + 1) - 1 /\ n + 1 \in Nat
    BY <1>1, <2>3
  <2>. QED
    BY <2>1, <2>2, <2>3, <2>4, DenseIsCompact DEF Dense, NextIndex
<1>. QED
  BY <1>3, <1>4, <1>5, <1>6

-----------------------------------------------------------------------------
(* The refinement of AtomicPortfolio by writers that take turns.           *)

\* At most one writer is at work.
OneAtWork == \A v, w \in Writers : phase[v] # "idle" /\ phase[w] # "idle" => v = w

\* What the writer at work, or nobody, makes visible: lists without gaps.
VisibleIsGapless == Snapshot(Visible) = Visible

\* Nobody interferes with a restore; the portfolio and the name a run holds are
\* still those stored; until its figure is filled in, the row an editor added is
\* where it was put.
Undisturbed(w) ==
    /\ phase[w] \in {"next", "purge", "fill"} => solo[w]
    /\ w \in Runs => /\ phase[w] # "idle" => runName[w] = name
                     /\ phase[w] \in {"loaded", "rename"} => target[w] = table
    /\ w \in Editors /\ added[w] # Nothing =>
         LET f == Visible[added[w].bucket]
         IN  /\ phase[w] # "idle"
             /\ added[w].index \in Used(f)
             /\ f[added[w].index].id = added[w].id

Serial == OneAtWork /\ VisibleIsGapless /\ \A w \in Writers : Undisturbed(w)

\* The invariant of the refinement.
AInv == WInv /\ Serial

\* The writer at work decides what is visible.
LEMMA VisibleOfWriter ==
    ASSUME NEW w \in Writers
    PROVE  /\ Alone(w) => Visible = IF Writing(w) THEN target[w] ELSE table
           /\ Alone(w)' => Visible' = IF Writing(w)' THEN target'[w] ELSE table'
<1>1. ASSUME Alone(w) PROVE Visible = IF Writing(w) THEN target[w] ELSE table
  <2>1. \A v \in Writers : Writing(v) => v = w
    BY <1>1 DEF Alone, Writing
  <2>2. Writing(w) => (CHOOSE v \in Writers : Writing(v)) = w
    BY <2>1
  <2>. QED
    BY <2>1, <2>2 DEF Visible
<1>2. ASSUME Alone(w)' PROVE Visible' = IF Writing(w)' THEN target'[w] ELSE table'
  <2>1. \A v \in Writers : Writing(v)' => v = w
    BY <1>2 DEF Alone, Writing
  <2>2. Writing(w)' => (CHOOSE v \in Writers : Writing(v)') = w
    BY <2>1
  <2>. QED
    BY <2>1, <2>2 DEF Visible
<1>. QED
  BY <1>1, <1>2

\* What is visible is a layout, and its buckets are lists without gaps.
LEMMA VisibleTypes ==
    ASSUME WInv, VisibleIsGapless
    PROVE  /\ Visible \in Layouts
           /\ \A b \in Buckets : Visible[b] \in Bucket /\ Compact(Visible[b]) = Visible[b]
<1>1. Visible \in Layouts
  <2>1. CASE \E w \in Writers : Writing(w)
    <3>1. (CHOOSE w \in Writers : Writing(w)) \in Writers
      BY <2>1
    <3>. QED
      BY <2>1, <3>1 DEF Visible, WInv, TypeOK
  <2>2. CASE ~ \E w \in Writers : Writing(w)
    BY <2>2 DEF Visible, WInv, TypeOK
  <2>. QED
    BY <2>1, <2>2
<1>2. \A b \in Buckets : Snapshot(Visible)[b] = Compact(Visible[b])
  BY DEF Snapshot
<1>. QED
  BY <1>1, <1>2 DEF VisibleIsGapless, Layouts, Bucket

\* A snapshot changes nothing when every bucket is without gaps.
LEMMA GaplessSnapshot ==
    ASSUME NEW p \in Layouts, \A b \in Buckets : Compact(p[b]) = p[b]
    PROVE  Snapshot(p) = p
<1>1. \A b \in Buckets : Snapshot(p)[b] = p[b]
  BY DEF Snapshot
<1>. QED
  BY <1>1 DEF Snapshot, Layouts

\* The operators of AtomicPortfolio are those of the layout.
LEMMA SameLayout ==
    /\ Atomic!Rows = Rows
    /\ Atomic!Layouts = Layouts
    /\ \A p : Atomic!Snapshot(p) = Snapshot(p) /\ Atomic!RowsOf(p) = RowsOf(p)
    /\ \A f : /\ Atomic!Used(f) = Used(f) /\ Atomic!Orders(f) = Orders(f)
              /\ Atomic!NextIndex(f) = NextIndex(f)
    /\ \A f, k : Atomic!Without(f, k) = Without(f, k)
    /\ \A f, k, fig : Atomic!WithFigure(f, k, fig) = WithFigure(f, k, fig)
    /\ \A f, order : Atomic!Reordered(f, order) = Reordered(f, order)
    /\ \A f, row : Atomic!Appended(f, row) = Appended(f, row)
<1>1. \A S : Atomic!Cardinality(S) = Cardinality(S)
  BY DEF Atomic!Cardinality, Cardinality
<1>2. Atomic!Rows = Rows /\ Atomic!Idx = Idx
  BY DEF Atomic!Rows, Rows, Atomic!Figures, Figures, Atomic!Idx, Idx
<1>3. \A f : Atomic!Used(f) = Used(f)
  BY DEF Atomic!Used, Used
<1>4. \A f, i : Atomic!Rank(f, i) = Rank(f, i)
  BY <1>1, <1>3 DEF Atomic!Rank, Rank
<1>5. \A f : Atomic!Compact(f) = Compact(f)
  BY <1>2, <1>3, <1>4 DEF Atomic!Compact, Compact
<1>6. Atomic!Layouts = Layouts
  BY <1>2 DEF Atomic!Layouts, Layouts
<1>7. \A p : Atomic!Snapshot(p) = Snapshot(p) /\ Atomic!RowsOf(p) = RowsOf(p)
  BY <1>2, <1>5 DEF Atomic!Snapshot, Snapshot, Atomic!RowsOf, RowsOf, Atomic!Keys, Keys
<1>8. \A f : Atomic!Orders(f) = Orders(f) /\ Atomic!NextIndex(f) = NextIndex(f)
  BY <1>1, <1>3 DEF Atomic!Orders, Orders, Atomic!NextIndex, NextIndex
<1>9. \A f, k : Atomic!Without(f, k) = Without(f, k)
  BY <1>5 DEF Atomic!Without, Without
<1>10. \A f, k, fig : Atomic!WithFigure(f, k, fig) = WithFigure(f, k, fig)
  BY DEF Atomic!WithFigure, WithFigure
<1>11. \A f, order : Atomic!Reordered(f, order) = Reordered(f, order)
  BY <1>2, <1>3 DEF Atomic!Reordered, Reordered
<1>12. \A f, row : Atomic!Appended(f, row) = Appended(f, row)
  BY <1>8 DEF Atomic!Appended, Appended
<1>. QED
  BY <1>2, <1>3, <1>6, <1>7, <1>8, <1>9, <1>10, <1>11, <1>12

\* A step of w leaves the others where they are.
OwnStep(w) == \A v \in Writers \ {w} : phase'[v] = phase[v] /\ added'[v] = added[v]

\* While one works the others rest, so only what the worker relies on can change.
LEMMA OthersRest ==
    ASSUME AInv, NEW w \in Writers, Alone(w), OwnStep(w), VisibleIsGapless', Undisturbed(w)'
    PROVE  Serial'
<1>1. \A v \in Writers \ {w} : phase'[v] = "idle" /\ added'[v] = added[v] /\ phase[v] = "idle"
  BY DEF Alone, OwnStep
<1>2. OneAtWork'
  BY <1>1 DEF OneAtWork
<1>3. ASSUME NEW v \in Writers \ {w} PROVE Undisturbed(v)'
  BY <1>1 DEF AInv, Serial, Undisturbed
<1>. QED
  BY <1>2, <1>3 DEF Serial

\* Writer w starts to write back bucket b as f, with the note a of an added row.
StartsEdit(w, b, f, keys, a) ==
    /\ \/ w \in Editors /\ phase[w] \in {"idle", "fetch"}
       \/ w \in Runs /\ phase[w] = "loaded"
    /\ Restore(w, [Visible EXCEPT ![b] = f], keys)
    /\ added' = [added EXCEPT ![w] = a]
    /\ w \in Editors /\ a # Nothing => /\ a.bucket = b /\ a.index \in Used(f)
                                       /\ f[a.index].id = a.id

\* An edit takes effect when its restore starts.
LEMMA EditTakesEffect ==
    ASSUME AInv, NEW w \in Writers, Alone(w), NEW b \in Buckets,
           NEW f \in Bucket, Compact(f) = f, NEW keys, NEW a,
           StartsEdit(w, b, f, keys, a)
    PROVE  Visible' = [Visible EXCEPT ![b] = f] /\ name' = name /\ Serial'
<1>. USE DEF StartsEdit
<1>1. /\ TypeOK /\ Editors \intersect Runs = {}
      /\ Visible \in Layouts
      /\ \A c \in Buckets : Visible[c] \in Bucket /\ Compact(Visible[c]) = Visible[c]
  BY VisibleTypes, WriterAssumption DEF AInv, WInv, Serial
<1>2. /\ phase'[w] = "survey" /\ target'[w] = [Visible EXCEPT ![b] = f]
      /\ added'[w] = a /\ name' = name /\ runName' = runName
  BY <1>1 DEF Restore, Goto, TypeOK
<1>3. OwnStep(w) /\ Alone(w)'
  BY <1>1 DEF OwnStep, Alone, Restore, Goto, TypeOK
<1>4. Visible' = [Visible EXCEPT ![b] = f]
  BY <1>2, <1>3, VisibleOfWriter DEF Writing
<1>5. /\ Visible' \in Layouts
      /\ \A c \in Buckets : Compact(Visible'[c]) = Visible'[c]
  BY <1>1, <1>4 DEF Layouts, Bucket
<1>6. VisibleIsGapless'
  BY <1>5, GaplessSnapshot DEF VisibleIsGapless
<1>7. Undisturbed(w)'
  <2>1. w \in Runs => runName'[w] = name'
    BY <1>1, <1>2 DEF AInv, Serial, Undisturbed
  <2>2. Visible'[b] = f
    BY <1>1, <1>4 DEF Layouts
  <2>. QED
    BY <1>2, <2>1, <2>2 DEF Undisturbed
<1>. QED
  BY <1>2, <1>3, <1>4, <1>6, <1>7, OthersRest

\* A step of the writer at work that shows nothing new.
LEMMA UnseenKeeps ==
    ASSUME AInv, NEW w \in Writers, Alone(w), OwnStep(w),
           Visible' = Visible, name' = name,
           phase'[w] \in {"next", "purge", "fill"} => solo'[w],
           w \in Runs => /\ phase'[w] # "idle" => runName'[w] = name
                         /\ phase'[w] \in {"loaded", "rename"} => target'[w] = table',
           w \in Editors => \/ added'[w] = Nothing
                            \/ added'[w] = added[w] /\ phase'[w] # "idle"
    PROVE  Serial'
<1>1. VisibleIsGapless'
  BY DEF AInv, Serial, VisibleIsGapless, Snapshot
<1>2. Undisturbed(w)'
  BY DEF AInv, Serial, Undisturbed
<1>. QED
  BY <1>1, <1>2, OthersRest

\* The restore shows nothing new, and when it is done the table is what it held.
LEMMA RestoreIsUnseen ==
    ASSUME AInv, NEW w \in Writers, Alone(w), RestoreStep(w)
    PROVE  Visible' = Visible /\ name' = name /\ Serial'
<1>1. TypeOK /\ Undisturbed(w)
  BY DEF AInv, WInv, Serial
<1>2. CASE ~ Finish(w)
  <2>. DEFINE Goes == /\ Writing(w) /\ Writing(w)' /\ target' = target /\ name' = name
                      /\ phase'[w] \in {"next", "purge", "fill"} /\ solo'[w]
                      /\ added' = added /\ runName' = runName /\ OwnStep(w)
  <2>1. ASSUME Survey(w) PROVE Goes
    BY <1>1, <2>1 DEF Survey, Goto, Writing, TypeOK, OwnStep
  <2>2. ASSUME NextBucket(w) PROVE Goes
    BY <1>1, <2>2 DEF NextBucket, Goto, Writing, TypeOK, OwnStep, Undisturbed
  <2>3. ASSUME NEW row, WriteRow(w, row), phase[w] \in {"purge", "fill"} PROVE Goes
    BY <1>1, <2>3 DEF WriteRow, Writing, OwnStep, Undisturbed
  <2>4. ASSUME Purged(w) PROVE Goes
    BY <1>1, <2>4 DEF Purged, Goto, Writing, TypeOK, OwnStep, Undisturbed
  <2>5. ASSUME Filled(w) PROVE Goes
    BY <1>1, <2>5 DEF Filled, Goto, Writing, TypeOK, OwnStep, Undisturbed
  <2>6. Goes
    BY <1>2, <2>1, <2>2, <2>3, <2>4, <2>5 DEF RestoreStep, PurgeRow, FillRow
  <2>7. Alone(w)'
    BY <2>6 DEF Alone, OwnStep
  <2>8. Visible' = Visible
    BY <2>6, <2>7, VisibleOfWriter
  <2>9. w \in Runs => runName[w] = name
    BY <1>1, <2>6 DEF Undisturbed, Writing
  <2>. QED
    BY <2>6, <2>8, <2>9, UnseenKeeps
<1>3. CASE Finish(w)
  <2>1. Restored(w) /\ solo[w]
    BY <1>1, <1>3 DEF Finish, Restored, Undisturbed
  <2>2. table = target[w]
    BY <2>1, RestoredIsExact DEF AInv
  <2>3. /\ phase'[w] = IF w \in Runs THEN "rename"
                       ELSE IF added[w] = Nothing THEN "idle" ELSE "fetch"
        /\ w \in Runs => target' = target
        /\ table' = table /\ name' = name /\ added' = added /\ runName' = runName
        /\ OwnStep(w)
    BY <1>1, <1>3 DEF Finish, Goto, TypeOK, OwnStep
  <2>4. Alone(w)'
    BY <2>3 DEF Alone, OwnStep
  <2>5. Visible' = Visible
    BY <2>1, <2>2, <2>3, <2>4, VisibleOfWriter DEF Writing, Restored
  <2>6. w \in Runs => runName[w] = name
    BY <1>1, <2>1 DEF Undisturbed, Restored
  <2>7. w \in Editors => w \notin Runs
    BY WriterAssumption
  <2>. QED
    BY <2>2, <2>3, <2>5, <2>6, <2>7, UnseenKeeps
<1>. QED
  BY <1>2, <1>3

\* Each endpoint is the edit of the same name in AtomicPortfolio; a figure that
\* is filled in is that of the row it was fetched for.
LEMMA EditorMaps ==
    ASSUME AInv, NEW e \in Editors, Alone(e), EditorStep(e)
    PROVE  (Atomic!AtomicNext \/ (Visible' = Visible /\ name' = name)) /\ Serial'
<1>. DEFINE Becomes(b, f) == Visible' = [Visible EXCEPT ![b] = f] /\ name' = name
<1>1. /\ e \in Writers /\ TypeOK /\ e \notin Runs
      /\ Visible \in Layouts /\ Snapshot(Visible) = Visible
      /\ \A b \in Buckets : Visible[b] \in Bucket /\ Compact(Visible[b]) = Visible[b]
  BY VisibleTypes, WriterAssumption DEF Writers, AInv, WInv, Serial, VisibleIsGapless
<1>2. phase[e] \in {"idle", "fetch"} => table = Visible /\ Snapshot(table) = Visible
  BY <1>1, VisibleOfWriter DEF Writing
<1>3. phase[e] = "idle" => added[e] = Nothing /\ added = [added EXCEPT ![e] = Nothing]
  BY <1>1 DEF AInv, Serial, Undisturbed, TypeOK
<1>4. ASSUME NEW b \in Buckets, NEW k \in Idx, Edit(e, b, k)
      PROVE  Atomic!SetFigure(b, k) /\ Serial'
  <2>. DEFINE f == WithFigure(Visible[b], k, "typed")
  <2>1. phase[e] = "idle" /\ k \in Used(Visible[b]) /\ "typed" \in Figures
    BY <1>2, <1>4 DEF Edit, Figures
  <2>2. f \in Bucket /\ Compact(f) = f
    BY <1>1, <2>1, BucketTypes, EditsStayDense DEF Bucket
  <2>3. StartsEdit(e, b, f, Held(Visible), Nothing)
    BY <1>2, <1>3, <1>4, <2>1 DEF Edit, StartsEdit
  <2>. HIDE DEF f
  <2>4. Becomes(b, f) /\ Serial'
    BY <1>1, <2>2, <2>3, EditTakesEffect
  <2>. QED
    BY <2>1, <2>4, SameLayout DEF Atomic!SetFigure, Atomic!SetBucket, f
<1>5. ASSUME NEW b \in Buckets, NEW k \in Idx, Delete(e, b, k)
      PROVE  Atomic!Remove(b, k) /\ Serial'
  <2>. DEFINE f == Without(Visible[b], k)
  <2>1. phase[e] = "idle" /\ k \in Used(Visible[b])
    BY <1>2, <1>5 DEF Delete
  <2>2. f \in Bucket /\ Compact(f) = f
    BY <1>1, <2>1, BucketTypes, EditsStayDense DEF Bucket
  <2>3. StartsEdit(e, b, f, Held(Visible), Nothing)
    BY <1>2, <1>3, <1>5, <2>1 DEF Delete, StartsEdit
  <2>. HIDE DEF f
  <2>4. Becomes(b, f) /\ Serial'
    BY <1>1, <2>2, <2>3, EditTakesEffect
  <2>. QED
    BY <2>1, <2>4, SameLayout DEF Atomic!Remove, Atomic!SetBucket, f
<1>6. ASSUME NEW b \in Buckets, Reorder(e, b)
      PROVE  Atomic!Move(b) /\ Serial'
  <2>1. phase[e] = "idle"
    BY <1>6 DEF Reorder
  <2>2. PICK order \in Orders(Visible[b]) :
          Restore(e, [Visible EXCEPT ![b] = Reordered(Visible[b], order)], Held(Visible))
    BY <1>2, <1>6, <2>1 DEF Reorder
  <2>. DEFINE f == Reordered(Visible[b], order)
  <2>3. f \in Bucket /\ Compact(f) = f
    BY <1>1, BucketTypes, EditsStayDense DEF Bucket
  <2>4. StartsEdit(e, b, f, Held(Visible), Nothing)
    BY <1>2, <1>3, <1>6, <2>1, <2>2 DEF Reorder, StartsEdit
  <2>. HIDE DEF f
  <2>5. Becomes(b, f) /\ Serial'
    BY <1>1, <2>3, <2>4, EditTakesEffect
  <2>. QED
    BY <2>5, SameLayout DEF Atomic!Move, Atomic!SetBucket, f
<1>7. ASSUME NEW b \in Buckets, NEW row \in Rows, Fresh(row), Add(e, b, row)
      PROVE  Atomic!Insert(b, row) /\ Serial'
  <2>. DEFINE f == Appended(Visible[b], row)
              a == IF row.fig = "missing"
                   THEN [bucket |-> b, index |-> NextIndex(Visible[b]), id |-> row.id]
                   ELSE Nothing
  <2>1. /\ phase[e] = "idle" /\ NextIndex(Visible[b]) \in Idx
        /\ row.fig \in {"missing", "typed"}
    BY <1>2, <1>7 DEF Add
  <2>2. /\ f \in Bucket /\ Compact(f) = f
        /\ NextIndex(Visible[b]) \in Used(f) /\ f[NextIndex(Visible[b])] = row
    BY <1>1, <2>1, BucketTypes, EditsStayDense DEF Bucket
  <2>3. a # Nothing => a.bucket = b /\ a.index \in Used(f) /\ f[a.index].id = a.id
    BY <2>2
  <2>4. StartsEdit(e, b, f, Held(Visible) \union {b}, a)
    BY <1>2, <1>7, <2>1, <2>3 DEF Add, StartsEdit
  <2>5. \A held \in RowsOf(Visible) : held.id # row.id
    BY <1>2, <1>7, <2>1 DEF Fresh
  <2>. HIDE DEF f, a
  <2>6. Becomes(b, f) /\ Serial'
    BY <1>1, <2>2, <2>4, EditTakesEffect
  <2>. QED
    BY <2>1, <2>5, <2>6, SameLayout DEF Atomic!Insert, Atomic!SetBucket, Atomic!Idx, Idx, f
<1>8. ASSUME FillFigure(e)
      PROVE  (\E b \in Buckets, k \in Idx : Atomic!SetFigure(b, k)) /\ Serial'
  <2>. DEFINE b == added[e].bucket
              k == added[e].index
              f == WithFigure(Visible[b], k, added[e].id)
  <2>1. /\ phase[e] = "fetch" /\ k \in Used(Visible[b]) /\ b \in Buckets
        /\ Visible[b][k].fig = "missing" /\ added[e] # Nothing
    BY <1>1, <1>2, <1>8 DEF FillFigure, AInv, WInv, PricedRow, TypeOK
  <2>2. added[e].id \in Figures /\ Visible[b][k].id = added[e].id
    BY <1>1, <2>1 DEF AInv, WInv, PricedRow, Serial, Undisturbed, Figures
  <2>3. f \in Bucket /\ Compact(f) = f /\ k \in Idx
    BY <1>1, <2>1, <2>2, BucketTypes, EditsStayDense DEF Bucket
  <2>4. StartsEdit(e, b, f, Held(Visible), Nothing)
    BY <1>2, <1>8, <2>1 DEF FillFigure, StartsEdit
  <2>5. f = WithFigure(Visible[b], k, Visible[b][k].id)
    BY <2>2
  <2>. HIDE DEF f, b, k
  <2>6. Becomes(b, f) /\ Serial'
    BY <1>1, <2>1, <2>3, <2>4, EditTakesEffect
  <2>7. Atomic!SetFigure(b, k)
    BY <2>1, <2>5, <2>6, SameLayout DEF Atomic!SetFigure, Atomic!SetBucket
  <2>. QED
    BY <2>1, <2>3, <2>6, <2>7
<1>9. ASSUME NoFill(e) PROVE (Visible' = Visible /\ name' = name) /\ Serial'
  <2>1. /\ phase[e] = "fetch" /\ phase'[e] = "idle" /\ table' = table /\ name' = name
        /\ added'[e] = Nothing /\ OwnStep(e)
    BY <1>1, <1>9 DEF NoFill, Goto, TypeOK, OwnStep
  <2>2. Alone(e)'
    BY <2>1 DEF Alone, OwnStep
  <2>3. Visible' = Visible
    BY <1>1, <2>1, <2>2, VisibleOfWriter DEF Writing
  <2>. QED
    BY <1>1, <2>1, <2>3, UnseenKeeps
<1>10. ASSUME Rename(e) PROVE (\E t \in Names : Atomic!Retitle(t)) /\ Serial'
  <2>1. /\ name' \in Names /\ UNCHANGED <<table, phase, target, added, solo>>
        /\ \A w \in Writers : phase[w] = "idle"
    BY <1>10 DEF Rename, Alone
  <2>2. Visible' = Visible
    BY <2>1 DEF Visible, Writing
  <2>3. \A w \in Writers : Undisturbed(w)'
    BY <2>1 DEF AInv, Serial, Undisturbed
  <2>4. Serial'
    BY <2>1, <2>2, <2>3 DEF AInv, Serial, OneAtWork, VisibleIsGapless, Snapshot
  <2>. QED
    BY <2>1, <2>2, <2>4 DEF Atomic!Retitle
<1>11. \A b \in Buckets, k \in Idx :
         Atomic!SetFigure(b, k) \/ Atomic!Remove(b, k) => Atomic!AtomicNext
  BY DEF Atomic!AtomicNext, Atomic!Idx, Idx
<1>12. \A b \in Buckets : Atomic!Move(b) => Atomic!AtomicNext
  BY DEF Atomic!AtomicNext
<1>13. \A b \in Buckets, row \in Rows : Atomic!Insert(b, row) => Atomic!AtomicNext
  BY SameLayout DEF Atomic!AtomicNext
<1>14. \A t \in Names : Atomic!Retitle(t) => Atomic!AtomicNext
  BY DEF Atomic!AtomicNext
<1>. QED
  BY <1>4, <1>5, <1>6, <1>7, <1>8, <1>9, <1>10, <1>11, <1>12, <1>13, <1>14
     DEF EditorStep

\* A run changes what is visible when it starts to persist: one figure of the
\* portfolio it loaded, which is the one stored.
LEMMA RunMaps ==
    ASSUME AInv, NEW r \in Runs, Alone(r), RunStep(r)
    PROVE  (Atomic!AtomicNext \/ (Visible' = Visible /\ name' = name)) /\ Serial'
<1>1. /\ r \in Writers /\ TypeOK /\ r \notin Editors
      /\ Visible \in Layouts /\ Snapshot(Visible) = Visible
      /\ \A b \in Buckets : Visible[b] \in Bucket /\ Compact(Visible[b]) = Visible[b]
  BY VisibleTypes, WriterAssumption DEF Writers, AInv, WInv, Serial, VisibleIsGapless
<1>2. ~Writing(r) => table = Visible
  BY <1>1, VisibleOfWriter
<1>3. /\ phase[r] # "idle" => runName[r] = name
      /\ phase[r] \in {"loaded", "rename"} => target[r] = table
  BY <1>1 DEF AInv, Serial, Undisturbed
<1>. DEFINE Unseen == Visible' = Visible /\ name' = name
<1>4. ASSUME OwnStep(r), ~Writing(r), ~Writing(r)', table' = table, name' = name,
             phase'[r] # "idle" => runName'[r] = name /\ target'[r] = table
      PROVE  Unseen /\ Serial'
  <2>1. Alone(r)'
    BY <1>4 DEF Alone, OwnStep
  <2>2. Visible' = Visible
    BY <1>1, <1>2, <1>4, <2>1, VisibleOfWriter
  <2>. QED
    BY <1>1, <1>4, <2>2, UnseenKeeps DEF Writing
<1>5. ASSUME Load(r) PROVE Unseen /\ Serial'
  <2>1. /\ phase'[r] = "loaded" /\ phase[r] = "idle" /\ runName'[r] = name
        /\ target'[r] = Snapshot(table) /\ OwnStep(r) /\ table' = table /\ name' = name
    BY <1>1, <1>5 DEF Load, Goto, OwnStep, TypeOK
  <2>2. ~Writing(r) /\ ~Writing(r)'
    BY <2>1 DEF Writing
  <2>. QED
    BY <1>1, <1>2, <1>4, <2>1, <2>2
<1>6. ASSUME RestoreName(r) PROVE Unseen /\ Serial'
  <2>1. /\ phase[r] = "rename" /\ phase'[r] = "loaded" /\ OwnStep(r) /\ table' = table
        /\ name' = runName[r] /\ runName' = runName /\ target' = target
    BY <1>1, <1>6 DEF RestoreName, Goto, OwnStep, TypeOK
  <2>2. ~Writing(r) /\ ~Writing(r)'
    BY <2>1 DEF Writing
  <2>. QED
    BY <1>3, <1>4, <2>1, <2>2
<1>7. ASSUME Plot(r) PROVE Unseen /\ Serial'
  <2>1. /\ phase[r] = "loaded" /\ phase'[r] = "idle" /\ OwnStep(r) /\ table' = table
        /\ name' = name
    BY <1>1, <1>7 DEF Plot, Goto, OwnStep, TypeOK
  <2>2. ~Writing(r) /\ ~Writing(r)'
    BY <2>1 DEF Writing
  <2>. QED
    BY <1>4, <2>1, <2>2
<1>8. ASSUME NEW b \in Buckets, NEW k \in Idx, Persist(r, b, k)
      PROVE  Atomic!SetFigure(b, k) /\ Serial'
  <2>. DEFINE id == Visible[b][k].id
              f == WithFigure(Visible[b], k, id)
  <2>1. phase[r] = "loaded" /\ k \in Used(Visible[b]) /\ target[r] = Visible
    BY <1>2, <1>3, <1>8 DEF Persist, Writing
  <2>2. Visible[b][k] \in Rows
    BY <1>1, <2>1 DEF Used, Bucket
  <2>3. id \in Figures
    BY <2>2 DEF Rows, Figures
  <2>4. f \in Bucket /\ Compact(f) = f
    BY <1>1, <2>1, <2>3, BucketTypes, EditsStayDense DEF Bucket
  <2>5. StartsEdit(r, b, f, Held(Visible), added[r])
    <3>1. added' = [added EXCEPT ![r] = added[r]]
      BY <1>1, <1>8 DEF Persist, TypeOK
    <3>. QED
      BY <1>1, <1>8, <2>1, <3>1 DEF Persist, StartsEdit
  <2>. HIDE DEF f
  <2>6. Visible' = [Visible EXCEPT ![b] = f] /\ name' = name /\ Serial'
    BY <1>1, <2>4, <2>5, EditTakesEffect
  <2>. QED
    BY <2>1, <2>6, SameLayout DEF Atomic!SetFigure, Atomic!SetBucket, f
<1>9. \A b \in Buckets, k \in Idx : Atomic!SetFigure(b, k) => Atomic!AtomicNext
  BY DEF Atomic!AtomicNext, Atomic!Idx, Idx
<1>. QED
  BY <1>5, <1>6, <1>7, <1>8, <1>9 DEF RunStep

\* Who is stopped outside a restore had nothing to show.
LEMMA StopIsUnseen ==
    ASSUME AInv, NEW w \in Writers, Alone(w), ~Writing(w), Stop(w)
    PROVE  Visible' = Visible /\ name' = name /\ Serial'
<1>1. /\ phase'[w] = "idle" /\ added'[w] = Nothing /\ OwnStep(w)
      /\ table' = table /\ name' = name
  BY DEF Stop, Goto, OwnStep, AInv, WInv, TypeOK
<1>2. Alone(w)' /\ ~Writing(w)'
  BY <1>1 DEF Alone, OwnStep, Writing
<1>3. Visible' = Visible
  BY <1>1, <1>2, VisibleOfWriter
<1>. QED
  BY <1>1, <1>3, UnseenKeeps

\* Every step is an edit of AtomicPortfolio or shows nothing new.
LEMMA AtomicStep ==
    ASSUME AInv, [SerialNext]_vars
    PROVE  AInv' /\ [Atomic!AtomicNext]_(Atomic!atomicVars)
<1>1. [Next]_vars
  BY DEF SerialNext, Next
<1>2. ASSUME \/ \E v \in Viewers : Count(v) \/ ClearCharts(v)
             \/ UNCHANGED vars
      PROVE  Visible' = Visible /\ name' = name /\ Serial'
  <2>1. UNCHANGED <<table, name, phase, target, added, solo, runName>>
    BY <1>2 DEF Count, ClearCharts, vars
  <2>2. Visible' = Visible
    BY <2>1 DEF Visible, Writing
  <2>. QED
    BY <2>1, <2>2 DEF AInv, Serial, OneAtWork, Undisturbed, VisibleIsGapless, Snapshot
<1>3. (Atomic!AtomicNext \/ (Visible' = Visible /\ name' = name)) /\ Serial'
  BY <1>2, RestoreIsUnseen, StopIsUnseen, EditorMaps, RunMaps DEF SerialNext
<1>. QED
  BY <1>1, <1>3, WInvStep DEF AInv, Atomic!atomicVars

\* Nobody is at work yet, and the table is as a snapshot lays it out.
LEMMA AtomicInitial == Init => AInv /\ Atomic!AtomicInit
<1>. SUFFICES ASSUME Init PROVE AInv /\ Atomic!AtomicInit
  OBVIOUS
<1>1. Visible = table
  BY DEF Init, Visible, Writing
<1>2. Serial
  BY <1>1 DEF Init, Serial, OneAtWork, Undisturbed, VisibleIsGapless, Writers
<1>. QED
  BY <1>1, <1>2, WInvInit, SameLayout DEF Init, AInv, Atomic!AtomicInit

\* However many threads, runs, buckets, rows and names there are: as long as they
\* take turns every endpoint is an atomic edit of a portfolio of lists without
\* gaps, and every persist of a run is one.  The deletes and inserts of restore end
\* in exactly the portfolio in memory, the figure fetched for an added row is filled
\* in on that row, and what a run loaded is still stored when it writes it back.
THEOREM AtomicRefinement == SerialSpec => ImplementsAtomic
<1>1. AInv /\ [SerialNext]_vars => AInv' /\ [Atomic!AtomicNext]_(Atomic!atomicVars)
  BY AtomicStep
<1>. QED
  BY <1>1, AtomicInitial, PTL DEF SerialSpec, ImplementsAtomic, Atomic!AtomicSpec

-----------------------------------------------------------------------------
(* Rows are stored once, as long as writers take turns.                    *)

\* In the list g every row is one of f, or new to the layout p; none twice.
Rearranges(g, f, p) ==
    /\ \A i, j \in Used(g) : g[i].id = g[j].id => i = j
    /\ \A i \in Used(g) : \/ \E j \in Used(f) : f[j].id = g[i].id
                          \/ \A row \in RowsOf(p) : row.id # g[i].id

\* Such a list in the place of f leaves every row stored once.
LEMMA RearrangedOnce ==
    ASSUME NEW p \in Layouts, StoredOnce(p), NEW b \in Buckets, NEW g \in Bucket,
           Rearranges(g, p[b], p)
    PROVE  StoredOnce([p EXCEPT ![b] = g])
<1>. DEFINE q == [p EXCEPT ![b] = g]
<1>1. /\ q \in [Buckets -> Bucket] /\ p \in [Buckets -> Bucket] /\ q[b] = g
      /\ \A c \in Buckets : c # b => q[c] = p[c]
  BY DEF Layouts, Bucket
<1>. HIDE DEF q
<1>2. \A k : k \in Keys(q) => /\ k[1] \in Buckets /\ k[2] \in Idx /\ k = <<k[1], k[2]>>
                              /\ k[2] \in Used(q[k[1]])
  BY <1>1 DEF Keys, Used, Bucket
<1>3. \A c \in Buckets : \A i \in Used(p[c]) : <<c, i>> \in Keys(p) /\ p[c][i] \in RowsOf(p)
  <2>. TAKE c \in Buckets
  <2>. TAKE i \in Used(p[c])
  <2>1. <<c, i>> \in Keys(p)
    BY <1>1 DEF Keys, Used, Bucket
  <2>. QED
    BY <2>1 DEF RowsOf
<1>4. ASSUME NEW c \in Buckets, c # b, NEW i \in Used(g), NEW j \in Used(p[c])
      PROVE  g[i].id # p[c][j].id
  <2>1. CASE \E l \in Used(p[b]) : p[b][l].id = g[i].id
    <3>1. PICK l \in Used(p[b]) : p[b][l].id = g[i].id
      BY <2>1
    <3>2. <<b, l>> \in Keys(p) /\ <<c, j>> \in Keys(p)
      BY <1>3
    <3>3. p[b][l].id = p[c][j].id => <<b, l>> = <<c, j>>
      BY <3>2 DEF StoredOnce
    <3>. QED
      BY <1>4, <3>1, <3>3
  <2>2. CASE \A row \in RowsOf(p) : row.id # g[i].id
    BY <1>3, <2>2
  <2>. QED
    BY <2>1, <2>2 DEF Rearranges
<1>5. ASSUME NEW k \in Keys(q), NEW l \in Keys(q), q[k[1]][k[2]].id = q[l[1]][l[2]].id
      PROVE  k = l
  <2>1. CASE k[1] = b /\ l[1] = b
    BY <1>1, <1>2, <1>5, <2>1 DEF Rearranges
  <2>2. CASE k[1] = b /\ l[1] # b
    BY <1>1, <1>2, <1>4, <1>5, <2>2
  <2>3. CASE k[1] # b /\ l[1] = b
    BY <1>1, <1>2, <1>4, <1>5, <2>3
  <2>4. CASE k[1] # b /\ l[1] # b
    <3>1. k \in Keys(p) /\ l \in Keys(p)
      BY <1>1, <1>2, <1>3, <2>4
    <3>2. p[k[1]][k[2]].id = p[l[1]][l[2]].id
      BY <1>1, <1>2, <1>5, <2>4
    <3>. QED
      BY <3>1, <3>2 DEF StoredOnce
  <2>. QED
    BY <2>1, <2>2, <2>3, <2>4
<1>. QED
  BY <1>5 DEF StoredOnce, q

\* The edits rearrange a list, or append a row that is new.
LEMMA EditsRearrange ==
    ASSUME NEW p \in Layouts, StoredOnce(p), NEW b \in Buckets
    PROVE  /\ \A k \in Used(p[b]) : /\ \A fig : Rearranges(WithFigure(p[b], k, fig), p[b], p)
                                    /\ Rearranges(Without(p[b], k), p[b], p)
           /\ \A order \in Orders(p[b]) : Rearranges(Reordered(p[b], order), p[b], p)
           /\ \A row \in Rows : (\A held \in RowsOf(p) : held.id # row.id) =>
                Rearranges(Appended(p[b], row), p[b], p)
<1>. DEFINE f == p[b]
<1>1. f \in Bucket /\ Used(f) \subseteq Idx
  BY DEF Layouts, Bucket, Used
<1>2. \A i, j \in Used(f) : f[i].id = f[j].id => i = j
  <2>. TAKE i, j \in Used(f)
  <2>1. <<b, i>> \in Keys(p) /\ <<b, j>> \in Keys(p)
    BY <1>1 DEF Keys, Used
  <2>. QED
    BY <2>1 DEF StoredOnce
<1>3. \A i \in Used(f) : f[i] \in RowsOf(p)
  <2>. TAKE i \in Used(f)
  <2>1. <<b, i>> \in Keys(p)
    BY <1>1 DEF Keys, Used
  <2>. QED
    BY <2>1 DEF RowsOf
<1>. HIDE DEF f
<1>4. ASSUME NEW k \in Used(f), NEW fig PROVE Rearranges(WithFigure(f, k, fig), f, p)
  <2>. DEFINE g == WithFigure(f, k, fig)
  <2>1. \A i \in Used(g) : i \in Used(f) /\ g[i].id = f[i].id
    BY <1>1 DEF WithFigure, Used, Bucket
  <2>. HIDE DEF g
  <2>. QED
    BY <1>2, <2>1 DEF Rearranges, g
<1>5. ASSUME NEW k \in Used(f) PROVE Rearranges(Without(f, k), f, p)
  <2>. DEFINE h == [f EXCEPT ![k] = NoRow]
              g == Compact(h)
              Place(i) == CHOOSE j \in Used(h) : Rank(h, j) = i
  <2>1. \A j \in Used(h) : j \in Used(f) /\ h[j] = f[j]
    BY <1>1 DEF Used, Bucket
  <2>2. \A i \in Used(g) : i \in Idx /\ g[i] # NoRow
    BY DEF Used, Compact
  <2>3. \A i \in Idx : g[i] # NoRow => /\ g[i] = h[Place(i)] /\ Place(i) \in Used(h)
                                       /\ Rank(h, Place(i)) = i
    BY DEF Compact
  <2>. HIDE DEF g, h, Place
  <2>4. \A i \in Used(g) : Place(i) \in Used(f) /\ g[i] = f[Place(i)]
    BY <2>1, <2>2, <2>3
  <2>5. ASSUME NEW i \in Used(g), NEW j \in Used(g), g[i].id = g[j].id PROVE i = j
    <3>1. Place(i) = Place(j)
      BY <1>2, <2>4, <2>5
    <3>. QED
      BY <2>2, <2>3, <3>1
  <2>6. Rearranges(g, f, p)
    BY <2>4, <2>5 DEF Rearranges
  <2>. QED
    BY <2>6 DEF Without, g, h
<1>6. ASSUME NEW order \in Orders(f) PROVE Rearranges(Reordered(f, order), f, p)
  <2>. DEFINE g == Reordered(f, order)
  <2>1. \A i \in Used(g) : i \in Used(f) /\ g[i] = f[order[i]]
    BY DEF Reordered, Used
  <2>2. /\ \A i \in Used(f) : order[i] \in Used(f)
        /\ \A i, j \in Used(f) : order[i] = order[j] => i = j
    BY DEF Orders
  <2>. HIDE DEF g
  <2>. QED
    BY <1>2, <2>1, <2>2 DEF Rearranges, g
<1>7. ASSUME NEW row \in Rows, \A held \in RowsOf(p) : held.id # row.id
      PROVE  Rearranges(Appended(f, row), f, p)
  <2>. DEFINE g == Appended(f, row)
              n == NextIndex(f)
  <2>1. ASSUME NEW i \in Used(g) PROVE (i = n /\ g[i] = row) \/ (i \in Used(f) /\ g[i] = f[i])
    <3>1. i \in Idx /\ g[i] # NoRow
      BY <1>1 DEF Appended, Used, Bucket
    <3>2. CASE i = n
      BY <1>1, <3>1, <3>2 DEF Appended, Bucket
    <3>3. CASE i # n
      BY <1>1, <3>1, <3>3 DEF Appended, Bucket, Used
    <3>. QED
      BY <3>2, <3>3
  <2>. HIDE DEF g, n
  <2>. QED
    BY <1>2, <1>3, <1>7, <2>1 DEF Rearranges, g
<1>. QED
  BY <1>4, <1>5, <1>6, <1>7 DEF f

\* So every atomic edit leaves every row stored once.
LEMMA AtomicKeepsOnce ==
    ASSUME AInv, StoredOnce(Visible), [Atomic!AtomicNext]_(Atomic!atomicVars)
    PROVE  StoredOnce(Visible)'
<1>1. Visible \in Layouts /\ \A b \in Buckets : Visible[b] \in Bucket
  BY VisibleTypes DEF AInv, Serial
<1>2. CASE Visible' = Visible
  BY <1>2 DEF StoredOnce, Keys
<1>3. ASSUME NEW b \in Buckets, NEW g \in Bucket, Visible' = [Visible EXCEPT ![b] = g],
             Rearranges(g, Visible[b], Visible)
      PROVE  StoredOnce(Visible)'
  <2>1. StoredOnce([Visible EXCEPT ![b] = g])
    BY <1>1, <1>3, RearrangedOnce
  <2>. QED
    BY <1>3, <2>1 DEF StoredOnce, Keys
<1>4. Atomic!Idx = Idx /\ Atomic!Rows = Rows
  BY SameLayout DEF Atomic!Idx, Idx
<1>5. ASSUME NEW b \in Buckets, NEW k \in Idx, Atomic!SetFigure(b, k) \/ Atomic!Remove(b, k)
      PROVE  StoredOnce(Visible)'
  <2>1. k \in Used(Visible[b])
    BY <1>5, SameLayout DEF Atomic!SetFigure, Atomic!Remove
  <2>2. CASE Atomic!SetFigure(b, k)
    <3>1. PICK fig \in {"typed", Visible[b][k].id} :
            Visible' = [Visible EXCEPT ![b] = WithFigure(Visible[b], k, fig)]
      BY <2>2, SameLayout DEF Atomic!SetFigure, Atomic!SetBucket
    <3>2. fig \in Figures
      BY <1>1, <2>1 DEF Used, Bucket, Rows, Figures
    <3>. QED
      BY <1>1, <1>3, <2>1, <3>1, <3>2, EditsRearrange, BucketTypes DEF Bucket
  <2>3. CASE Atomic!Remove(b, k)
    <3>1. Visible' = [Visible EXCEPT ![b] = Without(Visible[b], k)]
      BY <2>3, SameLayout DEF Atomic!Remove, Atomic!SetBucket
    <3>. QED
      BY <1>1, <1>3, <2>1, <3>1, EditsRearrange, BucketTypes DEF Bucket
  <2>. QED
    BY <1>5, <2>2, <2>3
<1>6. ASSUME NEW b \in Buckets, Atomic!Move(b) PROVE StoredOnce(Visible)'
  <2>1. PICK order \in Orders(Visible[b]) :
          Visible' = [Visible EXCEPT ![b] = Reordered(Visible[b], order)]
    BY <1>6, SameLayout DEF Atomic!Move, Atomic!SetBucket
  <2>. QED
    BY <1>1, <1>3, <2>1, EditsRearrange, BucketTypes DEF Bucket
<1>7. ASSUME NEW b \in Buckets, NEW row \in Rows, Atomic!Insert(b, row)
      PROVE  StoredOnce(Visible)'
  <2>1. /\ Visible' = [Visible EXCEPT ![b] = Appended(Visible[b], row)]
        /\ \A held \in RowsOf(Visible) : held.id # row.id
    BY <1>7, SameLayout DEF Atomic!Insert, Atomic!SetBucket
  <2>. QED
    BY <1>1, <1>3, <2>1, EditsRearrange, BucketTypes DEF Bucket
<1>8. ASSUME NEW t \in Names, Atomic!Retitle(t) PROVE StoredOnce(Visible)'
  BY <1>2, <1>8 DEF Atomic!Retitle
<1>. QED
  BY <1>2, <1>4, <1>5, <1>6, <1>7, <1>8 DEF Atomic!AtomicNext, Atomic!atomicVars

\* What reorder_constituents says of rows, that none is stored twice, is true when
\* writers take turns, whatever they do; with two of them overlapping it is not
\* (run PositionStore_reorder).
THEOREM StoredOnceInTurns == SerialSpec => []RowsStoredOnce
<1>. DEFINE Once == StoredOnce(Visible)
<1>1. Init => AInv /\ Once
  <2>. SUFFICES ASSUME Init PROVE AInv /\ Once
    OBVIOUS
  <2>1. Visible = table
    BY DEF Init, Visible, Writing
  <2>. QED
    BY <2>1, AtomicInitial DEF Init
<1>2. AInv /\ Once /\ [SerialNext]_vars => AInv' /\ Once'
  BY AtomicStep, AtomicKeepsOnce
<1>3. Once => RowsStoredOnce
  BY DEF RowsStoredOnce, Visible
<1>. QED
  BY <1>1, <1>2, <1>3, PTL DEF SerialSpec

================================================================================
