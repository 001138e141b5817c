-------------------------- MODULE PriceCacheProofs --------------------------
(***************************************************************************)
(* What a process does to the cache table when nobody interferes           *)
(* (PriceCache), for all sets of processes, ISINs and fields.              *)
(***************************************************************************)
EXTENDS PriceCache, TLAPS

\* The dictionary of a process that is alone agrees with the table, but for
\* the row it has just written and not yet mirrored.
MemoryAgrees(p) ==
  \A i \in Isins :
    (pc[p] = "mirror" /\ i = hand[p]) \/ OrEmpty(copy[p][i]) = OrEmpty(table[i])

\* The row about to be put differs from the stored one by the news.
PutsNews(p) ==
  pc[p] = "put" => merged[p] = Merge(OrEmpty(table[hand[p]]), news[p])

SoloInv == \A p \in Procs : solo[p] => MemoryAgrees(p) /\ PutsNews(p)

IInv == TypeOK /\ SoloInv

-----------------------------------------------------------------------------
(* Rows. *)

LEMMA SomeIsinType == SomeIsin \in Isins
  BY SomeIsins DEF SomeIsin

LEMMA EmptyRowType == EmptyRow \in Row
  BY FetchesBounded DEF EmptyRow, Row, Figures

LEMMA OrEmptyType ==
  ASSUME NEW row \in Row \union {NoRow}
  PROVE  OrEmpty(row) \in Row
  BY EmptyRowType DEF OrEmpty

LEMMA MergeType ==
  ASSUME NEW row \in Row, NEW partial \in Partial
  PROVE  Merge(row, partial) \in Row
  BY DEF Merge, Row, Partial

LEMMA NothingType == Nothing \in Partial
<1>1. Nothing \in [{} -> Figures]
  BY DEF Nothing
<1>2. {} \in SUBSET Fields
  OBVIOUS
<1>3. QED
  BY <1>1, <1>2 DEF Partial

-----------------------------------------------------------------------------
(* Types. *)

LEMMA InitType == Init => TypeOK
<1> SUFFICES ASSUME Init PROVE TypeOK
  OBVIOUS
<1>1. table \in Table
  BY FetchesBounded DEF Init, Table, Row, Figures
<1>2. /\ copy \in [Procs -> Table]
  BY DEF Init, Table
<1>3. QED
  BY <1>1, <1>2, SomeIsinType, EmptyRowType, NothingType, FetchesBounded DEF Init, TypeOK

\* The writes of a row and of the locals keep the types.
LEMMA WriteRowType ==
  ASSUME TypeOK, NEW p \in Procs, NEW i \in Isins, NEW row \in Row, WriteRow(p, i, row)
  PROVE  table' \in Table /\ solo' \in [Procs -> BOOLEAN]
  BY DEF TypeOK, WriteRow, Table

LEMMA ReturnType ==
  ASSUME TypeOK, NEW p \in Procs, Return(p)
  PROVE  /\ pc' \in [Procs -> {"off", "ready", "sync", "fetch", "resync", "put", "mirror", "flush"}]
         /\ hand' \in [Procs -> Isins]
         /\ wanted' \in [Procs -> SUBSET Fields]
         /\ news' \in [Procs -> Partial]
         /\ merged' \in [Procs -> Row]
  BY SomeIsinType, EmptyRowType, NothingType DEF TypeOK, Return, Goto, Forget

LEMMA WriteBackType ==
  ASSUME TypeOK, NEW p \in Procs, WriteBack(p), UNCHANGED copy,
         NEW stage \in WritingBack, Goto(p, stage)
  PROVE  /\ left' \in [Procs -> SUBSET Isins]
         /\ \A q \in Procs :
              left'[q] \subseteq IF pc'[q] \in WritingBack THEN Known(copy'[q]) ELSE {}
  BY DEF TypeOK, WriteBack, Known, Goto

LEMMA TypeStep == TypeOK /\ [Next]_vars => TypeOK'
<1> SUFFICES ASSUME TypeOK, [Next]_vars
             PROVE  TypeOK'
  OBVIOUS
<1>1. ASSUME NEW p \in Procs, Load(p)
      PROVE  TypeOK'
  BY <1>1 DEF TypeOK, Load, Goto, Known, WritingBack
<1>2. ASSUME NEW p \in Procs, NEW i \in Isins, Build(p, i)
      PROVE  TypeOK'
  BY <1>2, WriteBackType DEF TypeOK, Build, Goto, WritingBack
<1>3. ASSUME NEW p \in Procs, NEW i \in Isins, RestoreRow(p, i)
      PROVE  TypeOK'
  <2>1. copy[p][i] \in Row
    BY <1>3 DEF TypeOK, RestoreRow, Known, WritingBack, Table
  <2>2. table' \in Table /\ solo' \in [Procs -> BOOLEAN]
    BY <1>3, <2>1, WriteRowType DEF RestoreRow
  <2>3. QED
    BY <1>3, <2>2 DEF TypeOK, RestoreRow, Known, WritingBack
<1>4. ASSUME NEW p \in Procs, ReadCached(p)
      PROVE  TypeOK'
  BY <1>4 DEF TypeOK, ReadCached, Goto, Wanted, Known, WritingBack
<1>5. ASSUME NEW p \in Procs, FetchNothing(p) \/ KeepPrevious(p)
      PROVE  TypeOK'
  BY <1>5, ReturnType DEF TypeOK, FetchNothing, KeepPrevious, Return, Goto, Known, WritingBack
<1>6. ASSUME NEW p \in Procs, NEW found \in SUBSET Fields, Fetch(p, found)
      PROVE  TypeOK'
  <2>1. clock' \in 1..(MaxFetches + 1)
    BY <1>6, FetchesBounded DEF TypeOK, Fetch
  <2>2. [f \in found |-> clock'] \in Partial
    <3>1. [f \in found |-> clock'] \in [found -> Figures]
      BY <2>1, FetchesBounded DEF Figures
    <3>2. QED
      BY <3>1 DEF Partial
  <2>3. news' \in [Procs -> Partial]
    BY <1>6, <2>2 DEF TypeOK, Fetch
  <2>4. QED
    BY <1>6, <2>1, <2>3, WriteBackType DEF TypeOK, Fetch, Goto, WritingBack
<1>7. ASSUME NEW p \in Procs, UpsertRead(p)
      PROVE  TypeOK'
  <2>1. OrEmpty(table[hand[p]]) \in Row /\ hand[p] \in Isins
    BY OrEmptyType DEF TypeOK, Table
  <2>2. Merge(OrEmpty(table[hand[p]]), news[p]) \in Row
    BY <2>1, MergeType DEF TypeOK
  <2>3. table' \in Table /\ solo' \in [Procs -> BOOLEAN]
    BY <1>7, <2>1, WriteRowType DEF UpsertRead
  <2>4. QED
    BY <1>7, <2>2, <2>3 DEF TypeOK, UpsertRead, Goto, Known, WritingBack
<1>8. ASSUME NEW p \in Procs, UpsertPut(p)
      PROVE  TypeOK'
  <2>1. table' \in Table /\ solo' \in [Procs -> BOOLEAN]
    BY <1>8, WriteRowType DEF TypeOK, UpsertPut
  <2>2. QED
    BY <1>8, <2>1 DEF TypeOK, UpsertPut, Goto, Known, WritingBack
<1>9. ASSUME NEW p \in Procs, MirrorRow(p)
      PROVE  TypeOK'
  <2>1. copy' \in [Procs -> Table]
    BY <1>9 DEF TypeOK, MirrorRow, Table
  <2>2. QED
    BY <1>9, <2>1, ReturnType DEF TypeOK, MirrorRow, Return, Goto, Known, WritingBack
<1>10. ASSUME NEW p \in Procs, FlushBegins(p)
       PROVE  TypeOK'
  BY <1>10, WriteBackType DEF TypeOK, FlushBegins, Goto, WritingBack
<1>11. ASSUME NEW p \in Procs, FlushEnds(p)
       PROVE  TypeOK'
  BY <1>11, ReturnType DEF TypeOK, FlushEnds, Return, Goto, Known, WritingBack
<1>12. ASSUME NEW p \in Procs, Leave(p)
       PROVE  TypeOK'
  <2>1. [i \in Isins |-> NoRow] \in Table
    BY DEF Table
  <2>2. QED
    BY <1>12, <2>1, SomeIsinType, EmptyRowType, NothingType DEF TypeOK, Leave, Forget, Known, WritingBack
<1>13. CASE UNCHANGED vars
  BY <1>13 DEF TypeOK, vars, Known, WritingBack
<1>14. QED
  BY <1>1, <1>2, <1>3, <1>4, <1>5, <1>6, <1>7, <1>8, <1>9, <1>10, <1>11, <1>12, <1>13
  DEF Next, ProcStep

-----------------------------------------------------------------------------
(* A process that is alone. *)

\* A step of q changes no local of another process, and the table only in
\* ways another process that is still alone does not notice.
LEMMA OthersStep ==
  ASSUME TypeOK, NEW p \in Procs, NEW q \in Procs \ {p}, ProcStep(q)
  PROVE  /\ pc'[p] = pc[p] /\ copy'[p] = copy[p] /\ left'[p] = left[p]
         /\ hand'[p] = hand[p] /\ news'[p] = news[p] /\ merged'[p] = merged[p]
         /\ solo'[p] => solo[p] /\ table' = table
<1> USE DEF TypeOK, Table, Goto, Return, Forget, WriteBack
<1>1. CASE Load(q) \/ \E i \in Isins : Build(q, i)
  BY <1>1 DEF Load, Build
<1>2. ASSUME NEW i \in Isins, RestoreRow(q, i)
      PROVE  /\ pc'[p] = pc[p] /\ copy'[p] = copy[p] /\ left'[p] = left[p]
             /\ hand'[p] = hand[p] /\ news'[p] = news[p] /\ merged'[p] = merged[p]
             /\ solo'[p] => solo[p] /\ table' = table
  BY <1>2 DEF RestoreRow, WriteRow
<1>3. CASE ReadCached(q) \/ FetchNothing(q) \/ \E found \in SUBSET Fields : Fetch(q, found)
  BY <1>3 DEF ReadCached, FetchNothing, Fetch
<1>4. CASE UpsertRead(q)
  BY <1>4 DEF UpsertRead, WriteRow
<1>5. CASE UpsertPut(q)
  BY <1>5 DEF UpsertPut, WriteRow
<1>6. CASE KeepPrevious(q) \/ MirrorRow(q)
  BY <1>6 DEF KeepPrevious, MirrorRow
<1>7. CASE FlushBegins(q) \/ FlushEnds(q)
  BY <1>7 DEF FlushBegins, FlushEnds
<1>8. CASE Leave(q)
  BY <1>8 DEF Leave
<1>9. QED
  BY <1>1, <1>2, <1>3, <1>4, <1>5, <1>6, <1>7, <1>8 DEF ProcStep

\* What a process that is alone does to the table in a step of its own.
OnlyNews(p) ==
  \A i \in Isins, f \in Fields :
    \/ Figure(i, f)' = Figure(i, f)
    \/ i = hand[p] /\ f \in DOMAIN news[p] /\ Figure(i, f)' = news[p][f]

Agrees(p) == MemoryAgrees(p) /\ PutsNews(p)

\* Writing a row back, or creating an empty one, changes no figure.
LEMMA SameFigures ==
  ASSUME TypeOK, NEW p \in Procs, NEW i \in Isins, NEW row \in Row, WriteRow(p, i, row),
         OrEmpty(row) = OrEmpty(table[i])
  PROVE  \A j \in Isins : OrEmpty(table'[j]) = OrEmpty(table[j])
  BY DEF TypeOK, Table, WriteRow

LEMMA OwnStep ==
  ASSUME TypeOK, NEW p \in Procs, ProcStep(p), solo[p] => Agrees(p)
  PROVE  /\ solo'[p] => Agrees(p)'
         /\ solo[p] => OnlyNews(p)
<1> DEFINE Goal == (solo'[p] => Agrees(p)') /\ (solo[p] => OnlyNews(p))
<1> USE DEF TypeOK, Table, Agrees, MemoryAgrees, PutsNews, OnlyNews, Figure
<1>1. CASE Load(p)
  BY <1>1 DEF Load, Goto
<1>2. ASSUME NEW i \in Isins, Build(p, i)
      PROVE  Goal
  BY <1>2 DEF Build, Goto
<1>3. ASSUME NEW i \in Isins, RestoreRow(p, i)
      PROVE  Goal
  <2>1. /\ copy[p][i] \in Row
        /\ pc[p] \in WritingBack
        /\ WriteRow(p, i, copy[p][i])
        /\ UNCHANGED <<pc, copy, hand, news, merged>>
        /\ solo'[p] = solo[p]
    BY <1>3 DEF RestoreRow, WriteRow, Known
  <2>2. SUFFICES ASSUME solo[p]
                 PROVE  Agrees(p)' /\ OnlyNews(p)
    BY <2>1
  <2>3. \A j \in Isins : OrEmpty(table'[j]) = OrEmpty(table[j])
    <3>1. OrEmpty(copy[p][i]) = OrEmpty(table[i])
      BY <2>1, <2>2 DEF WritingBack
    <3>2. QED
      BY <3>1, <2>1, SameFigures
  <2>4. QED
    BY <2>1, <2>2, <2>3 DEF WritingBack
<1>4. CASE ReadCached(p)
  BY <1>4 DEF ReadCached, Goto
<1>5. CASE FetchNothing(p) \/ KeepPrevious(p)
  BY <1>5 DEF FetchNothing, KeepPrevious, Return, Forget, Goto
<1>6. ASSUME NEW found \in SUBSET Fields, Fetch(p, found)
      PROVE  Goal
  BY <1>6 DEF Fetch, Goto
<1>7. CASE UpsertRead(p)
  <2> DEFINE row == OrEmpty(table[hand[p]])
  <2>1. row \in Row /\ row # NoRow /\ hand[p] \in Isins
    BY OrEmptyType, NoRowIsNoRow
  <2>2. /\ pc[p] = "resync" /\ pc'[p] = "put"
        /\ UNCHANGED <<copy, hand, news>>
        /\ merged'[p] = Merge(row, news[p])
        /\ WriteRow(p, hand[p], row)
        /\ solo'[p] = solo[p]
    BY <1>7 DEF UpsertRead, Goto, WriteRow
  <2>3. OrEmpty(row) = row
    BY <2>1 DEF OrEmpty
  <2>4. \A j \in Isins : OrEmpty(table'[j]) = OrEmpty(table[j])
    BY <2>1, <2>2, <2>3, SameFigures
  <2>5. QED
    BY <2>1, <2>2, <2>4
<1>8. CASE UpsertPut(p)
  <2>1. /\ pc[p] = "put" /\ pc'[p] = "mirror"
        /\ UNCHANGED <<copy, hand, news, merged>>
        /\ table' = [table EXCEPT ![hand[p]] = merged[p]]
        /\ solo'[p] = solo[p]
    BY <1>8 DEF UpsertPut, Goto, WriteRow
  <2>2. \A j \in Isins \ {hand[p]} : table'[j] = table[j]
    BY <2>1
  <2>3. OrEmpty(table'[hand[p]]) = merged[p]
    BY <2>1, NoRowIsNoRow DEF OrEmpty
  <2>4. solo[p] => OnlyNews(p)
    BY <2>1, <2>2, <2>3 DEF Merge
  <2>5. QED
    BY <2>1, <2>2, <2>4
<1>9. CASE MirrorRow(p)
  BY <1>9 DEF MirrorRow, Return, Forget, Goto
<1>10. CASE FlushBegins(p) \/ FlushEnds(p)
  BY <1>10 DEF FlushBegins, FlushEnds, Return, Forget, Goto
<1>11. CASE Leave(p)
  BY <1>11 DEF Leave
<1>12. QED
  BY <1>1, <1>2, <1>3, <1>4, <1>5, <1>6, <1>7, <1>8, <1>9, <1>10, <1>11 DEF ProcStep

LEMMA InitInv == Init => IInv
<1> SUFFICES ASSUME Init PROVE IInv
  OBVIOUS
<1>1. TypeOK
  BY InitType
<1>2. SoloInv
  BY DEF Init, SoloInv
<1>3. QED
  BY <1>1, <1>2 DEF IInv

LEMMA InvStep == IInv /\ [Next]_vars => IInv'
<1> SUFFICES ASSUME IInv, [Next]_vars
             PROVE  IInv'
  OBVIOUS
<1>1. TypeOK /\ TypeOK'
  BY TypeStep DEF IInv
<1>2. ASSUME NEW q \in Procs, ProcStep(q), NEW p \in Procs, solo'[p]
      PROVE  Agrees(p)'
  <2>1. CASE p = q
    BY <2>1, <1>1, <1>2, OwnStep DEF IInv, SoloInv, Agrees
  <2>2. CASE p # q
    BY <2>2, <1>1, <1>2, OthersStep DEF IInv, SoloInv, Agrees, MemoryAgrees, PutsNews
  <2>3. QED
    BY <2>1, <2>2
<1>3. CASE UNCHANGED vars
  BY <1>1, <1>3 DEF IInv, SoloInv, MemoryAgrees, PutsNews, vars
<1>4. QED
  BY <1>1, <1>2, <1>3 DEF Next, IInv, SoloInv, Agrees

LEMMA Invariance == Spec => []IInv
  BY InitInv, InvStep, PTL DEF Spec

\* The type invariant.
THEOREM TypeCorrect == Spec => []TypeOK
<1>1. IInv => TypeOK
  BY DEF IInv
<1>2. QED
  BY <1>1, Invariance, PTL

\* As long as nobody else writes, a process changes no figure but those it
\* fetched: its write-backs and its flush are without effect.
THEOREM SoloWritesNews == Spec => SoloWritesOnlyNews
<1> DEFINE Exact == \A p \in Procs : solo[p] /\ Moves(p) => OnlyNews(p)
<1>1. IInv /\ [Next]_vars => [Exact]_vars
  <2> SUFFICES ASSUME IInv, NEW q \in Procs, ProcStep(q), NEW p \in Procs, solo[p], Moves(p)
               PROVE  OnlyNews(p)
    BY DEF Next
  <2>1. p = q
    BY OthersStep DEF IInv, Moves
  <2>2. QED
    BY <2>1, OwnStep DEF IInv, SoloInv, Agrees
<1>2. [Exact]_vars <=> [\A p \in Procs : solo[p] /\ Moves(p) =>
        \A i \in Isins, f \in Fields :
          \/ Figure(i, f)' = Figure(i, f)
          \/ i = hand[p] /\ f \in DOMAIN news[p] /\ Figure(i, f)' = news[p][f]]_vars
  BY DEF OnlyNews
<1>3. QED
  BY <1>1, <1>2, Invariance, PTL DEF Spec, SoloWritesOnlyNews

=============================================================================
