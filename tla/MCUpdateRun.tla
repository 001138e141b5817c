------------------------------ MODULE MCUpdateRun ------------------------------
(***************************************************************************)
(* Model-checking instance of UpdateRun: bucket 1 is the equities, bucket  *)
(* 2 the cash.                                                             *)
(***************************************************************************)
EXTENDS UpdateRun

CONSTANTS i1, i2

AllEquity == [i \in Isins |-> 1]

\* A figure typed in, or nothing yet.
Typed(id, b) == Row(id, b, 5, 1)
Blank(id, b) == Row(id, b, NoFigure, NoFigure)

\* What the add form and earlier runs may have left, one broker or a row of a
\* broker that is never scraped: a holding twice, one without figures, a row
\* under a name of the user's own.
Equities(b) ==
    {<<>>, <<Typed(i1, b)>>, <<Blank(i1, b)>>, <<Typed(i2, b), Typed(i1, b)>>,
     <<Typed(i1, b), Typed(i1, "manual"), Typed(i1, b)>>,
     <<Row(i1, "manual", 5, 2), Typed(i1, b)>>,
     <<Typed(i1, "manual"), Row(i1, "manual", 5, 2)>>}
Cash(b) ==
    {<<>>, <<Typed("overnight", b)>>, <<Blank("cash", b)>>,
     <<Typed("other", b), Typed("overnight", b)>>, <<Blank("cash", b), Typed("other", b)>>}

SomePortfolios(bs) ==
    LET b == IF bs = {} THEN "oskar" ELSE CHOOSE b \in bs : TRUE
    IN  {<<e, c>> : e \in Equities(b), c \in Cash(b)}

NoneOrAll == {[i \in Isins |-> NoFigure], [i \in Isins |-> CachedQuote]}
=============================================================================
