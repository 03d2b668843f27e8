------------------------- MODULE MCTransactionCache -------------------------
(***************************************************************************)
(* TransactionCache for model checking.                                    *)
(***************************************************************************)
EXTENDS TransactionCache, TLC

CONSTANTS p1, p2, x

Symmetry == Permutations(Callers)

\* Some days up to yesterday, and up to a day that has not come.
MCSpans == {<<3, -1>>, <<1, 1>>}

\* Two neighbouring days and a range across both, for a merge that is overtaken.
OvertakenSpans == {<<0, 0>>, <<2, -2>>, <<3, -1>>}
=============================================================================
