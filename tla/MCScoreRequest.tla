--------------------------- MODULE MCScoreRequest ---------------------------
(***************************************************************************)
(* Three requests on two workers: r1 and its retry r2 carry the transaction*)
(* t1 from a to b, r3 carries t2 from b to a, so that the requests meet on *)
(* every kind of row and can wait for each other in both orders.           *)
(***************************************************************************)
EXTENDS ScoreRequest, TLC

CONSTANTS r1, r2, r3, t1, t2, a, b, w1, w2

MCRequests == {r1, r2, r3}
MCTransactions == {t1, t2}
MCAccounts == {a, b}
MCTransactionOf == r1 :> t1 @@ r2 :> t1 @@ r3 :> t2
MCPartiesOf == t1 :> <<a, b>> @@ t2 :> <<b, a>>
MCWorkers == {w1, w2}
Interchangeable == Permutations({r1, r2}) \cup Permutations({w1, w2})
\* r1 and r3 alone: opposite payments, for the liveness properties.
Pair == {r1, r3}
PairTransactionOf == r1 :> t1 @@ r3 :> t2
Live == {"live"}
MCModes == {"live", "shadow"}
=============================================================================
