----------------------------- MODULE MCDiscovery -----------------------------
(***************************************************************************)
(* Four payments on two threads: two of one pattern, one of them with an   *)
(* earlier row, one whose score is rounded up to the threshold, and one    *)
(* that is not unlike enough.                                              *)
(***************************************************************************)
EXTENDS Discovery

CONSTANTS t1, t2, x

MCThreads == {t1, t2}
MCPatterns == {x}

Payment(exact, score, anomaly) ==
    [features |-> [pattern |-> x, exact |-> exact], score |-> score, anomaly |-> anomaly]

MCPayments ==
    {Payment(TRUE, 500, -2001), Payment(FALSE, 500, -3000), Payment(TRUE, 3800, -2500),
     Payment(FALSE, 500, -2000)}
MCEarlier == {Payment(TRUE, 500, -2001)}
=============================================================================
