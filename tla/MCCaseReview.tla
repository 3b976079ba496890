---------------------------- MODULE MCCaseReview ----------------------------
(***************************************************************************)
(* Three feedbacks and two reviews on two workers.  The two alerts share a *)
(* fingerprint, so that false positives meet in the registry, and one of   *)
(* them has a null feature.                                                *)
(***************************************************************************)
EXTENDS CaseReview, TLC

CONSTANTS a1, a2, p, f1, f2, f3, d1, d2, w1, w2

MCAlerts == {a1, a2}
MCFingerprints == {p}
MCFingerprintOf == a1 :> p @@ a2 :> p
MCSparse == {a2}
MCFeedbacks == {f1, f2, f3}
TwoFeedbacks == {f1, f2}
MCReviews == {d1, d2}
MCWorkers == {w1, w2}
Interchangeable ==
    Permutations(MCReviews) \cup Permutations(MCWorkers) \cup Permutations(MCFeedbacks)
=============================================================================
