-------------------------- MODULE MCPrototypeVault --------------------------
(***************************************************************************)
(* Two workers start from a full vault with one benign and one fraud       *)
(* prototype; a third, of fraud, can be injected on either.                *)
(***************************************************************************)
EXTENDS PrototypeVault, TLC

CONSTANTS benign, fraud, fresh, w1, w2, s1

MCPrototypes == {benign, fraud, fresh}
MCLabelOf == benign :> 0 @@ fraud :> 1 @@ fresh :> 1
MCInitialVault == <<benign, fraud>>
MCWorkers == {w1, w2}
MCScores == {s1}
SwapWorkers == Permutations({w1, w2})
=============================================================================
