----------------------------- MODULE Committee -----------------------------
(***************************************************************************)
(* How the committee (app/detection/tier3) comes to a score: what each of  *)
(* the five scorers answers, when its answer is missing, the specialist    *)
(* override, the meta-learner and the weighted mean it replaces.           *)
(*                                                                         *)
(* Scores are in units of 1/100000.  A model's probability is an input,    *)
(* Fails if the model raises.                                              *)
(***************************************************************************)
EXTENDS Integers, FiniteSets, FiniteSetsExt

CONSTANTS
    Missing,  \* a value that is not there, NaN or None
    Fails     \* a call that raises

One == 100000

ScorerIds == {"A", "B", "C", "D", "F"}

FallbackWeight ==
    [s \in ScorerIds |-> CASE s = "A" -> 4 [] s \in {"B", "C"} -> 2 [] OTHER -> 1]

OverrideThreshold ==
    [s \in ScorerIds |-> CASE s = "A" -> 92000 [] s = "C" -> 88000
                           [] s = "F" -> 85000 [] OTHER -> 90000]

Clamp(x) == Max({0, Min({One, x})})

Output(score, missing) == [score |-> Clamp(score), missing |-> missing]

Unavailable == Output(One \div 2, TRUE)

\* A model that is there and does not raise answers with its probability.
Predicted(model, probability, missing) ==
    IF model /\ probability # Fails THEN Output(probability, missing) ELSE Unavailable

\* in.nan of the eight UPI session features are NaN: two are too many.
ScorerA(in) == Predicted(in.model, in.probability, in.nan > 1)

\* The embedding: the PC-GNN one, else the Node2Vec one, of the right length.
Embedding(in) == IF in.gnn # Missing THEN in.gnn ELSE in.node2vec

ScorerB(in) ==
    IF Embedding(in) = "32" THEN Predicted(in.model, in.probability, FALSE) ELSE Unavailable

\* The vault's own answer is modelled in PrototypeVault.
ScorerC(in) ==
    IF in.loaded /\ in.vault # Fails THEN Output(in.vault.score, in.vault.missing)
    ELSE Unavailable

MinHistory == 5

\* History is Missing if its query failed.
ScorerD(in) ==
    IF in.limited /\ in.history # Missing /\ in.history >= MinHistory
    THEN Predicted(in.model, in.probability, FALSE) ELSE Unavailable

\* The best similarity to a cluster of phrases, never below 0, is moved from
\* -1..1 to 0..1.
ScorerF(in) ==
    IF in.remark # Missing /\ in.model /\ in.similarity # Fails
    THEN Output((Max({0, in.similarity}) + One) \div 2, FALSE) ELSE Unavailable

-----------------------------------------------------------------------------
Available(outputs) == {s \in ScorerIds : ~outputs[s].missing}

\* Variant of Override: the specialist's own score stands.
OverrideByScore(outputs) ==
    LET sure == {s \in Available(outputs) : outputs[s].score >= OverrideThreshold[s]}
    IN  IF sure = {} THEN Missing ELSE Max({outputs[s].score : s \in sure})

\* _apply_track_b_override: one specialist that is sure enough decides.
Override(outputs) ==
    IF \E s \in Available(outputs) : outputs[s].score >= OverrideThreshold[s]
    THEN One ELSE Missing

\* The mean of the available scores; without any, neutral.
FallbackAggregate(outputs) ==
    LET available == Available(outputs)
        weighted == [s \in available |-> FallbackWeight[s] * outputs[s].score]
    IN  IF available = {} THEN One \div 2
        ELSE SumFunctionOnSet(weighted, available)
             \div SumFunctionOnSet(FallbackWeight, available)

\* is_loaded and predict: Missing without a model, the mean if the model fails.
MetaScore(outputs, in) ==
    IF ~in.model THEN Missing
    ELSE IF in.probability = Fails THEN FallbackAggregate(outputs)
    ELSE Clamp(in.probability)

FinalScore(outputs, meta) ==
    IF Override(outputs) # Missing THEN Override(outputs)
    ELSE IF MetaScore(outputs, meta) # Missing THEN MetaScore(outputs, meta)
    ELSE FallbackAggregate(outputs)
=============================================================================
