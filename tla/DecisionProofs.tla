--------------------------- MODULE DecisionProofs ---------------------------
(***************************************************************************)
(* What is proved of the parts that compute: that a sure specialist is     *)
(* never answered with PASS and that score and action agree, for every     *)
(* payment, graph, model and context that DecisionAssumption admits; that  *)
(* a process loads its models once unless a rollback has reset them; and   *)
(* the types of all four parts.                                            *)
(***************************************************************************)
EXTENDS MCDecision, TLAPS

-----------------------------------------------------------------------------
(* Numbers.                                                                *)

\* What a score of 1.0 is.
LEMMA OneIs == One = 100000
BY DEF One

\* It is a number, whichever.
LEMMA OneIsInt == One \in Nat
BY DEF One

\* The least and the largest of two.
LEMMA MinOfTwo ==
    ASSUME NEW x \in Int, NEW y \in Int
    PROVE  Min({x, y}) = IF x <= y THEN x ELSE y
BY DEF Min

\* And the larger of two.
LEMMA MaxOfTwo ==
    ASSUME NEW x \in Int, NEW y \in Int
    PROVE  Max({x, y}) = IF x <= y THEN y ELSE x
BY DEF Max

\* What is clamped is a score, and keeps its value if it was one.
LEMMA ClampIsScore ==
    ASSUME NEW x \in Int
    PROVE  /\ Clamp(x) \in Scores
           /\ Clamp(x) = IF x < 0 THEN 0 ELSE IF x > One THEN One ELSE x
<1>1. Min({One, x}) = (IF One <= x THEN One ELSE x) /\ Min({One, x}) \in Int
  BY MinOfTwo, OneIs
<1>2. Max({0, Min({One, x})}) = IF 0 <= Min({One, x}) THEN Min({One, x}) ELSE 0
  BY <1>1, MaxOfTwo
<1>3. Clamp(x) = Max({0, Min({One, x})})
  BY DEF Clamp
<1> QED
  BY <1>1, <1>2, <1>3, OneIsInt DEF Scores

\* A percentage keeps the order of two scores.
LEMMA ScaleOrder ==
    ASSUME NEW x \in Nat, NEW y \in Nat, x <= y, NEW percent \in Nat
    PROVE  Scale(x, percent) \in Nat /\ Scale(x, percent) <= Scale(y, percent)
<1>1. x * percent \in Nat /\ y * percent \in Nat /\ x * percent <= y * percent
  OBVIOUS
<1> QED
  BY <1>1 DEF Scale

\* A stored score is its own rounding: it is a score, and at most five units
\* from what was rounded.
LEMMA ResultRounds ==
    ASSUME NEW x \in Scores, NEW action, NEW gate
    PROVE  /\ Result(x, action, gate).score \in Scores
           /\ Result(x, action, gate).action = action
           /\ x \in (Result(x, action, gate).score - 5)..(Result(x, action, gate).score + 4)
<1> DEFINE q == (x + 5) \div 10
<1>1. x \in Nat /\ x <= One
  BY OneIs DEF Scores
<1>2. q \in Nat /\ 10 * q <= x + 5 /\ x + 5 < 10 * q + 10
  BY <1>1
<1>3. Result(x, action, gate).score = q * 10 /\ Result(x, action, gate).action = action
  BY DEF Result
<1> HIDE DEF q
<1>4. q * 10 <= One
  BY <1>1, <1>2, OneIs
<1>5. q * 10 \in Scores
  BY <1>2, <1>4, OneIsInt DEF Scores
<1>6. x \in (q * 10 - 5)..(q * 10 + 4)
  BY <1>1, <1>2
<1> QED
  BY <1>3, <1>5, <1>6
-----------------------------------------------------------------------------
(* The committee.                                                          *)

AnyOf(s) == CHOOSE x \in s : TRUE

SumFold == INSTANCE FoldLemmas WITH op <- +, pick <- AnyOf

\* Scores for every scorer in the domain.
AllScored(outs) == \A s \in DOMAIN outs : outs[s].score \in Scores

\* What a scorer answers is a score.
LEMMA OutputIsScore ==
    ASSUME NEW x \in Int, NEW missing
    PROVE  Output(x, missing).score \in Scores
<1>1. Clamp(x) \in Scores
  BY ClampIsScore
<1> QED
  BY <1>1 DEF Output

\* So is the half a scorer that is not there counts as.
LEMMA UnavailableIsScore == Unavailable.score \in Scores
<1>1. One \div 2 \in Int
  BY OneIs
<1> QED
  BY <1>1, OutputIsScore DEF Unavailable

\* So is what a model predicts, or what stands for it where it fails.
LEMMA PredictedIsScore ==
    ASSUME NEW model, NEW probability \in Int \cup {Fails}, NEW missing
    PROVE  Predicted(model, probability, missing).score \in Scores
<1>1. CASE model /\ probability # Fails
  BY <1>1, OutputIsScore DEF Predicted
<1>2. CASE ~(model /\ probability # Fails)
  BY <1>2, UnavailableIsScore DEF Predicted
<1> QED
  BY <1>1, <1>2

\* There are five scorers.
LEMMA ScorersFinite == \A A \in SUBSET ScorerIds : SumFold!IsFiniteSet(A)
<1>1. \A S, x : SumFold!IsFiniteSet(S) => SumFold!IsFiniteSet(S \cup {x})
  BY SumFold!FS_AddElement
<1> DEFINE one == {"A"}
           two == one \cup {"B"}
           three == two \cup {"C"}
           four == three \cup {"D"}
           five == four \cup {"F"}
<1>2. ScorerIds = five
  BY DEF ScorerIds
<1>3. SumFold!IsFiniteSet(one)
  BY SumFold!FS_Singleton
<1> HIDE DEF one
<1>4. SumFold!IsFiniteSet(two)
  BY <1>1, <1>3
<1> HIDE DEF two
<1>5. SumFold!IsFiniteSet(three)
  BY <1>1, <1>4
<1> HIDE DEF three
<1>6. SumFold!IsFiniteSet(four)
  BY <1>1, <1>5
<1> HIDE DEF four
<1>7. SumFold!IsFiniteSet(five)
  BY <1>1, <1>6
<1> HIDE DEF five
<1>8. SumFold!IsFiniteSet(ScorerIds)
  BY <1>2, <1>7, Zenon
<1> QED
  BY <1>8, SumFold!FS_Subset

\* The sums of the weighted mean: numbers, the weighted sum at most 1.0 times
\* the weights.
LEMMA WeightedSums ==
    ASSUME NEW outs, NEW A, A \subseteq ScorerIds, \A s \in A : outs[s].score \in Scores
    PROVE  LET weighted == [s \in A |-> FallbackWeight[s] * outs[s].score]
               above == SumFunctionOnSet(weighted, A)
               below == SumFunctionOnSet(FallbackWeight, A)
           IN  /\ above \in Nat /\ below \in Nat /\ above <= One * below
               /\ A # {} => below >= 1
<1> DEFINE weighted == [s \in A |-> FallbackWeight[s] * outs[s].score]
           R == {r \in Nat \X Nat : r[1] <= One * r[2]}
<1>1. \A s \in A : FallbackWeight[s] \in 1..4
  BY DEF FallbackWeight, ScorerIds
<1>2. /\ SumFunctionOnSet(weighted, A) = SumFold!Fold(0, weighted, A)
      /\ SumFunctionOnSet(FallbackWeight, A) = SumFold!Fold(0, FallbackWeight, A)
  BY Zenon DEF SumFunctionOnSet, FoldFunctionOnSet, SumFold!Fold, MapThenFoldSet,
               SumFold!MapThenFoldSet, AnyOf
<1>3. SumFold!IsFiniteSet(A)
  BY ScorersFinite
<1>4. SumFold!Picks(A)
  BY Zenon DEF SumFold!Picks, AnyOf
<1>5. <<0, 0>> \in R
  BY OneIsInt
<1>6. ASSUME NEW s \in A, NEW y, NEW z, <<y, z>> \in R
      PROVE  <<weighted[s] + y, FallbackWeight[s] + z>> \in R
  <2> DEFINE w == FallbackWeight[s]
             x == outs[s].score
  <2>1. w \in 1..4 /\ x \in Nat /\ x <= One /\ y \in Nat /\ z \in Nat /\ y <= One * z
    BY <1>1, <1>6, OneIsInt DEF Scores
  <2>2. weighted[s] = w * x
    OBVIOUS
  <2> HIDE DEF w, x, weighted
  <2>3. w * x \in Nat /\ w * x <= One * w
    BY <2>1, OneIs
  <2>4. w * x + y \in Nat /\ w + z \in Nat /\ w * x + y <= One * (w + z)
    BY <2>1, <2>3, OneIs
  <2> QED
    BY <2>2, <2>4 DEF w
<1> HIDE DEF AnyOf, R
<1>7. <<SumFold!Fold(0, weighted, A), SumFold!Fold(0, FallbackWeight, A)>> \in R
  <2> HIDE DEF weighted
  <2> QED
    BY <1>3, <1>4, <1>5, <1>6, SumFold!FoldRelates
<1>8. A # {} => SumFold!Fold(0, FallbackWeight, A) >= 1
  <2> SUFFICES ASSUME A # {} PROVE SumFold!Fold(0, FallbackWeight, A) >= 1
    OBVIOUS
  <2> DEFINE s == AnyOf(A)
             T == A \ {s}
  <2>1. s \in A
    BY DEF AnyOf
  <2>2. SumFold!Fold(0, FallbackWeight, A)
          = FallbackWeight[s] + SumFold!Fold(0, FallbackWeight, T)
    BY <1>3, <1>4, SumFold!FoldStep
  <2>3. SumFold!Fold(0, FallbackWeight, T) \in Nat
    <3>1. SumFold!IsFiniteSet(T)
      BY ScorersFinite
    <3>2. SumFold!Picks(T)
      BY <1>4 DEF SumFold!Picks
    <3>3. \A i \in T, y \in Nat : FallbackWeight[i] + y \in Nat
      BY <1>1
    <3> HIDE DEF T
    <3> QED
      BY <3>1, <3>2, <3>3, SumFold!FoldStays
  <2>4. FallbackWeight[s] \in 1..4
    BY <1>1, <2>1
  <2> QED
    BY <2>2, <2>3, <2>4
<1> QED
  BY <1>2, <1>7, <1>8 DEF R

\* The weighted mean of scores is a score, whichever scorers are missing.
LEMMA MeanIsScore ==
    ASSUME NEW outs, DOMAIN outs = ScorerIds, AllScored(outs)
    PROVE  FallbackAggregate(outs) \in Scores
<1> DEFINE A == Available(outs)
           above == SumFunctionOnSet([s \in A |-> FallbackWeight[s] * outs[s].score], A)
           below == SumFunctionOnSet(FallbackWeight, A)
<1>1. A \subseteq ScorerIds /\ \A s \in A : outs[s].score \in Scores
  BY DEF Available, AllScored
<1>2. CASE A = {}
  <2>1. FallbackAggregate(outs) = One \div 2
    BY <1>2 DEF FallbackAggregate
  <2> QED
    BY <2>1, OneIs, OneIsInt DEF Scores
<1>3. CASE A # {}
  <2>1. above \in Nat /\ below \in Nat /\ above <= One * below /\ below >= 1
    <3> HIDE DEF A
    <3> QED
      BY <1>1, <1>3, WeightedSums
  <2>2. FallbackAggregate(outs) = above \div below
    BY <1>3 DEF FallbackAggregate
  <2> HIDE DEF above, below, A
  <2>3. above \div below \in Nat /\ above \div below <= One
    BY <2>1, OneIs
  <2> QED
    BY <2>2, <2>3, OneIsInt DEF Scores
<1> QED
  BY <1>2, <1>3

\* The final score is one, and 1.0 if a specialist decided.
LEMMA FinalIsScore ==
    ASSUME NEW outs, DOMAIN outs = ScorerIds, AllScored(outs), NEW in \in MetaInputs
    PROVE  /\ FinalScore(outs, in) \in Scores
           /\ Override(outs) # Missing => FinalScore(outs, in) = One
<1>1. CASE Override(outs) # Missing
  <2>1. FinalScore(outs, in) = One
    BY <1>1 DEF FinalScore, Override
  <2> QED
    BY <2>1, OneIsInt DEF Scores
<1>2. CASE Override(outs) = Missing
  <2>1. \/ FinalScore(outs, in) = FallbackAggregate(outs)
        \/ FinalScore(outs, in) = Clamp(in.probability) /\ in.probability # Fails
    <3>1. FinalScore(outs, in) = IF MetaScore(outs, in) # Missing THEN MetaScore(outs, in)
                                 ELSE FallbackAggregate(outs)
      BY <1>2 DEF FinalScore
    <3> QED
      BY <3>1 DEF MetaScore
  <2>2. in.probability \in Int \cup {Fails}
    BY DecisionAssumption
  <2> QED
    BY <1>2, <2>1, <2>2, MeanIsScore, ClampIsScore
<1> QED
  BY <1>1, <1>2
-----------------------------------------------------------------------------
(* The context and the thresholds.                                         *)

\* The factors are percentages, and what they leave of 1.0 is at least 0.42:
\* the discount for gig workers and the one for batches exclude each other.
LEMMA Factors ==
    ASSUME NEW p, NEW x
    PROVE  /\ Festival(p, x) \in {70, 90, 100} /\ JanDhan(x) \in {75, 100}
           /\ <<Gig(p, x), Batch(p)>> \in {<<100, 100>>, <<85, 100>>, <<100, 80>>}
           /\ Senior(p, x) \in {100, 130, 150, 195}
<1>1. Festival(p, x) \in {70, 90, 100} /\ JanDhan(x) \in {75, 100}
  BY DEF Festival, JanDhan
<1>2. <<Gig(p, x), Batch(p)>> \in {<<100, 100>>, <<85, 100>>, <<100, 80>>}
  <2>1. Gig(p, x) \in {85, 100} /\ Batch(p) \in {80, 100}
    BY DEF Gig, Batch
  <2>2. Gig(p, x) = 85 => p.occupation \in {"gig_worker", "freelancer", "delivery"}
    BY DEF Gig
  <2>3. Batch(p) = 80 => p.occupation \in {"merchant", "retailer", "shopkeeper"}
    BY DEF Batch
  <2>4. ~(Gig(p, x) = 85 /\ Batch(p) = 80)
    BY <2>2, <2>3
  <2> QED
    BY <2>1, <2>4
<1>3. Senior(p, x) \in {100, 130, 150, 195}
  BY DEF Senior, Scale
<1> QED
  BY <1>1, <1>2, <1>3

\* What the factors leave of a score, in the code's order.
Factored(score, p, x) ==
    Scale(Scale(Scale(Scale(Scale(score, Festival(p, x)), Gig(p, x)), JanDhan(x)), Batch(p)),
          Senior(p, x))

\* A factored score is still a number.
LEMMA FactoredIsNat ==
    ASSUME NEW score \in Nat, NEW p, NEW x
    PROVE  Factored(score, p, x) \in Nat
<1>1. /\ Festival(p, x) \in Nat /\ Gig(p, x) \in Nat /\ JanDhan(x) \in Nat
      /\ Batch(p) \in Nat /\ Senior(p, x) \in Nat
  BY Factors
<1>2. \A s \in Nat, percent \in Nat : Scale(s, percent) \in Nat
  BY ScaleOrder
<1> QED
  BY <1>1, <1>2 DEF Factored

\* The factors together leave a score of 1.0 at 0.42 or more.
LEMMA FactoredOfOne ==
    ASSUME NEW p, NEW x
    PROVE  Factored(One, p, x) >= 42000
<1> DEFINE a == Scale(One, Festival(p, x))
           b == Scale(a, Gig(p, x))
           d == Scale(b, JanDhan(x))
           e == Scale(d, Batch(p))
<1>1. a \in Nat /\ a >= 70000
  BY Factors, OneIs DEF Scale
<1> HIDE DEF a
<1>2. CASE Gig(p, x) = 100
  <2>1. b \in Nat /\ b >= 70000
    BY <1>1, <1>2 DEF Scale
  <2> HIDE DEF b
  <2>2. d \in Nat /\ d >= 52500
    BY <2>1, Factors DEF Scale
  <2> HIDE DEF d
  <2>3. Batch(p) \in {80, 100}
    BY Factors
  <2>4. e \in Nat /\ e >= 42000
    BY <2>2, <2>3 DEF Scale
  <2> HIDE DEF e
  <2>5. Scale(e, Senior(p, x)) >= 42000
    BY <2>4, Factors DEF Scale
  <2> QED
    BY <2>5 DEF Factored, a, b, d, e
<1>3. CASE Gig(p, x) # 100
  <2>1. Gig(p, x) = 85 /\ Batch(p) = 100
    BY <1>3, Factors
  <2>2. b \in Nat /\ b >= 59500
    BY <1>1, <2>1 DEF Scale
  <2> HIDE DEF b
  <2>3. d \in Nat /\ d >= 44625
    BY <2>2, Factors DEF Scale
  <2> HIDE DEF d
  <2>4. e \in Nat /\ e >= 44625
    BY <2>1, <2>3 DEF Scale
  <2> HIDE DEF e
  <2>5. Scale(e, Senior(p, x)) >= 42000
    BY <2>4, Factors DEF Scale
  <2> QED
    BY <2>5 DEF Factored, a, b, d, e
<1> QED
  BY <1>2, <1>3

\* A stale score is drawn towards one half: from a score above 0.42 never below
\* it.
LEMMA StaleIsNat ==
    ASSUME NEW score \in Nat, NEW hours \in Int \cup {Missing}
    PROVE  /\ Stale(score, hours) \in Nat
           /\ score >= 42000 => Stale(score, hours) >= 42000
<1>1. CASE hours = Missing \/ hours <= 26
  BY <1>1 DEF Stale
<1>2. CASE ~(hours = Missing \/ hours <= 26)
  <2>1. hours \in Int /\ hours > 26
    BY <1>2
  <2> DEFINE excess == Min({hours - 26, 72})
             half == One \div 2
             drawn == score * (240 - excess) + half * excess
  <2>2. excess \in 1..72
    BY <2>1, MinOfTwo
  <2>3. Stale(score, hours) = drawn \div 240
    BY <1>2 DEF Stale
  <2>4. half = 50000
    BY OneIs
  <2> HIDE DEF excess, half
  <2>5. drawn \in Nat
    BY <2>2, <2>4
  <2>6. score >= 42000 => drawn >= 42000 * 240
    <3> SUFFICES ASSUME score >= 42000 PROVE drawn >= 42000 * 240
      OBVIOUS
    <3>1. PICK more \in Nat : score = 42000 + more
      <4>1. score - 42000 \in Nat /\ score = 42000 + (score - 42000)
        OBVIOUS
      <4> QED
        BY <4>1
    <3>2. PICK left \in Nat : left = 240 - excess
      BY <2>2
    <3>3. score * left = 42000 * left + more * left /\ more * left \in Nat
      BY <3>1
    <3>4. 42000 * left + 50000 * excess >= 42000 * 240
      BY <2>2, <3>2
    <3> QED
      BY <2>2, <2>4, <3>2, <3>3, <3>4
  <2> HIDE DEF drawn
  <2> QED
    BY <2>3, <2>5, <2>6
<1> QED
  BY <1>1, <1>2

\* The adjusted score is a score, and 1.0 is not brought below 0.42.
LEMMA AdjustedIsScore ==
    ASSUME NEW score \in Scores, NEW p, NEW x, NEW hours \in Int \cup {Missing}
    PROVE  /\ Adjusted(score, p, x, hours) \in Scores
           /\ score = One => Adjusted(score, p, x, hours) >= 42000
<1>1. score \in Nat
  BY OneIsInt DEF Scores
<1> DEFINE f == Factored(score, p, x)
           s == Stale(f, hours)
<1>2. f \in Nat /\ (score = One => f >= 42000)
  BY <1>1, FactoredIsNat, FactoredOfOne
<1>3. Adjusted(score, p, x, hours) = Min({One, s})
  BY DEF Adjusted, Factored
<1> HIDE DEF f
<1>4. s \in Nat /\ (score = One => s >= 42000)
  BY <1>2, StaleIsNat
<1> HIDE DEF s
<1>5. Min({One, s}) = IF One <= s THEN One ELSE s
  BY <1>4, OneIsInt, MinOfTwo
<1>6. Min({One, s}) \in Scores
  BY <1>4, <1>5, OneIsInt DEF Scores
<1>7. score = One => Min({One, s}) >= 42000
  BY <1>4, <1>5, OneIs
<1> QED
  BY <1>3, <1>6, <1>7
-----------------------------------------------------------------------------
(* The steps of the pipeline.                                              *)

GateNames == {"rapid_relay", "cycle", "sink", "bipartite", "cash_mule_sink",
              "merchant_terminal"}

\* Until then nobody has given a score.
Undecided == GateNames \cup {"start", "uncertain", "features", "score", "committee"}

\* What the committee and the thresholds have made of the score.  A specialist's
\* 1.0 is intact before the context and at least 0.42 after it, and the answer
\* is that of one jittered score.
Course ==
    /\ stage \in Undecided => by = Missing
    /\ stage \in {"context", "threshold"} => raw \in Scores
    /\ stage = "context" /\ by = "specialist" => raw = One
    /\ stage = "threshold" /\ by = "specialist" => raw >= 42000
    /\ stage = "answered" /\ by # Missing =>
          \E x \in Scores : /\ answer = Result(x, ActionFor(x), Missing)
                            /\ by = "specialist" => x >= 41000

DecisionInv == DecisionTypeOK /\ Course

\* The gates are six, in the order of the code.
LEMMA GateNamesAre == ToSet(Gates) = GateNames /\ Len(Gates) = 6
BY DEF ToSet, Gates, GateNames

\* After a gate comes another, or what Tier 1 makes of the payment.
LEMMA AfterGateIs ==
    ASSUME NEW gate \in GateNames
    PROVE  AfterGate(gate) \in GateNames \cup {"uncertain", "features"}
<1> DEFINE i == CHOOSE j \in DOMAIN Gates : Gates[j] = gate
<1>1. DOMAIN Gates = 1..6 /\ Len(Gates) = 6 /\ \A j \in 1..6 : Gates[j] \in GateNames
  BY DEF Gates, GateNames
<1>2. \E j \in DOMAIN Gates : Gates[j] = gate
  BY <1>1 DEF Gates, GateNames
<1>3. i \in 1..6
  BY <1>1, <1>2
<1>4. AfterGate(gate) = IF i < Len(Gates) THEN Gates[i + 1]
                        ELSE IF tier1 = "UNCERTAIN" THEN "uncertain" ELSE "features"
  BY DEF AfterGate
<1> HIDE DEF i
<1>5. i < Len(Gates) => Gates[i + 1] \in GateNames
  BY <1>1, <1>3
<1> QED
  BY <1>4, <1>5

\* It holds at the start.
LEMMA DecisionInvInit == DecisionInit => DecisionInv
<1> SUFFICES ASSUME DecisionInit PROVE DecisionInv
  OBVIOUS
<1>1. DOMAIN outputs = {}
  BY DEF DecisionInit
<1>2. \A s \in DOMAIN outputs : outputs[s].score \in Scores
  BY <1>1
<1>3. /\ stage = "start" /\ payment = Missing /\ tier1 = Missing /\ aborted = FALSE
      /\ raw = Missing /\ by = Missing /\ answer = Missing
  BY DEF DecisionInit
<1>4. DecisionTypeOK
  BY <1>2, <1>3 DEF DecisionTypeOK
<1>5. Course
  BY <1>3 DEF Course
<1> QED
  BY <1>4, <1>5 DEF DecisionInv

\* An answer before the committee: any score, and nobody gave it.
LEMMA EarlyAnswer ==
    ASSUME DecisionInv, stage \in Undecided,
           NEW score \in Scores, NEW action, NEW gate, Answer(score, action, gate)
    PROVE  DecisionInv'
<1>1. Result(score, action, gate).score \in Scores
  BY ResultRounds
<1>2. by' = Missing /\ stage' = "answered" /\ answer' = Result(score, action, gate)
  BY DEF DecisionInv, Course, Answer
<1>3. DOMAIN outputs' = {}
  BY DEF Answer
<1>4. DecisionTypeOK'
  BY <1>1, <1>2, <1>3 DEF DecisionInv, DecisionTypeOK, Answer
<1>5. Course'
  BY <1>2 DEF Course, Undecided, GateNames
<1> QED
  BY <1>4, <1>5 DEF DecisionInv

\* The request fails.
LEMMA FailKeeps == ASSUME DecisionInv, Fail PROVE DecisionInv'
<1>1. DOMAIN outputs' = {}
  BY DEF Fail
<1> QED
  BY <1>1 DEF DecisionInv, DecisionTypeOK, Course, Undecided, GateNames, Fail

\* The next check before the score.
LEMMA MovesOn ==
    ASSUME DecisionInv, stage \in Undecided, NEW next, GoTo(next),
           next \in Undecided, aborted' \in BOOLEAN
    PROVE  DecisionInv'
<1>1. DecisionTypeOK'
  BY GateNamesAre DEF DecisionInv, DecisionTypeOK, GoTo, Undecided
<1>2. Course'
  BY DEF DecisionInv, Course, GoTo, Undecided, GateNames
<1> QED
  BY <1>1, <1>2 DEF DecisionInv

\* Tier 1 and the gates.
LEMMA ChecksKeep ==
    ASSUME DecisionInv, Canary \/ Tier1 \/ GateFires \/ GateSilent \/ GateRaises \/ Uncertain
    PROVE  DecisionInv'
<1>0. aborted \in BOOLEAN
  BY DEF DecisionInv, DecisionTypeOK
<1>1. One \in Scores /\ One \div 2 \in Scores /\ 5000 \in Scores /\ 10000 \in Scores
  BY OneIs, OneIsInt DEF Scores
<1>2. CASE Canary
  BY <1>1, <1>2, EarlyAnswer DEF Canary, Undecided
<1>3. CASE Tier1
  <2>0. stage = "start" /\ stage \in Undecided
    BY <1>3 DEF Tier1, Undecided
  <2>1. PICK p \in Payments, f \in Profiles :
           \/ Fail
           \/ Answer(5000, "PASS", Missing)
           \/ /\ Classify(p, f) # "FAST_CLEAN"
              /\ stage' = "rapid_relay" /\ payment' = p /\ tier1' = Classify(p, f)
              /\ UNCHANGED <<aborted, outputs, raw, by, answer>>
    BY <1>3 DEF Tier1
  <2>2. CASE Fail
    BY <2>2, FailKeeps
  <2>3. CASE Answer(5000, "PASS", Missing)
    BY <1>1, <2>0, <2>3, EarlyAnswer
  <2>4. CASE /\ Classify(p, f) # "FAST_CLEAN"
             /\ stage' = "rapid_relay" /\ payment' = p /\ tier1' = Classify(p, f)
             /\ UNCHANGED <<aborted, outputs, raw, by, answer>>
    <3>1. Classify(p, f) \in {"SUSPICIOUS", "UNCERTAIN"}
      BY <2>4 DEF Classify
    <3>2. DecisionTypeOK'
      BY <2>4, <3>1, GateNamesAre DEF DecisionInv, DecisionTypeOK, GateNames
    <3>3. Course'
      BY <2>0, <2>4 DEF DecisionInv, Course, Undecided, GateNames
    <3> QED
      BY <3>2, <3>3 DEF DecisionInv
  <2> QED
    BY <2>1, <2>2, <2>3, <2>4
<1>4. CASE GateFires
  <2>1. stage \in Undecided
    BY <1>4, GateNamesAre DEF GateFires, Undecided
  <2>2. PICK gate : Answer(One, "REVIEW", gate)
    BY <1>4 DEF GateFires
  <2> QED
    BY <1>1, <2>1, <2>2, EarlyAnswer
<1>5. CASE GateSilent \/ GateRaises
  <2>1. stage \in GateNames
    <3>1. ToSet(Tail(Gates)) \subseteq GateNames
      BY DEF ToSet, Gates, GateNames
    <3> QED
      BY <1>5, <3>1, GateNamesAre DEF GateSilent, GateRaises
  <2>2. AfterGate(stage) \in GateNames \cup {"uncertain", "features"}
    BY <2>1, AfterGateIs
  <2>3. GoTo(AfterGate(stage)) /\ aborted' \in BOOLEAN
    BY <1>0, <1>5 DEF GateSilent, GateRaises
  <2>4. stage \in Undecided /\ AfterGate(stage) \in Undecided
    BY <2>1, <2>2 DEF Undecided
  <2> QED
    BY <2>3, <2>4, MovesOn
<1>6. CASE Uncertain
  BY <1>1, <1>6, EarlyAnswer DEF Uncertain, Undecided
<1> QED
  BY <1>2, <1>3, <1>4, <1>5, <1>6

\* One more scorer has answered with a score.
LEMMA ScorerKeeps ==
    ASSUME DecisionInv, stage \in {"score", "committee"}, stage' = "committee",
           UNCHANGED <<payment, tier1, aborted, raw, by, answer>>,
           NEW s, NEW Before, DOMAIN outputs = Before, NEW out, out.score \in Scores,
           outputs' = [x \in Before \cup {s} |-> IF x = s THEN out ELSE outputs[x]]
    PROVE  DecisionInv'
<1>1. ASSUME NEW x \in DOMAIN outputs' PROVE outputs'[x].score \in Scores
  <2>1. x = s \/ x \in DOMAIN outputs
    OBVIOUS
  <2>2. outputs'[x] = IF x = s THEN out ELSE outputs[x]
    OBVIOUS
  <2> QED
    BY <2>1, <2>2 DEF DecisionInv, DecisionTypeOK
<1>2. DecisionTypeOK'
  BY <1>1 DEF DecisionInv, DecisionTypeOK
<1>3. Course'
  BY DEF DecisionInv, Course, Undecided, GateNames
<1> QED
  BY <1>2, <1>3 DEF DecisionInv

\* The five scorers.
LEMMA ScorersKeep ==
    ASSUME DecisionInv, ScoreA \/ ScoreB \/ ScoreC \/ ScoreD \/ ScoreF
    PROVE  DecisionInv'
<1>1. ASSUME NEW in \in ScorerInputs["A"] PROVE ScorerA(in).score \in Scores
  <2>1. in.probability \in Int \cup {Fails}
    BY DecisionAssumption
  <2> QED
    BY <2>1, PredictedIsScore DEF ScorerA
<1>2. ASSUME NEW in \in ScorerInputs["B"] PROVE ScorerB(in).score \in Scores
  <2>1. in.probability \in Int \cup {Fails}
    BY DecisionAssumption
  <2>2. Predicted(in.model, in.probability, FALSE).score \in Scores
    BY <2>1, PredictedIsScore
  <2> QED
    BY <2>2, UnavailableIsScore DEF ScorerB
<1>3. ASSUME NEW in \in ScorerInputs["C"] PROVE ScorerC(in).score \in Scores
  <2>1. CASE in.loaded /\ in.vault # Fails
    <3>1. in.vault.score \in Int
      BY <2>1, DecisionAssumption
    <3> QED
      BY <2>1, <3>1, OutputIsScore DEF ScorerC
  <2>2. CASE ~(in.loaded /\ in.vault # Fails)
    BY <2>2, UnavailableIsScore DEF ScorerC
  <2> QED
    BY <2>1, <2>2
<1>4. ASSUME NEW in, in \in [limited : BOOLEAN, history : Nat \cup {Missing},
                             model : BOOLEAN, probability : Int \cup {Fails}]
      PROVE  ScorerD(in).score \in Scores
  <2>1. in.probability \in Int \cup {Fails}
    BY <1>4
  <2>2. Predicted(in.model, in.probability, FALSE).score \in Scores
    BY <2>1, PredictedIsScore
  <2> QED
    BY <2>2, UnavailableIsScore DEF ScorerD
<1>5. ASSUME NEW in \in ScorerInputs["F"] PROVE ScorerF(in).score \in Scores
  <2>1. CASE in.remark # Missing /\ in.model /\ in.similarity # Fails
    <3>1. in.similarity \in Int
      BY <2>1, DecisionAssumption
    <3>2. Max({0, in.similarity}) \in Int
      BY <3>1, MaxOfTwo
    <3>3. (Max({0, in.similarity}) + One) \div 2 \in Int
      BY <3>2, OneIsInt
    <3> QED
      BY <2>1, <3>3, OutputIsScore DEF ScorerF
  <2>2. CASE ~(in.remark # Missing /\ in.model /\ in.similarity # Fails)
    BY <2>2, UnavailableIsScore DEF ScorerF
  <2> QED
    BY <2>1, <2>2
<1>6. CASE ScoreA
  <2>1. PICK in \in ScorerInputs["A"] :
           outputs' = [x \in {} \cup {"A"} |-> IF x = "A" THEN ScorerA(in) ELSE outputs[x]]
    BY <1>6, Zenon DEF ScoreA, Scorer
  <2>2. ScorerA(in).score \in Scores
    BY <1>1
  <2> QED
    BY <1>6, <2>1, <2>2, ScorerKeeps DEF ScoreA, Scorer
<1>7. CASE ScoreB
  <2>1. PICK in \in ScorerInputs["B"] :
           outputs' = [x \in {"A"} \cup {"B"} |->
                          IF x = "B" THEN ScorerB(in) ELSE outputs[x]]
    BY <1>7, Zenon DEF ScoreB, Scorer
  <2>2. ScorerB(in).score \in Scores
    BY <1>2
  <2> QED
    BY <1>7, <2>1, <2>2, ScorerKeeps DEF ScoreB, Scorer
<1>8. CASE ScoreC
  <2>1. PICK in \in ScorerInputs["C"] :
           outputs' = [x \in {"A", "B"} \cup {"C"} |->
                          IF x = "C" THEN ScorerC(in) ELSE outputs[x]]
    BY <1>8, Zenon DEF ScoreC, Scorer
  <2>2. ScorerC(in).score \in Scores
    BY <1>3
  <2> QED
    BY <1>8, <2>1, <2>2, ScorerKeeps DEF ScoreC, Scorer
<1>9. CASE ScoreD
  <2>1. PICK in \in ScorerInputs["D"] :
           outputs' = [x \in {"A", "B", "C"} \cup {"D"} |->
                          IF x = "D"
                          THEN ScorerD([in EXCEPT !.history = IF aborted THEN Missing ELSE @])
                          ELSE outputs[x]]
    BY <1>9, Zenon DEF ScoreD, Scorer
  <2>2. PICK seen : seen = [in EXCEPT !.history = IF aborted THEN Missing ELSE in.history]
    OBVIOUS
  <2>3. seen \in [limited : BOOLEAN, history : Nat \cup {Missing},
                  model : BOOLEAN, probability : Int \cup {Fails}]
    BY <2>2, DecisionAssumption
  <2>4. ScorerD(seen).score \in Scores
    BY <1>4, <2>3
  <2>5. outputs' = [x \in {"A", "B", "C"} \cup {"D"} |->
                       IF x = "D" THEN ScorerD(seen) ELSE outputs[x]]
    BY <2>1, <2>2, Zenon
  <2> QED
    BY <1>9, <2>4, <2>5, ScorerKeeps DEF ScoreD, Scorer
<1>10. CASE ScoreF
  <2>1. PICK in \in ScorerInputs["F"] :
           outputs' = [x \in {"A", "B", "C", "D"} \cup {"F"} |->
                          IF x = "F" THEN ScorerF(in) ELSE outputs[x]]
    BY <1>10, Zenon DEF ScoreF, Scorer
  <2>2. ScorerF(in).score \in Scores
    BY <1>5
  <2> QED
    BY <1>10, <2>1, <2>2, ScorerKeeps DEF ScoreF, Scorer
<1> QED
  BY <1>6, <1>7, <1>8, <1>9, <1>10

\* The score is given.
LEMMA ScoreKeeps ==
    ASSUME DecisionInv, Features \/ ScoreSingle \/ Decide
    PROVE  DecisionInv'
<1>0. aborted \in BOOLEAN
  BY DEF DecisionInv, DecisionTypeOK
<1>1. CASE Features
  <2>1. CASE Fail
    BY <2>1, FailKeeps
  <2>2. CASE GoTo("score") /\ ReadHistory
    <3>1. stage \in Undecided /\ "score" \in Undecided
      BY <1>1 DEF Features, Undecided
    <3>2. aborted' \in BOOLEAN
      BY <1>0, <2>2 DEF ReadHistory
    <3> QED
      BY <2>2, <3>1, <3>2, MovesOn
  <2> QED
    BY <1>1, <2>1, <2>2 DEF Features
<1>2. CASE ScoreSingle
  <2>1. raw' \in Scores
    BY <1>2, DecisionAssumption DEF ScoreSingle, Scores
  <2>2. DecisionTypeOK'
    BY <1>2, <2>1 DEF DecisionInv, DecisionTypeOK, ScoreSingle
  <2>3. Course'
    BY <1>2, <2>1 DEF Course, Undecided, GateNames, ScoreSingle
  <2> QED
    BY <2>2, <2>3 DEF DecisionInv
<1>3. CASE Decide
  <2>1. CASE Fail
    BY <2>1, FailKeeps
  <2>2. CASE ~Fail
    <3>1. PICK in \in MetaInputs :
             /\ raw' = FinalScore(outputs, in)
             /\ by' = IF Override(outputs) # Missing THEN "specialist" ELSE "committee"
      BY <1>3, <2>2 DEF Decide
    <3>2. /\ DOMAIN outputs = ScorerIds /\ stage' = "context" /\ outputs' = <<>>
          /\ UNCHANGED <<payment, tier1, aborted, answer>>
      BY <1>3, <2>2 DEF Decide
    <3>3. AllScored(outputs)
      BY DEF DecisionInv, DecisionTypeOK, AllScored
    <3>4. raw' \in Scores /\ (by' = "specialist" => raw' = One)
      BY <3>1, <3>2, <3>3, FinalIsScore
    <3>5. DOMAIN outputs' = {}
      BY <3>2
    <3>6. DecisionTypeOK'
      BY <3>2, <3>4, <3>5 DEF DecisionInv, DecisionTypeOK
    <3>7. Course'
      BY <3>2, <3>4 DEF Course, Undecided, GateNames
    <3> QED
      BY <3>6, <3>7 DEF DecisionInv
  <2> QED
    BY <2>1, <2>2
<1> QED
  BY <1>1, <1>2, <1>3

\* The context takes no more off than the factors allow.
LEMMA ContextKeeps == ASSUME DecisionInv, Context PROVE DecisionInv'
<1>1. PICK x \in Contexts, hours \in Ages : raw' = Adjusted(raw, payment, x, hours)
  BY DEF Context
<1>2. /\ stage = "context" /\ stage' = "threshold" /\ payment' = Missing
      /\ UNCHANGED <<tier1, aborted, outputs, by, answer>>
  BY DEF Context
<1>3. raw \in Scores /\ (by = "specialist" => raw = One)
  BY <1>2 DEF DecisionInv, Course
<1>4. hours \in Int \cup {Missing}
  BY DecisionAssumption
<1>5. raw' \in Scores /\ (by = "specialist" => raw' >= 42000)
  BY <1>1, <1>3, <1>4, AdjustedIsScore
<1>6. DecisionTypeOK'
  BY <1>2, <1>5 DEF DecisionInv, DecisionTypeOK
<1>7. Course'
  BY <1>2, <1>5 DEF Course, Undecided, GateNames
<1> QED
  BY <1>6, <1>7 DEF DecisionInv

\* One jittered score gives both the answer's score and its action.
LEMMA ThresholdKeeps == ASSUME DecisionInv, Threshold PROVE DecisionInv'
<1>1. PICK j \in Jitters : Answer(Clamp(raw + j), ActionFor(Clamp(raw + j)), Missing)
  BY DEF Threshold
<1>2. raw \in Nat /\ raw <= One /\ j \in Int /\ -1000 <= j /\ (by = "specialist" => raw >= 42000)
  BY DecisionAssumption, OneIsInt DEF DecisionInv, Course, Threshold, Scores
<1>3. PICK x : x = Clamp(raw + j)
  OBVIOUS
<1>4. /\ x \in Scores
      /\ x = IF raw + j < 0 THEN 0 ELSE IF raw + j > One THEN One ELSE raw + j
  BY <1>2, <1>3, ClampIsScore
<1>5. by = "specialist" => x >= 41000
  BY <1>2, <1>4, OneIs
<1>6. /\ stage' = "answered" /\ by' = by /\ answer' = Result(x, ActionFor(x), Missing)
      /\ payment' = Missing /\ tier1' = Missing /\ outputs' = <<>> /\ raw' = Missing
      /\ aborted' = aborted
  BY <1>1, <1>3 DEF Answer
<1>7. DecisionTypeOK'
  <2>1. Result(x, ActionFor(x), Missing).score \in Scores
    BY <1>4, ResultRounds
  <2>2. DOMAIN outputs' = {}
    BY <1>6
  <2> QED
    BY <1>6, <2>1, <2>2 DEF DecisionInv, DecisionTypeOK
<1>8. Course'
  BY <1>4, <1>5, <1>6 DEF Course, Undecided, GateNames
<1> QED
  BY <1>7, <1>8 DEF DecisionInv

\* Every step preserves it.
LEMMA DecisionInvNext == DecisionInv /\ [DecisionNext]_decisionVars => DecisionInv'
<1> SUFFICES ASSUME DecisionInv, [DecisionNext]_decisionVars PROVE DecisionInv'
  OBVIOUS
<1>1. CASE UNCHANGED decisionVars
  BY <1>1 DEF decisionVars, DecisionInv, DecisionTypeOK, Course
<1>2. CASE DecisionNext
  BY <1>2, ChecksKeep, ScorersKeep, ScoreKeeps, ContextKeeps, ThresholdKeeps DEF DecisionNext
<1> QED
  BY <1>1, <1>2
-----------------------------------------------------------------------------
(* The parts together.                                                     *)

\* A step of the run is a step, or none, of the pipeline.
LEMMA NextIsDecisions == [Next]_vars => [DecisionNext]_decisionVars
BY DEF Next, vars

\* The invariant holds throughout.
LEMMA DecisionInvAlways == Spec => []DecisionInv
<1>1. Init => DecisionInv
  BY DecisionInvInit DEF Init
<1>2. DecisionInv /\ [Next]_vars => DecisionInv'
  BY DecisionInvNext, NextIsDecisions
<1> QED
  BY <1>1, <1>2, PTL DEF Spec

-----------------------------------------------------------------------------
(* The model cache: the types, and the invariant behind LoadedOnce.        *)

\* At the start the globals are empty and no thread is on its way.
LEMMA ModelTypeOKInit == ModelInit => ModelTypeOK
BY DEF ModelInit, ModelTypeOK, Places

\* A step of loading leaves a model or nothing in each global.
LEMMA LoadTypes ==
    ASSUME ModelTypeOK, NEW t \in Threads, LoadStep(t)
    PROVE  ModelTypeOK'
<1> USE DEF ModelTypeOK, Move, globals, counters
<1>1. CASE Check(t)
  BY <1>1 DEF Check, Places
<1>2. CASE Acquire(t)
  BY <1>2 DEF Acquire, Places
<1>3. CASE Release(t)
  BY <1>3 DEF Release, Places
<1>4. CASE Absent(t)
  BY <1>4 DEF Absent, Places
<1>5. CASE LoadCalibrated(t)
  BY <1>5 DEF LoadCalibrated, Places
<1>6. CASE TakeEstimator(t)
  BY <1>6 DEF TakeEstimator, Places
<1>7. CASE NewBase(t)
  BY <1>7 DEF NewBase, Places
<1>8. CASE ReadBase(t)
  BY <1>8 DEF ReadBase, Places
<1>9. CASE NewLegacy(t)
  BY <1>9 DEF NewLegacy, Places
<1>10. CASE ReadLegacy(t)
  BY <1>10 DEF ReadLegacy, Places
<1>11. CASE LegacyIsBase(t)
  BY <1>11 DEF LegacyIsBase, Places
<1> QED
  BY <1>1, <1>2, <1>3, <1>4, <1>5, <1>6, <1>7, <1>8, <1>9, <1>10, <1>11 DEF LoadStep

\* So does a step of a caller.
LEMMA UseTypes ==
    ASSUME ModelTypeOK, NEW t \in Threads, Call(t) \/ UseStep(t)
    PROVE  ModelTypeOK'
<1> USE DEF ModelTypeOK, Move, Respond, globals, counters
<1>1. CASE Call(t)
  BY <1>1 DEF Call, Places
<1>2. CASE GetBaseModel(t)
  BY <1>2 DEF GetBaseModel, Places
<1>3. CASE Choose(t)
  BY <1>3 DEF Choose, Places
<1>4. CASE UseCalibrated(t)
  BY <1>4 DEF UseCalibrated, Places
<1>5. CASE UseBase(t)
  BY <1>5 DEF UseBase, Places
<1>6. CASE Heuristic(t)
  BY <1>6 DEF Heuristic, Places
<1> QED
  BY <1>1, <1>2, <1>3, <1>4, <1>5, <1>6 DEF UseStep

\* And every step.
LEMMA ModelTypeOKNext == ModelTypeOK /\ [ModelNext]_modelVars => ModelTypeOK'
<1> SUFFICES ASSUME ModelTypeOK, [ModelNext]_modelVars PROVE ModelTypeOK'
  OBVIOUS
<1>1. CASE \E t \in Threads : Call(t) \/ LoadStep(t) \/ UseStep(t)
  BY <1>1, LoadTypes, UseTypes
<1>2. CASE Activate \/ ResetBase \/ ResetLegacy
  BY <1>2 DEF ModelTypeOK, Activate, ResetBase, ResetLegacy, counters
<1>3. CASE UNCHANGED modelVars
  BY <1>3 DEF modelVars, ModelTypeOK
<1> QED
  BY <1>1, <1>2, <1>3 DEF ModelNext

\* Where a thread is that holds the lock and has not loaded anything yet.
Loading == {"cal", "estimator", "base", "read base", "legacy", "read legacy",
            "legacy is base"}

Loader == \E t \in Threads : at[t] \in Loading

\* What the argument needs to know of the values.
CountTypes ==
    /\ at \in [Threads -> Places]
    /\ loaded \in Nat /\ resets \in Nat
    /\ admin \in {"idle", "base", "legacy"}

\* Between taking and releasing the lock a thread is alone.
Mutex == \A t \in Threads : at[t] \in Loading \cup {"release"} => lock = t

\* A rollback that has yet to empty the base model pays for one load, which it
\* will undo.
Owed == IF admin = "base" THEN 1 ELSE 0

\* Where a load is under way, or could begin, there is one to spare.
Spare ==
    /\ loaded + Owed <= resets + 1
    /\ Loader \/ base = Nothing => loaded + Owed <= resets

LoadInv == CountTypes /\ Mutex /\ Spare

\* A step that leaves base, counters and rollback alone keeps Spare if it
\* makes no thread a loader while the base model is there.
LEMMA SpareKept ==
    ASSUME Spare, loaded' = loaded, resets' = resets, admin' = admin,
           base' # Nothing \/ base = Nothing \/ Loader,
           Loader' => Loader \/ base = Nothing
    PROVE  Spare'
BY DEF Spare, Owed

\* The initial state satisfies the inductive invariant.
LEMMA LoadInvInit == ModelInit => LoadInv
<1> SUFFICES ASSUME ModelInit PROVE LoadInv
  OBVIOUS
<1>1. CountTypes /\ Mutex
  BY DEF ModelInit, CountTypes, Mutex, Places, Loading
<1>2. ~Loader
  BY DEF ModelInit, Loader, Loading
<1> QED
  BY <1>1, <1>2 DEF ModelInit, LoadInv, Spare, Owed

\* A thread that has the lock is the only one to load: once it has moved on,
\* nobody loads.
LEMMA AloneLoading ==
    ASSUME CountTypes, Mutex, NEW t \in Threads, at[t] \in Loading,
           NEW place, at' = [at EXCEPT ![t] = place]
    PROVE  Loader' <=> place \in Loading
<1>1. \A u \in Threads : u # t => at'[u] = at[u] /\ at[u] \notin Loading
  BY DEF CountTypes, Mutex
<1>2. at'[t] = place
  BY DEF CountTypes
<1> QED
  BY <1>1, <1>2 DEF Loader

\* A thread that does not hold the lock, before and after, changes no loader.
LEMMA OthersLoading ==
    ASSUME CountTypes, NEW t \in Threads, at[t] \notin Loading,
           NEW place, place \notin Loading, at' = [at EXCEPT ![t] = place]
    PROVE  Loader' <=> Loader
<1>1. \A u \in Threads : at'[u] = IF u = t THEN place ELSE at[u]
  BY DEF CountTypes
<1> QED
  BY <1>1 DEF Loader

\* A step of a thread outside the lock.
LEMMA OutsideStep ==
    ASSUME LoadInv, NEW t \in Threads, at[t] \notin Loading \cup {"release"},
           NEW place \in Places \ (Loading \cup {"release"}),
           at' = [at EXCEPT ![t] = place],
           UNCHANGED <<base, lock, admin, loaded, resets>>
    PROVE  LoadInv'
<1>1. Loader' <=> Loader
  BY OthersLoading DEF LoadInv
<1>2. CountTypes'
  BY DEF LoadInv, CountTypes
<1>3. Mutex'
  BY DEF LoadInv, CountTypes, Mutex
<1>4. Spare'
  BY <1>1, SpareKept DEF LoadInv
<1> QED
  BY <1>2, <1>3, <1>4 DEF LoadInv

\* A step of the loader that loads nothing yet.
LEMMA LoadingStep ==
    ASSUME LoadInv, NEW t \in Threads, at[t] \in Loading,
           NEW place \in Loading \cup {"release"},
           at' = [at EXCEPT ![t] = place],
           UNCHANGED <<lock, admin, loaded, resets>>
    PROVE  LoadInv'
<1>1. Loader
  BY DEF Loader
<1>2. CountTypes'
  BY DEF LoadInv, CountTypes, Loading, Places
<1>3. Mutex'
  BY DEF LoadInv, CountTypes, Mutex
<1>4. Spare'
  BY <1>1, SpareKept DEF LoadInv
<1> QED
  BY <1>2, <1>3, <1>4 DEF LoadInv

\* The step that leaves a model in the globals.
LEMMA LoadedStep ==
    ASSUME LoadInv, NEW t \in Threads, at[t] \in Loading,
           at' = [at EXCEPT ![t] = "release"],
           base' # Nothing, loaded' = loaded + 1,
           UNCHANGED <<lock, admin, resets>>
    PROVE  LoadInv'
<1>1. Loader /\ ~Loader'
  <2>1. "release" \notin Loading
    BY DEF Loading
  <2>2. Loader' <=> "release" \in Loading
    BY AloneLoading DEF LoadInv
  <2> QED
    BY <2>1, <2>2 DEF Loader
<1>2. CountTypes'
  <2>1. at' \in [Threads -> Places]
    BY DEF LoadInv, CountTypes, Places
  <2>2. loaded' \in Nat
    BY DEF LoadInv, CountTypes
  <2> QED
    BY <2>1, <2>2 DEF LoadInv, CountTypes
<1>3. Mutex'
  BY DEF LoadInv, CountTypes, Mutex
<1>4. Spare'
  BY <1>1 DEF LoadInv, CountTypes, Spare, Owed
<1> QED
  BY <1>2, <1>3, <1>4 DEF LoadInv

\* A thread takes the lock, and loads only where there is no model.
LEMMA AcquireStep ==
    ASSUME LoadInv, NEW t \in Threads, Acquire(t)
    PROVE  LoadInv'
<1>0. /\ at[t] = "lock" /\ lock = Nothing /\ lock' = t
      /\ at' = [at EXCEPT ![t] = IF Cached THEN "release" ELSE "cal"]
      /\ UNCHANGED <<base, admin, loaded, resets>>
  BY DEF Acquire, Move, globals, counters
<1>1. \A u \in Threads : at[u] \notin Loading \cup {"release"}
  BY <1>0, ModelAssumption DEF LoadInv, Mutex
<1>2. CountTypes'
  BY <1>0 DEF LoadInv, CountTypes, Places
<1>3. Mutex'
  BY <1>0, <1>1 DEF LoadInv, CountTypes, Mutex
<1>4. Loader' => base = Nothing
  <2>1. CASE Cached
    <3>1. \A u \in Threads : at'[u] \notin Loading
      BY <1>0, <1>1, <2>1 DEF LoadInv, CountTypes, Loading
    <3> QED
      BY <3>1 DEF Loader
  <2>2. CASE ~Cached
    BY <2>2 DEF Cached
  <2> QED
    BY <2>1, <2>2
<1>5. Spare'
  BY <1>0, <1>4, SpareKept DEF LoadInv
<1> QED
  BY <1>2, <1>3, <1>5 DEF LoadInv

\* The lock is given back.
LEMMA ReleaseStep ==
    ASSUME LoadInv, NEW t \in Threads, Release(t)
    PROVE  LoadInv'
<1>0. /\ at[t] = "release" /\ at' = [at EXCEPT ![t] = "loaded"]
      /\ UNCHANGED <<base, admin, loaded, resets>>
  BY DEF Release, Move, globals, counters
<1>1. \A u \in Threads : at'[u] \notin Loading \cup {"release"}
  BY <1>0 DEF LoadInv, CountTypes, Mutex, Loading
<1>2. CountTypes' /\ Mutex'
  BY <1>0, <1>1 DEF LoadInv, CountTypes, Mutex, Places
<1>3. ~Loader'
  BY <1>1 DEF Loader
<1>4. Spare'
  BY <1>0, <1>3, SpareKept DEF LoadInv
<1> QED
  BY <1>2, <1>4 DEF LoadInv

\* Every step of loading preserves the invariant.
LEMMA LoadStepKeeps ==
    ASSUME LoadInv, NEW t \in Threads, LoadStep(t)
    PROVE  LoadInv'
<1> USE DEF Move, globals, counters
<1>1. CASE Check(t)
  <2>1. (IF Cached THEN "loaded" ELSE "lock") \in Places \ (Loading \cup {"release"})
    BY DEF Places, Loading
  <2>2. at[t] \notin Loading \cup {"release"}
    BY <1>1 DEF Check, Loading
  <2> QED
    BY <1>1, <2>1, <2>2, OutsideStep DEF Check
<1>2. CASE Acquire(t)
  BY <1>2, AcquireStep
<1>3. CASE Release(t)
  BY <1>3, ReleaseStep
<1>4. CASE Absent(t)
  <2>1. PICK file \in {"cal", "base", "legacy"} :
            /\ at[t] = file
            /\ at' = [at EXCEPT ![t] = CASE file = "cal" -> "base"
                                         [] file = "base" -> "legacy"
                                         [] file = "legacy" -> "release"]
            /\ UNCHANGED <<lock, admin, loaded, resets>>
    BY <1>4 DEF Absent
  <2>2. at[t] \in Loading
    BY <2>1 DEF Loading
  <2>3. (CASE file = "cal" -> "base" [] file = "base" -> "legacy"
           [] file = "legacy" -> "release") \in Loading \cup {"release"}
    BY DEF Loading
  <2> QED
    BY <2>1, <2>2, <2>3, LoadingStep
<1>5. CASE LoadCalibrated(t)
  BY <1>5, LoadingStep DEF LoadCalibrated, Loading
<1>6. CASE TakeEstimator(t)
  <2>1. CASE calibrated = Nothing
    BY <1>6, <2>1, LoadingStep DEF TakeEstimator, Loading
  <2>2. CASE calibrated # Nothing
    BY <1>6, <2>2, LoadedStep, ModelAssumption DEF TakeEstimator, Loading
  <2> QED
    BY <2>1, <2>2
<1>7. CASE NewBase(t)
  BY <1>7, LoadingStep DEF NewBase, Loading
<1>8. CASE ReadBase(t)
  <2>1. CASE at' = [at EXCEPT ![t] = "legacy"] /\ UNCHANGED <<lock, admin, loaded, resets>>
    BY <1>8, <2>1, LoadingStep DEF ReadBase, Loading
  <2>2. CASE /\ base' = "base" /\ loaded' = loaded + 1
             /\ at' = [at EXCEPT ![t] = "release"]
             /\ UNCHANGED <<lock, admin, resets>>
    BY <1>8, <2>2, LoadedStep, ModelAssumption DEF ReadBase, Loading
  <2> QED
    BY <1>8, <2>1, <2>2 DEF ReadBase
<1>9. CASE NewLegacy(t)
  BY <1>9, LoadingStep DEF NewLegacy, Loading
<1>10. CASE ReadLegacy(t)
  BY <1>10, LoadingStep DEF ReadLegacy, Loading
<1>11. CASE LegacyIsBase(t)
  <2>1. CASE legacy = Nothing
    BY <1>11, <2>1, LoadingStep DEF LegacyIsBase, Loading
  <2>2. CASE legacy # Nothing
    BY <1>11, <2>2, LoadedStep DEF LegacyIsBase, Loading
  <2> QED
    BY <2>1, <2>2
<1> QED
  BY <1>1, <1>2, <1>3, <1>4, <1>5, <1>6, <1>7, <1>8, <1>9, <1>10, <1>11 DEF LoadStep

\* So does every step of a caller.
LEMMA UseStepKeeps ==
    ASSUME LoadInv, NEW t \in Threads, UseStep(t)
    PROVE  LoadInv'
<1> USE DEF Move, Respond, globals, counters
<1>0. {"idle", "use cal", "use base", "choose base", "heuristic", "loaded"}
          \subseteq Places \ (Loading \cup {"release"})
  BY DEF Places, Loading
<1>1. /\ UNCHANGED <<base, lock, admin, loaded, resets>>
      /\ at[t] \in {"idle", "use cal", "use base", "choose base", "heuristic", "loaded"}
  BY DEF UseStep, GetBaseModel, Choose, UseCalibrated, UseBase, Heuristic
<1>2. PICK place \in {"idle", "use cal", "use base", "choose base", "heuristic"} :
          at' = [at EXCEPT ![t] = place]
  <2>1. CASE Choose(t)
    <3>1. (IF at[t] = "loaded" /\ calibrated # Nothing THEN "use cal"
               ELSE IF base # Nothing THEN "use base" ELSE "heuristic")
              \in {"idle", "use cal", "use base", "choose base", "heuristic"}
      OBVIOUS
    <3> QED
      BY <2>1, <3>1 DEF Choose
  <2>2. CASE GetBaseModel(t) \/ Heuristic(t)
    BY <2>2 DEF GetBaseModel, Heuristic
  <2>3. CASE UseCalibrated(t) \/ UseBase(t)
    BY <2>3 DEF UseCalibrated, UseBase
  <2> QED
    BY <2>1, <2>2, <2>3 DEF UseStep
<1> QED
  BY <1>0, <1>1, <1>2, OutsideStep

\* A rollback pays for the load that follows it when it begins, and takes the
\* base model when it has been paid for.
LEMMA RollbackKeeps ==
    ASSUME LoadInv, Activate \/ ResetBase \/ ResetLegacy
    PROVE  LoadInv'
<1> USE DEF globals, counters
<1>1. at' = at /\ lock' = lock /\ loaded' = loaded
  BY DEF Activate, ResetBase, ResetLegacy
<1>2. Loader' <=> Loader
  BY <1>1 DEF Loader
<1>3. CountTypes'
  BY <1>1 DEF LoadInv, CountTypes, Activate, ResetBase, ResetLegacy
<1>4. Mutex'
  BY <1>1 DEF LoadInv, Mutex
<1>5. Spare'
  <2>1. CASE Activate
    BY <1>2, <2>1 DEF LoadInv, CountTypes, Spare, Owed, Activate
  <2>2. CASE ResetBase
    BY <1>2, <2>2 DEF LoadInv, CountTypes, Spare, Owed, ResetBase
  <2>3. CASE ResetLegacy
    BY <1>2, <2>3 DEF LoadInv, CountTypes, Spare, Owed, ResetLegacy
  <2> QED
    BY <2>1, <2>2, <2>3
<1> QED
  BY <1>3, <1>4, <1>5 DEF LoadInv

\* Every step preserves the invariant.
LEMMA LoadInvNext == LoadInv /\ [ModelNext]_modelVars => LoadInv'
<1> SUFFICES ASSUME LoadInv, [ModelNext]_modelVars PROVE LoadInv'
  OBVIOUS
<1>1. ASSUME NEW t \in Threads, Call(t) PROVE LoadInv'
  <2>1. "check" \in Places \ (Loading \cup {"release"}) /\ "idle" \notin Loading \cup {"release"}
    BY DEF Places, Loading
  <2> QED
    BY <1>1, <2>1, OutsideStep DEF Call, globals
<1>2. ASSUME NEW t \in Threads, LoadStep(t) \/ UseStep(t) PROVE LoadInv'
  BY <1>2, LoadStepKeeps, UseStepKeeps
<1>3. CASE Activate \/ ResetBase \/ ResetLegacy
  BY <1>3, RollbackKeeps
<1>4. CASE UNCHANGED modelVars
  <2>1. CountTypes' /\ Mutex' /\ (Loader' <=> Loader)
    BY <1>4 DEF modelVars, LoadInv, CountTypes, Mutex, Loader
  <2>2. Spare'
    BY <1>4, <2>1, SpareKept DEF modelVars, LoadInv
  <2> QED
    BY <2>1, <2>2 DEF LoadInv
<1> QED
  BY <1>1, <1>2, <1>3, <1>4 DEF ModelNext

\* However many threads meet the empty globals at once, and wherever in a load
\* a rollback falls, the files are loaded once and once more for each rollback
\* (ensemble.py:48-60, model_integrity.py:157-159).
THEOREM FilesLoadedOnce == ModelInit /\ [][ModelNext]_modelVars => []LoadedOnce
<1>1. LoadInv => LoadedOnce
  BY DEF LoadInv, CountTypes, Spare, Owed, LoadedOnce
<1> QED
  BY LoadInvInit, LoadInvNext, <1>1, PTL

-----------------------------------------------------------------------------
(* The types of all four parts, and the theorems about the decision.       *)

\* The rows of the metrics and the edges of a snapshot.
LEMMA MetricsTypeOKNext == MetricsTypeOK /\ [MetricsNext]_transfers => MetricsTypeOK'
<1>1. MaxTransfers \in Nat
  BY MetricsAssumption
<1> QED
  BY <1>1 DEF MetricsTypeOK, MetricsNext, FetchRow

\* Every snapshot has one of the four verdicts.
LEMMA VerdictIsOne ==
    ASSUME NEW rows
    PROVE  AnalyzeGraph(rows).verdict \in {"FRAUD", "SUSPICIOUS", "LOGGED", "CLEAN"}
<1>1. \A score : Verdict(score) \in {"FRAUD", "SUSPICIOUS", "LOGGED", "CLEAN"}
  BY DEF Verdict
<1> HIDE DEF Verdict
<1>2. \/ AnalyzeGraph(rows).verdict = "CLEAN"
      \/ \E score : AnalyzeGraph(rows).verdict = Verdict(score)
  BY DEF AnalyzeGraph
<1> QED
  BY <1>1, <1>2

\* The four parts start in their types.
LEMMA PartsTypeOKInit == Init => PartsTypeOK
<1> SUFFICES ASSUME Init PROVE PartsTypeOK
  OBVIOUS
<1>1. MetricsTypeOK
  BY MetricsAssumption DEF Init, MetricsInit, MetricsTypeOK
<1>2. SnapshotTypeOK
  BY SnapshotAssumption, VerdictIsOne DEF Init, SnapshotInit, SnapshotTypeOK
<1>3. ModelTypeOK
  BY ModelTypeOKInit DEF Init
<1>4. DecisionTypeOK
  BY DecisionInvInit DEF Init, DecisionInv
<1> QED
  BY <1>1, <1>2, <1>3, <1>4 DEF PartsTypeOK

\* And every step of one of them keeps them there.
LEMMA PartsTypeOKNext == PartsTypeOK /\ DecisionInv /\ [Next]_vars => PartsTypeOK'
<1> SUFFICES ASSUME PartsTypeOK, DecisionInv, [Next]_vars PROVE PartsTypeOK'
  OBVIOUS
<1>1. MetricsTypeOK'
  <2>1. [MetricsNext]_transfers
    BY DEF Next, vars
  <2> QED
    BY <2>1, MetricsTypeOKNext DEF PartsTypeOK
<1>2. SnapshotTypeOK'
  <2>1. [SnapshotNext]_snapshot
    BY DEF Next, vars
  <2>2. snapshot \in Seq(Edges) /\ Len(snapshot) <= MaxRows /\ Rows \subseteq Edges
    BY DEF PartsTypeOK, SnapshotTypeOK, Edges
  <2>3. snapshot' \in Seq(Edges) /\ Len(snapshot') <= MaxRows
    BY <2>1, <2>2, SnapshotAssumption DEF SnapshotNext, GrowSnapshot
  <2>4. AnalyzeGraph(snapshot').verdict \in {"FRAUD", "SUSPICIOUS", "LOGGED", "CLEAN"}
    BY VerdictIsOne
  <2> QED
    BY <2>3, <2>4 DEF SnapshotTypeOK
<1>3. ModelTypeOK'
  <2>1. [ModelNext]_modelVars
    BY DEF Next, vars
  <2> QED
    BY <2>1, ModelTypeOKNext DEF PartsTypeOK
<1>4. DecisionTypeOK'
  BY DecisionInvNext, NextIsDecisions DEF DecisionInv
<1> QED
  BY <1>1, <1>2, <1>3, <1>4 DEF PartsTypeOK

\* Rows, edges, globals and scores have their types in everything the parts do
\* (nightly_batch.py, graph_scorer.py, ensemble.py, pipeline.py).
THEOREM PartsTypesCorrect == Spec => []PartsTypeOK
BY PartsTypeOKInit, PartsTypeOKNext, DecisionInvAlways, PTL DEF Spec

\* A specialist that is sure enough is never answered with PASS, whatever the
\* context takes off and the jitter moves (committee_scorer.py:256-277,
\* indian_adjuster.py:40-97, thresholds.py:33-46).
THEOREM OverrideHolds == Spec => []OverrideNeverPasses
<1>1. DecisionInv => OverrideNeverPasses
  <2> SUFFICES ASSUME DecisionInv, stage = "answered", by = "specialist"
               PROVE  answer.action # "PASS"
    BY DEF OverrideNeverPasses
  <2>1. by # Missing
    BY DecisionAssumption
  <2>2. PICK x \in Scores : answer = Result(x, ActionFor(x), Missing) /\ x >= 41000
    BY <2>1 DEF DecisionInv, Course
  <2>3. answer.action = ActionFor(x)
    BY <2>2 DEF Result
  <2>4. x \in Nat
    BY OneIsInt DEF Scores
  <2>5. ActionFor(x) # "PASS"
    BY <2>2, <2>4 DEF ActionFor
  <2> QED
    BY <2>3, <2>5
<1> QED
  BY <1>1, DecisionInvAlways, PTL

\* The score that is stored gives the action that was taken, up to its
\* rounding (thresholds.py:33-46, pipeline.py:138-172).
THEOREM ActionsMatchScores == Spec => []ActionMatchesScore
<1>1. DecisionInv => ActionMatchesScore
  <2> SUFFICES ASSUME DecisionInv, stage = "answered", by # Missing
               PROVE  \E s \in (answer.score - 5)..(answer.score + 4) :
                          ActionFor(s) = answer.action
    BY DEF ActionMatchesScore
  <2>1. PICK x \in Scores : answer = Result(x, ActionFor(x), Missing)
    BY DEF DecisionInv, Course
  <2>2. /\ answer.action = ActionFor(x)
        /\ x \in (answer.score - 5)..(answer.score + 4)
    BY <2>1, ResultRounds
  <2> QED
    BY <2>2
<1> QED
  BY <1>1, DecisionInvAlways, PTL
=============================================================================
