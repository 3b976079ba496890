------------------------------ MODULE Decision ------------------------------
(***************************************************************************)
(* How the pipeline (app/detection/pipeline.py) decides about one          *)
(* transaction: canary check, Tier 1, the six gates, features, committee   *)
(* or ensemble, context, jitter and thresholds.  ScoreRequest takes the    *)
(* result as a choice; here it is computed.  A step is one check or call;  *)
(* what a step reads from Redis, Neo4j or PostgreSQL is its input.         *)
(*                                                                         *)
(* Scores are in units of 1/100000, amounts in rupees.                     *)
(***************************************************************************)
EXTENDS Committee, Sequences, SequencesExt

CONSTANTS
    Payments,     \* [amount, hour, vpaAge, occupation]
    Profiles,     \* the rest of Tier 1's input
    GateInputs,   \* what the gates read, a record for each gate
    ScorerInputs, \* [ScorerIds -> a set of inputs]
    MetaInputs,   \* [model, probability]
    Ensemble,     \* scores of the single model
    Ages,         \* hours since the features were computed, or Missing
    Contexts,     \* the adjuster's other inputs
    Jitters       \* what the jitter adds

VARIABLES
    stage,    \* the step the pipeline is about to take
    payment,  \* the payment, a member of Payments
    tier1,    \* Tier 1's answer
    aborted,  \* the request's transaction failed: every later query fails
    outputs,  \* the scorers' outputs so far
    raw,      \* the score so far
    by,       \* who gave the raw score (history)
    answer    \* what the pipeline answers

\* What the models and Redis give: a number, or what stands for none.  The
\* single model answers a probability or a capped heuristic
\* (ensemble.py:107-157), the jitter is at most 0.01 (thresholds.py:8-19).
ASSUME DecisionAssumption ==
    /\ Missing \notin {"model", "specialist", "committee"}
    /\ \A s \in {"A", "B"} : \A in \in ScorerInputs[s] : in.probability \in Int \cup {Fails}
    /\ \A in \in ScorerInputs["C"] : in.vault = Fails \/ in.vault.score \in Int
    /\ ScorerInputs["D"] \subseteq [limited : BOOLEAN, history : Nat \cup {Missing},
                                  model : BOOLEAN, probability : Int \cup {Fails}]
    /\ \A in \in ScorerInputs["F"] : in.similarity \in Int \cup {Fails}
    /\ \A in \in MetaInputs : in.probability \in Int \cup {Fails}
    /\ Ensemble \subseteq 0..One /\ Ages \subseteq Int \cup {Missing}
    /\ \A j \in Jitters : j \in Int /\ -1000 <= j /\ j <= 1000

decisionVars == <<stage, payment, tier1, aborted, outputs, raw, by, answer>>

Gates == <<"rapid_relay", "cycle", "sink", "bipartite", "cash_mule_sink", "merchant_terminal">>

DecisionInit ==
    /\ stage = "start" /\ payment = Missing /\ tier1 = Missing
    /\ aborted = FALSE /\ outputs = <<>> /\ raw = Missing /\ by = Missing
    /\ answer = Missing

\* Round to four decimals.
Result(score, action, gate) ==
    [score |-> ((score + 5) \div 10) * 10, action |-> action, gate |-> gate]

Answer(score, action, gate) ==
    /\ answer' = Result(score, action, gate)
    /\ stage' = "answered"
    /\ payment' = Missing /\ tier1' = Missing /\ outputs' = <<>> /\ raw' = Missing
    /\ UNCHANGED <<aborted, by>>

\* An exception leaves the pipeline; the handler answers 500.
Fail ==
    /\ stage' = "failed"
    /\ payment' = Missing /\ tier1' = Missing /\ outputs' = <<>> /\ raw' = Missing
    /\ UNCHANGED <<aborted, by, answer>>

GoTo(next) ==
    /\ stage' = next
    /\ UNCHANGED <<payment, tier1, outputs, raw, by, answer>>
-----------------------------------------------------------------------------
(* Tier 1.                                                                 *)

Night(hour) == hour >= 23 \/ hour < 5

HighFrequency == {"gig_worker", "freelancer", "delivery", "merchant", "retailer"}

NearReportingLimit(amount) ==
    amount \in 49000..49999 \/ amount \in 99000..99999 \/ amount \in 990000..999999

\* Whether a value that may be missing is below a bound.
Below(value, bound) == value # Missing /\ value < bound

Suspicious(p, f) ==
    \/ Below(p.vpaAge, 7) \/ Night(p.hour)
    \/ f.velocity1h > 5 /\ p.occupation \notin HighFrequency
    \/ NearReportingLimit(p.amount)
    \/ Below(f.payeeAge, 14)
    \/ f.average > 0 /\ p.amount > 5 * f.average

FastClean(p, f) ==
    /\ f.age > 365 /\ f.average > 0 /\ p.amount < 2 * f.average
    /\ f.knownPayee /\ ~Night(p.hour) /\ f.velocity24h < 10

Classify(p, f) ==
    IF Suspicious(p, f) THEN "SUSPICIOUS"
    ELSE IF FastClean(p, f) THEN "FAST_CLEAN" ELSE "UNCERTAIN"

Canary == stage = "start" /\ Answer(One \div 2, "LOG", Missing)

Tier1 ==
    /\ stage = "start"
    /\ \E p \in Payments, f \in Profiles :
          CASE f.velocity1h = Fails -> Fail
            [] f.velocity1h # Fails /\ Classify(p, f) = "FAST_CLEAN" -> Answer(5000, "PASS", Missing)
            [] OTHER -> /\ stage' = "rapid_relay"
                        /\ payment' = p /\ tier1' = Classify(p, f)
                        /\ UNCHANGED <<aborted, outputs, raw, by, answer>>
-----------------------------------------------------------------------------
(* Tier 2: each gate answers the name it fires with, or Missing.           *)

\* Pilot: without GATE0_LIVE a relay is logged only.  A cold cache falls back
\* to Neo4j, whose errors count as no inflow.
RapidRelay(d) ==
    LET flow == IF d.cached.inflow < 5000 THEN d.graph ELSE d.cached
    IN  IF /\ d.live /\ flow.inflow >= 5000
           /\ 100 * flow.outflow >= 80 * flow.inflow /\ d.sent >= 3
        THEN "rapid_relay" ELSE Missing

\* What the query returns of an account on a cycle: not its KYC completeness,
\* not its age.
NodeDetails(n) == [is_merchant |-> n.is_merchant, kyc |-> Missing, age |-> Missing]

OrZero(value) == IF value = Missing THEN 0 ELSE value

Shell(n) == OrZero(n.kyc) < 30 \/ OrZero(n.age) < 90

\* The five filters, in their order; only whether one holds matters.  A path
\* starts and ends at one account, so origin and terminus are the same.
Explained(c) ==
    LET nodes == {NodeDetails(n) : n \in c.nodes}
    IN  \/ c.type \in {"INTERNAL", "TREASURY", "NOSTRO", "VOSTRO"}
        \/ c.related
        \/ /\ c.occupation \in {"employer", "corporate", "payroll_processor"}
           /\ c.days <= 30 /\ c.exit <= c.entry
        \/ nodes # {} /\ \A n \in nodes : n.is_merchant /\ ~Shell(n)
        \/ c.entry > 0 /\ 100 * c.exit < 70 * c.entry

\* What the query keeps of the week's paths back to their start: two to eight
\* transfers.  cycles has at most the five it returns.
FoundCycles(cycles) == {c \in cycles : c.hops \in 2..8}

Cycle(cycles) ==
    IF \E c \in FoundCycles(cycles) : ~Explained(c)
    THEN "confirmed_cycle" ELSE Missing

\* What the query of the sink gate asks of an account.
DormantSink(d) == d.inflow > 50000 /\ d.kept > 80 /\ d.dormant > 30 /\ d.age < 180

\* D-01 from the hash, then D-00 from Neo4j.
Sink(d) ==
    IF /\ Missing \notin {d.sendDays, d.receiveDays}
       /\ d.sendDays > 30 /\ d.receiveDays > 30 /\ d.sink > 50 /\ d.retention > 60
    THEN "abandoned_sink_d01"
    ELSE IF /\ DormantSink(d)
            /\ d.type # "JAN_DHAN"
            /\ d.occupation \notin {"merchant", "retailer", "shopkeeper"}
    THEN "abandoned_sink" ELSE Missing

\* The query of the bipartite gate: five senders and a density, payments per
\* sender, above 0.7.
ManySenders(d) == d.senders >= 5 /\ d.density > 70

Bipartite(d) ==
    IF /\ ManySenders(d)
       /\ d.occupation \notin {"salary_processor", "payroll_processor", "insurance_company",
                               "tax_collector", "utility_provider"}
       /\ ~(d.merchant /\ d.density < 85)
    THEN "bipartite_core" ELSE Missing

CashMule(d) ==
    IF /\ d.age # Missing /\ d.age <= 180
       /\ d.inflow >= 50000 /\ 100 * d.cash >= 80 * d.inflow /\ d.sends <= 2
       /\ d.type # "JAN_DHAN"
       /\ d.occupation \notin {"vegetable_vendor", "daily_wage", "agricultural_worker",
                               "street_vendor"}
    THEN "cash_mule_sink" ELSE Missing

\* Only a payment without a terminal gets past this gate's first query, which
\* asks for a column no migration creates.
Merchant(d) == Missing

FiredBy(gate, d) ==
    CASE gate = "rapid_relay" -> RapidRelay(d) [] gate = "cycle" -> Cycle(d)
      [] gate = "sink" -> Sink(d) [] gate = "bipartite" -> Bipartite(d)
      [] gate = "cash_mule_sink" -> CashMule(d) [] gate = "merchant_terminal" -> Merchant(d)

SqlGates == {"cash_mule_sink", "merchant_terminal"}

AfterGate(gate) ==
    LET i == CHOOSE j \in DOMAIN Gates : Gates[j] = gate
    IN  IF i < Len(Gates) THEN Gates[i + 1]
        ELSE IF tier1 = "UNCERTAIN" THEN "uncertain" ELSE "features"

\* run_all_gates: the first gate to fire ends the pipeline, a gate that raises
\* is passed over.  What a failed query leaves behind is the transaction.
GateFires ==
    /\ stage \in ToSet(Gates)
    /\ aborted => stage # "cash_mule_sink"
    /\ \E d \in GateInputs[stage] :
          /\ FiredBy(stage, d) # Missing
          /\ Answer(One, "REVIEW", FiredBy(stage, d))

GateSilent ==
    /\ stage \in ToSet(Gates)
    /\ aborted => stage # "cash_mule_sink"
    /\ \E d \in GateInputs[stage] : FiredBy(stage, d) = Missing
    /\ GoTo(AfterGate(stage))
    /\ UNCHANGED aborted

\* The relay gate answers for its own errors.
GateRaises ==
    /\ stage \in ToSet(Tail(Gates))
    /\ GoTo(AfterGate(stage))
    /\ aborted' = (aborted \/ stage \in SqlGates)

\* An uncertain payment that cleared the gates is logged and not scored.
Uncertain == stage = "uncertain" /\ Answer(10000, "LOG", Missing)
-----------------------------------------------------------------------------
(* Tier 3.                                                                 *)

\* The payee's and the account's own history: a query that fails makes its
\* features NaN and every later query fail.
ReadHistory == aborted' \in {aborted, TRUE}

\* build_features: Redis has no handler.
Features ==
    /\ stage = "features"
    /\ \/ GoTo("score") /\ ReadHistory
       \/ Fail

\* Shadow mode, or neither: the single model decides (the shadow committee is
\* in ScoreRequest).
ScoreSingle ==
    /\ stage = "score"
    /\ raw' \in Ensemble /\ by' = "model"
    /\ stage' = "context"
    /\ UNCHANGED <<payment, tier1, aborted, outputs, answer>>

\* Live mode: the scorers in their order.
Scorer(s, Before, Score(_)) ==
    /\ stage \in {"score", "committee"} /\ DOMAIN outputs = Before
    /\ \E in \in ScorerInputs[s] :
          outputs' = [x \in Before \cup {s} |-> IF x = s THEN Score(in) ELSE outputs[x]]
    /\ stage' = "committee"
    /\ UNCHANGED <<payment, tier1, aborted, raw, by, answer>>

ScoreA == Scorer("A", {}, ScorerA)
ScoreB == Scorer("B", {"A"}, ScorerB)
ScoreC == Scorer("C", {"A", "B"}, ScorerC)

\* The fourth reads the history with the request's session.
ScoreD ==
    Scorer("D", {"A", "B", "C"},
           LAMBDA in : ScorerD([in EXCEPT !.history = IF aborted THEN Missing ELSE @]))

ScoreF == Scorer("F", {"A", "B", "C", "D"}, ScorerF)

\* The score, and its audit row in the request's transaction: without the row
\* there is no answer.
Decide ==
    /\ stage = "committee" /\ DOMAIN outputs = ScorerIds
    /\ \/ Fail
       \/ /\ ~aborted
          /\ \E in \in MetaInputs :
                /\ raw' = FinalScore(outputs, in)
                /\ by' = IF Override(outputs) # Missing THEN "specialist" ELSE "committee"
          /\ stage' = "context" /\ outputs' = <<>>
          /\ UNCHANGED <<payment, tier1, aborted, answer>>

Scale(score, percent) == (score * percent) \div 100

\* The festival branches: a small gift to a new payee, a medium one to an
\* established payee.
Festival(p, c) ==
    IF ~c.festival \/ ~c.gifting \/ p.vpaAge = Missing THEN 100
    ELSE IF p.amount < 5000 /\ p.vpaAge < 30 THEN 70
    ELSE IF p.amount \in 5000..50000 /\ p.vpaAge > 7 THEN 90
    ELSE 100

Gig(p, c) ==
    IF /\ c.daily > 10 /\ c.upi /\ p.hour \in 11..23
       /\ p.occupation \in {"gig_worker", "freelancer", "delivery"}
    THEN 85 ELSE 100

JanDhan(c) == IF c.janDhan THEN 75 ELSE 100

Batch(p) ==
    IF /\ p.occupation \in {"merchant", "retailer", "shopkeeper"}
       /\ p.amount % 100 = 0 /\ p.hour \in 18..23
    THEN 80 ELSE 100

Senior(p, c) ==
    IF ~c.senior THEN 100
    ELSE Scale(IF Night(p.hour) THEN 150 ELSE 100, IF Below(p.vpaAge, 7) THEN 130 ELSE 100)

\* After 26 hours the score is drawn towards one half, by 30% within 72 hours.
Stale(score, hours) ==
    IF hours = Missing \/ hours <= 26 THEN score
    ELSE LET excess == Min({hours - 26, 72})
         IN  (score * (240 - excess) + (One \div 2) * excess) \div 240

\* Variant of Adjusted: the factors are not capped.
AdjustedUncapped(score, p, c, hours) ==
    Stale(Scale(Scale(Scale(Scale(Scale(score, Festival(p, c)), Gig(p, c)), JanDhan(c)),
                      Batch(p)), Senior(p, c)),
          hours)

Adjusted(score, p, c, hours) ==
    LET f == Scale(Scale(Scale(Scale(Scale(score, Festival(p, c)), Gig(p, c)), JanDhan(c)),
                         Batch(p)), Senior(p, c))
    IN  Min({One, Stale(f, hours)})

Context ==
    /\ stage = "context"
    /\ \E c \in Contexts, hours \in Ages : raw' = Adjusted(raw, payment, c, hours)
    /\ stage' = "threshold" /\ payment' = Missing
    /\ UNCHANGED <<tier1, aborted, outputs, by, answer>>

ActionFor(score) ==
    CASE score >= 83000 -> "HIGH_RISK" [] score >= 62000 -> "REVIEW"
      [] score >= 38000 -> "LOG" [] OTHER -> "PASS"

\* Variant of Threshold: the score is jittered once the action is taken.
ThresholdUnjittered ==
    /\ stage = "threshold"
    /\ \E j \in Jitters : Answer(Clamp(raw + j), ActionFor(raw), Missing)

\* The jitter comes first, so that score and action agree.
Threshold ==
    /\ stage = "threshold"
    /\ \E j \in Jitters :
          LET jittered == Clamp(raw + j)
          IN  Answer(jittered, ActionFor(jittered), Missing)

DecisionNext ==
    \/ Canary \/ Tier1 \/ GateFires \/ GateSilent \/ GateRaises \/ Uncertain \/ Features
    \/ ScoreSingle \/ ScoreA \/ ScoreB \/ ScoreC \/ ScoreD \/ ScoreF \/ Decide
    \/ Context \/ Threshold
-----------------------------------------------------------------------------
Scores == 0..One

DecisionTypeOK ==
    /\ stage \in ToSet(Gates) \cup {"start", "uncertain", "features", "score", "committee",
                                    "context", "threshold", "answered", "failed"}
    /\ payment \in Payments \cup {Missing}
    /\ tier1 \in {"SUSPICIOUS", "UNCERTAIN", Missing}
    /\ aborted \in BOOLEAN
    /\ \A s \in DOMAIN outputs : outputs[s].score \in Scores
    /\ raw \in Scores \cup {Missing}
    /\ answer # Missing => answer.score \in Scores

\* A specialist that is sure enough is never answered with PASS, whatever the
\* context takes off and the jitter moves: the discounts that can come together
\* leave 0.42 of 1.0 and LOG starts at 0.38
\* (committee_scorer.py:256-277, indian_adjuster.py:40-97, thresholds.py:33-46).
OverrideNeverPasses ==
    stage = "answered" /\ by = "specialist" => answer.action # "PASS"

\* The score that is stored gives the action that was taken, up to its
\* rounding to four decimals (thresholds.py:33-46, pipeline.py:138-172).
ActionMatchesScore ==
    stage = "answered" /\ by # Missing =>
        \E s \in (answer.score - 5)..(answer.score + 4) : ActionFor(s) = answer.action
=============================================================================
