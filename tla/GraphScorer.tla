---------------------------- MODULE GraphScorer ----------------------------
(***************************************************************************)
(* The analyze-graph endpoint (app/api/v1/analyze_graph.py) and the        *)
(* scorer of graph snapshots (app/detection/graph_scorer.py).  The state   *)
(* is the snapshot a client grows between two calls; the answer is a       *)
(* function of it.                                                         *)
(*                                                                         *)
(* Scores are in units of 1/10000, amounts in hundreds of rupees, times in *)
(* seconds.  The accounts an answer names are left out.                    *)
(***************************************************************************)
EXTENDS Integers, Sequences, FiniteSets, FiniteSetsExt, SequencesExt, Reachability

CONSTANTS
    Rows,       \* edges a client may add: [source, target, amount, timestamp]
    Snapshots,  \* snapshots a client starts from
    MaxRows,    \* bound on the edges of a snapshot
    NoName,     \* the empty source or target
    Now         \* what an unreadable timestamp is read as

VARIABLE snapshot

\* The edges a client may send.
Edges == Rows \cup UNION {ToSet(rows) : rows \in Snapshots}

\* The request schema refuses amounts that are not positive
\* (analyze_graph.py:24-30).
ASSUME SnapshotAssumption ==
    /\ MaxRows \in Nat
    /\ \A rows \in Snapshots : rows \in Seq(Edges) /\ Len(rows) <= MaxRows
    /\ \A e \in Edges : e.amount \in Nat \ {0}

SnapshotInit == snapshot \in Snapshots

GrowSnapshot(row) ==
    /\ Len(snapshot) < MaxRows
    /\ snapshot' = Append(snapshot, row)

SnapshotNext == \E row \in Rows : GrowSnapshot(row)
-----------------------------------------------------------------------------
\* The edges the scorer looks at: those with both names.
KeepNamed(kept, e) ==
    IF e.source # NoName /\ e.target # NoName THEN Append(kept, e) ELSE kept

Scored(rows) == FoldLeft(KeepNamed, <<>>, rows)

SnapshotGraph(rows) ==
    LET edges == {<<e.source, e.target>> : e \in ToSet(rows)}
    IN  [node |-> {e[1] : e \in edges} \cup {e[2] : e \in edges}, edge |-> edges]

\* The accounts in the order they are met, the order of every loop over nodes.
NodeOrder(rows) ==
    LET Meet(order, n) == IF n \in ToSet(order) THEN order ELSE Append(order, n)
    IN  FoldLeft(LAMBDA order, e : Meet(Meet(order, e.source), e.target), <<>>, rows)

\* Of parallel edges the graph keeps the last amount.
EdgeAmount(rows, m, n) ==
    LET i == Max({j \in DOMAIN rows : rows[j].source = m /\ rows[j].target = n})
    IN  rows[i].amount

\* A simple cycle of two accounts or more exists exactly when two accounts
\* reach each other.
Circular(G) ==
    \E m, n \in G.node : m # n /\ Reaches(G, m, n) /\ Reaches(G, n, m)

Acyclic(G) == ~Circular(G) /\ \A n \in G.node : <<n, n>> \notin G.edge

\* The edges of the longest path of an acyclic graph.
LongestPath(G) ==
    LET Depth[n \in G.node] == Max({0} \cup {1 + Depth[m] : m \in Successors(G, n)})
    IN  Max({Depth[n] : n \in G.node})

NearThreshold(amount) ==
    \E t \in {500, 1000, 10000} : 95 * t <= 100 * amount /\ amount < t

CountOf(rows, Test(_)) == Cardinality({i \in DOMAIN rows : Test(rows[i])})
-----------------------------------------------------------------------------
\* A gate answers the signals it raises, [type, score] each, <<>> if it is
\* silent.
Signal(type, score) == <<[type |-> type, score |-> score]>>

CircularPath(rows) ==
    IF Circular(SnapshotGraph(rows)) THEN Signal("circular_transfer_fraud", 9700) ELSE <<>>

\* Variant of FanOut: exactly four recipients.
FanOutOfFour(rows) ==
    LET G == SnapshotGraph(rows)
    IN  IF \E n \in G.node : Cardinality(Successors(G, n)) = 4
        THEN Signal("smurfing_fan_out", 8500) ELSE <<>>

FanOut(rows) ==
    LET G == SnapshotGraph(rows)
    IN  IF \E n \in G.node : Cardinality(Successors(G, n)) >= 4
        THEN Signal("smurfing_fan_out", 8500) ELSE <<>>

\* The first collector met answers for all of them.
Collector(rows) ==
    LET G == SnapshotGraph(rows)
        Senders(n) == Cardinality(Predecessors(G, n))
        order == NodeOrder(rows)
        found == {i \in DOMAIN order : Senders(order[i]) >= 4}
    IN  IF found = {} THEN <<>>
        ELSE Signal("mule_network_aggregation",
                    Min({8200 + (Senders(order[Min(found)]) - 4) * 200, 9200}))

\* An account with two senders that passes on 80% of what it got:
\* 0.78 + (out/in - 0.80) / 2, at most 0.95.
RelayScore(rows, n) ==
    LET G == SnapshotGraph(rows)
        in == SumFunction([m \in Predecessors(G, n) |-> EdgeAmount(rows, m, n)])
        out == SumFunction([m \in Successors(G, n) |-> EdgeAmount(rows, n, m)])
    IN  IF /\ Cardinality(Predecessors(G, n)) >= 2
           /\ Successors(G, n) # {}
           /\ 10 * out >= 8 * in
        THEN Min({3800 + (5000 * out) \div in, 9500}) ELSE 0

Relay(rows) ==
    LET scores == {RelayScore(rows, n) : n \in SnapshotGraph(rows).node} \ {0}
    IN  IF scores = {} THEN <<>> ELSE Signal("rapid_relay_mule", Max(scores))

Chain(rows) ==
    LET G == SnapshotGraph(rows)
    IN  IF Acyclic(G) /\ LongestPath(G) > 3
        THEN Signal("layering_chain", 7500 + Min({1000, (LongestPath(G) - 3) * 400}))
        ELSE <<>>

\* Two amounts just below a reporting threshold, or else three that are equal.
Structuring(rows) ==
    LET near == CountOf(rows, LAMBDA e : NearThreshold(e.amount))
    IN  IF near >= 2
        THEN Signal("structuring_below_threshold", Min({7200 + (near - 2) * 800, 8800}))
        ELSE IF \E e \in ToSet(rows) : /\ e.amount > 10
                                       /\ CountOf(rows, LAMBDA x : x.amount = e.amount) >= 3
        THEN Signal("structuring_below_threshold", 7200) ELSE <<>>

TimeOf(e) == IF e.timestamp = NoName THEN Now ELSE e.timestamp

Burst(rows) ==
    IF \E i \in DOMAIN rows :
          CountOf(rows, LAMBDA e : TimeOf(e) - TimeOf(rows[i]) \in 0..1800) >= 3
    THEN Signal("rapid_transfer_burst", 6500) ELSE <<>>

HighVelocity(rows) ==
    LET times == {TimeOf(e) : e \in ToSet(rows)}
    IN  IF /\ Len(rows) >= 2 /\ Max(times) - Min(times) < 600
           /\ SumFunction([i \in DOMAIN rows |-> rows[i].amount]) > 2000
        THEN Signal("rapid_transfer_burst", 6000) ELSE <<>>

LargeAmount(rows, signals) ==
    IF \E e \in ToSet(rows) : e.amount >= 5000
    THEN Signal(IF signals = <<>> THEN "large_value_transfer" ELSE signals[1].type, 4500)
    ELSE <<>>

\* A graph with a loop and more than four accounts scores without a signal.
UnnamedScore(rows) ==
    LET G == SnapshotGraph(rows)
    IN  IF ~Acyclic(G) /\ Cardinality(G.node) > 4 THEN 7800 ELSE 0

Signals(rows) ==
    LET s == CircularPath(rows) \o FanOut(rows) \o Collector(rows) \o Relay(rows)
             \o Chain(rows) \o Structuring(rows) \o Burst(rows) \o HighVelocity(rows)
    IN  s \o LargeAmount(rows, s)

Verdict(score) ==
    IF score >= 8300 THEN "FRAUD"
    ELSE IF score >= 6200 THEN "SUSPICIOUS"
    ELSE IF score >= 3800 THEN "LOGGED" ELSE "CLEAN"

\* score_graph_snapshot and the response.
AnalyzeGraph(rows) ==
    IF Scored(rows) = <<>>
    THEN [verdict |-> "CLEAN", fraud_type |-> "none", score |-> 0]
    ELSE LET signals == Signals(Scored(rows))
             score == Max({UnnamedScore(Scored(rows))} \cup {s.score : s \in ToSet(signals)})
         IN  [verdict |-> Verdict(score), score |-> score,
              fraud_type |-> IF signals # <<>> THEN signals[1].type
                             ELSE IF Verdict(score) = "CLEAN" THEN "none" ELSE "unknown_pattern"]
-----------------------------------------------------------------------------
SnapshotTypeOK ==
    /\ snapshot \in Seq(Edges)
    /\ Len(snapshot) <= MaxRows
    /\ AnalyzeGraph(snapshot).verdict \in {"FRAUD", "SUSPICIOUS", "LOGGED", "CLEAN"}

\* What was found to be fraud is not cleared by more transfers between two
\* accounts, unless the finding was a ratio or a count of one account (a relay
\* that got more money, an earlier collector that took the place of a larger
\* one).  A self-transfer may clear it: a long chain is then no longer acyclic
\* and scores less (graph_scorer.py:87-167).
FraudStands ==
    [][LET before == Scored(snapshot)
       IN  \/ AnalyzeGraph(snapshot).verdict # "FRAUD"
           \/ AnalyzeGraph(snapshot').verdict = "FRAUD"
           \/ \E s \in ToSet(Relay(before) \o Collector(before)) : s.score >= 8300
           \/ Last(snapshot').source = Last(snapshot').target]_snapshot
=============================================================================
