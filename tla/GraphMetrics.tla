---------------------------- MODULE GraphMetrics ----------------------------
(***************************************************************************)
(* The graph metrics of the nightly batch and of the micro-batch           *)
(* (app/graph/precompute/nightly_batch.py), computed from the transfers    *)
(* that Neo4j returns, in whatever order it returns them: degrees, cycles, *)
(* sinks, collectors, the flows of four time windows, the last receipt.    *)
(* The rows are the state: a step is one more row.                         *)
(*                                                                         *)
(* A ratio is a pair <<numerator, denominator>>.  PageRank, Leiden and     *)
(* betweenness are libraries: of PageRank only who has a score is modelled,*)
(* Leiden's partition is a parameter.                                      *)
(***************************************************************************)
EXTENDS Integers, Sequences, FiniteSets, FiniteSetsExt, SequencesExt, Reachability

CONSTANTS
    People,       \* the accounts of the transfers
    Active,       \* those the account query returns
    Transfers,    \* rows: [src, dst, amount, age], age in minutes
    MaxTransfers, \* bound on the rows
    FraudSeeds,   \* confirmed fraud accounts
    CommunityOf,  \* [People -> Nat], what Leiden answers
    Null          \* a value the row does not have

VARIABLE transfers

\* A row has the two accounts and the time, or nothing in their place.
ASSUME MetricsAssumption ==
    /\ MaxTransfers \in Nat
    /\ IsFiniteSet(People) /\ Null \notin Int
    /\ Transfers \subseteq [src : People \cup {Null}, dst : People \cup {Null},
                            amount : Nat, age : Int \cup {Null}]
    /\ FraudSeeds \subseteq People /\ Active \subseteq People
    /\ CommunityOf \in [People -> Nat]

MetricsInit == transfers = <<>>

FetchRow(row) ==
    /\ Len(transfers) < MaxTransfers
    /\ transfers' = Append(transfers, row)

MetricsNext == \E row \in Transfers : FetchRow(row)

Less(p, q) == p[1] * q[2] < q[1] * p[2]
-----------------------------------------------------------------------------
\* _build_digraph: parallel transfers are one edge, with the last row's
\* amount as its weight.
AddEdge(w, row) ==
    IF row.src = Null \/ row.dst = Null THEN w
    ELSE [e \in DOMAIN w \cup {<<row.src, row.dst>>} |->
             IF e = <<row.src, row.dst>> THEN row.amount ELSE w[e]]

Weights(rows) == FoldLeft(AddEdge, <<>>, rows)

Digraph(rows) ==
    LET edges == DOMAIN Weights(rows)
    IN  [node |-> {e[1] : e \in edges} \cup {e[2] : e \in edges}, edge |-> edges]

\* Variant of CycleMembers: a component of one node with a loop counts.
CycleMembersWithLoops(G) ==
    {n \in G.node : \E m \in G.node : Reaches(G, n, m) /\ Reaches(G, m, n)
                                      /\ (m # n \/ <<n, n>> \in G.edge)}

\* The nodes of strongly connected components of more than one node.
CycleMembers(G) ==
    {n \in G.node : \E m \in G.node \ {n} : Reaches(G, n, m) /\ Reaches(G, m, n)}

SinkScore(G, n) ==
    <<InDegree(G, n), InDegree(G, n) + OutDegree(G, n)>>

\* Many senders and few recipients: min(1, in / max(3 * out, 1)).
BipartiteScore(G, n) ==
    LET few == Max({3 * OutDegree(G, n), 1})
    IN  IF InDegree(G, n) > 3 /\ OutDegree(G, n) <= 2
        THEN <<Min({InDegree(G, n), few}), few>>
        ELSE <<0, 1>>

FanOutRatio(G, n) ==
    IF n \in G.node THEN <<OutDegree(G, n), Max({InDegree(G, n), 1})>> ELSE <<0, 1>>

DegreeCentrality(G, n) ==
    IF Cardinality(G.node) <= 1 THEN <<1, 1>>
    ELSE <<InDegree(G, n) + OutDegree(G, n), Cardinality(G.node) - 1>>

\* The sink score in full for an account with hardly any counterparties,
\* else halved.
CashMuleSinkScore(G, n) ==
    LET sink == SinkScore(G, n)
    IN  IF Less(DegreeCentrality(G, n), <<1, 100>>) THEN sink ELSE <<sink[1], 2 * sink[2]>>

\* Who has a PageRank.  Seeds none of which is a node leave no weight to start
\* from: the library fails and every score is lost.
Ranked(G) ==
    IF FraudSeeds = {} THEN G.node
    ELSE {n \in G.node : \E s \in FraudSeeds \cap G.node : Reaches(G, s, n)}

Community(G, n) ==
    IF n \notin G.node THEN [size |-> 1, fraud |-> <<0, 1>>]
    ELSE LET members == {m \in G.node : CommunityOf[m] = CommunityOf[n]}
         IN  [size |-> Cardinality(members),
              fraud |-> <<Cardinality(members \cap FraudSeeds), Cardinality(members)>>]

\* Every community of two or more is one hyperedge.
Hyperedges(G) ==
    {S \in {{m \in G.node : CommunityOf[m] = CommunityOf[n]} : n \in G.node} :
        Cardinality(S) >= 2}

\* The edges between accounts that are embedded.
EdgeIndex(G, accounts) == {e \in G.edge : {e[1], e[2]} \subseteq accounts}

\* The structure the embedding model is given: every account of the graph.
EmbeddingInput(rows) ==
    [node |-> Digraph(rows).node, edge |-> EdgeIndex(Digraph(rows), Digraph(rows).node),
     hyperedge |-> Hyperedges(Digraph(rows))]
-----------------------------------------------------------------------------
FlowWindows == {60, 360, 1440, 10080}
FlowKeys == [of : People, side : {"in", "out"}, window : FlowWindows]

\* Variant of AddTransfer: a payee's money is counted as sent.
AddTransferOnce(flows, row) ==
    IF Null \in {row.src, row.dst, row.age} THEN flows
    ELSE [k \in FlowKeys |->
             IF row.age <= k.window /\ k.side = "out" /\ k.of \in {row.src, row.dst}
             THEN flows[k] + row.amount ELSE flows[k]]

\* One row of _compute_window_flows.
AddTransfer(flows, row) ==
    IF Null \in {row.src, row.dst, row.age} THEN flows
    ELSE [k \in FlowKeys |->
             IF row.age <= k.window /\ k.of = (IF k.side = "in" THEN row.dst ELSE row.src)
             THEN flows[k] + row.amount ELSE flows[k]]

Flows(rows) == FoldLeft(AddTransfer, [k \in FlowKeys |-> 0], rows)

Flow(rows, n, side, window) ==
    Flows(rows)[[of |-> n, side |-> side, window |-> window]]

\* Variant of Receive: the last row is taken for the latest.
ReceiveLastRow(last, row) ==
    IF row.dst = Null \/ row.age = Null THEN last
    ELSE [last EXCEPT ![row.dst] = row.age]

\* One row of _compute_days_since_receive.
Receive(last, row) ==
    IF row.dst = Null \/ row.age = Null THEN last
    ELSE IF last[row.dst] = Null \/ row.age < last[row.dst]
         THEN [last EXCEPT ![row.dst] = row.age]
         ELSE last

LastReceipt(rows) == FoldLeft(Receive, [n \in People |-> Null], rows)

NeverDays == 999

\* The fields of an account's hash that come from the transfers; an account
\* without one has a zero for every score.
AccountFeatures(rows, n) ==
    LET G == Digraph(rows)
        node == n \in G.node
    IN  [degree_centrality |-> IF node THEN DegreeCentrality(G, n) ELSE <<0, 1>>,
         community |-> Community(G, n),
         ranked |-> n \in Ranked(G),
         cycle_membership |-> n \in CycleMembers(G),
         sink_score |-> IF node THEN SinkScore(G, n) ELSE <<0, 1>>,
         bipartite_score |-> IF node THEN BipartiteScore(G, n) ELSE <<0, 1>>,
         cash_mule_sink_score |-> IF node THEN CashMuleSinkScore(G, n) ELSE <<0, 1>>,
         fan_out_ratio |-> FanOutRatio(G, n),
         flow |-> LET flows == Flows(rows)
                  IN  [k \in {x \in FlowKeys : x.of = n} |-> flows[k]],
         last_receive |-> LET last == LastReceipt(rows)[n]
                          IN  IF last = Null THEN NeverDays * 1440 ELSE last]

\* The micro-batch asks for the last ten minutes and stores what it finds in
\* the hour's fields.
KeepRecent(kept, row) ==
    IF row.age = Null \/ row.age >= 10 THEN kept ELSE Append(kept, row)

Recent(rows) == FoldLeft(KeepRecent, <<>>, rows)

MicroFeatures(rows, n) ==
    [sink_score |-> SinkScore(Digraph(Recent(rows)), n),
     inflow_1h |-> Flow(Recent(rows), n, "in", 60),
     outflow_1h |-> Flow(Recent(rows), n, "out", 60)]
-----------------------------------------------------------------------------
MetricsTypeOK == transfers \in Seq(Transfers) /\ Len(transfers) <= MaxTransfers

\* Neither the features nor the structure that is embedded depends on the
\* order in which Neo4j returns the rows (the queries have no ORDER BY).  The
\* weights do, where the last of parallel transfers wins: what the libraries
\* make of them (PageRank's values, Leiden's partition) is not claimed
\* (nightly_batch.py:61-70, 314-323).
OrderIrrelevant ==
    /\ EmbeddingInput(transfers) = EmbeddingInput(Reverse(transfers))
    /\ \A n \in Active :
           AccountFeatures(transfers, n) = AccountFeatures(Reverse(transfers), n)

\* A node is a cycle member exactly when it is on a simple cycle of two or
\* more accounts: a set of edges in which each account has one way in and one
\* way out (nightly_batch.py:440-450).
CyclesFound ==
    LET G == Digraph(transfers)
        proper == {e \in G.edge : e[1] # e[2]}
        Nodes(E) == {e[1] : e \in E} \cup {e[2] : e \in E}
        Cycles == {E \in SUBSET proper :
                      \A n \in Nodes(E) : /\ Cardinality({e \in E : e[1] = n}) = 1
                                          /\ Cardinality({e \in E : e[2] = n}) = 1}
    IN  CycleMembers(G) = UNION {Nodes(E) : E \in Cycles}

\* The figures of an account agree with each other although each comes from a
\* loop of its own: money received in a window was received within it, windows
\* are nested, what is sent is what is received, the micro-batch never reports
\* more than the hour it stands for, and a collector is a sink
\* (nightly_batch.py:453-568, 633-643).
FiguresAgree ==
    LET G == Digraph(transfers)
        flows == Flows(transfers)
        last == LastReceipt(transfers)
        F(n, side, w) == flows[[of |-> n, side |-> side, window |-> w]]
        Sum(side, w) == SumFunction([n \in People |-> F(n, side, w)])
    IN  /\ \A n \in People, w \in FlowWindows :
              /\ F(n, "in", w) > 0 => last[n] <= w
              /\ \A v \in FlowWindows, side \in {"in", "out"} :
                     v < w => F(n, side, v) <= F(n, side, w)
        /\ \A w \in FlowWindows : Sum("in", w) = Sum("out", w)
        /\ \A n \in Digraph(Recent(transfers)).node :
              MicroFeatures(transfers, n).inflow_1h <= F(n, "in", 60)
        /\ \A n \in G.node :
              BipartiteScore(G, n)[1] > 0 =>
                  /\ ~Less(SinkScore(G, n), <<2, 3>>)
                  /\ ~Less(<<1, 2>>, FanOutRatio(G, n))
=============================================================================
