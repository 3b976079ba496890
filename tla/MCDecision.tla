----------------------------- MODULE MCDecision -----------------------------
(***************************************************************************)
(* The parts that compute: the graph metrics, the snapshot scorer, the     *)
(* model cache and the pipeline's decision.  They share no state, so a     *)
(* behaviour is one of one part with the others at rest.                   *)
(***************************************************************************)
EXTENDS GraphMetrics, GraphScorer, ModelCache, Decision

CONSTANTS s1, s2, s3, s4, c, t1, t2, t3
-----------------------------------------------------------------------------
Row(src, dst, amount, age) == [src |-> src, dst |-> dst, amount |-> amount, age |-> age]

MCPeople == {s1, s2, s3, s4, c}
MCActive == {s1, c}
MCTransfers ==
    {Row(s1, c, 1, 5), Row(s1, c, 2, 700), Row(s2, c, 2, 50), Row(s3, c, 1, 300),
     Row(s4, c, 1, 9000), Row(c, s1, 3, 5), Row(s1, s2, 1, 1440), Row(s2, s1, 2, 20000),
     Row(c, c, 1, 60), Row(s2, s3, 1, Null), Row(Null, c, 1, 5)}
MCCommunities == s1 :> 1 @@ s2 :> 1 @@ s3 :> 2 @@ s4 :> 2 @@ c :> 1
MCSeeds == {s2}
-----------------------------------------------------------------------------
Edge(source, target, amount, timestamp) ==
    [source |-> source, target |-> target, amount |-> amount, timestamp |-> timestamp]

\* What is not scored, a chain, a fan, a collector, amounts below the limits.
Unscored == <<Edge(NoName, 3, 20, 0), Edge(2, NoName, 490, 0)>>
MCSnapshots ==
    {Unscored,
     <<Edge(1, 2, 90, 0), Edge(2, 3, 40, 9000), Edge(3, 4, 20, 20000), Edge(4, 5, 10, 30000)>>,
     <<Edge(6, 1, 20, 0), Edge(6, 2, 30, 4000), Edge(6, 3, 40, 8000)>>,
     <<Edge(1, 6, 20, 0), Edge(2, 6, 30, 4000), Edge(3, 6, 40, 8000), Edge(4, 6, 40, 12000)>>,
     <<Edge(1, 2, 480, 0), Edge(3, 4, 990, 4000), Edge(5, 6, 9600, 8000)>>}
MCRows ==
    {Edge(1, 2, 480, 100), Edge(5, 6, 20, NoName), Edge(6, 4, 6000, 60), Edge(6, 5, 15, NoName),
     Edge(5, 5, 20, 7000), Edge(6, 1, 150, 300), Edge(NoName, 3, 20, 0), Edge(5, 4, 20, 5000),
     Edge(4, 6, 1, NoName)}

MCThreads == {t1, t2, t3}
MCVersions == [digest : {Nothing, 1, 2}, sidecar : {Nothing, 1, 2}]
-----------------------------------------------------------------------------
MCPayments ==
    [amount : {4000, 20000, 49500}, hour : {2, 12, 20}, vpaAge : {Missing, 6, 29},
     occupation : {"gig_worker", "merchant", "other"}]
MCProfiles ==
    [velocity1h : {3, 6}, payeeAge : {13, Missing}, average : {0, 3000, 12000}, age : {100, 400},
     knownPayee : BOOLEAN, velocity24h : {9, 10}]
    \cup [velocity1h : {Fails}, payeeAge : {Missing}, average : {0}, age : {0},
          knownPayee : {FALSE}, velocity24h : {0}]

Flow2(inflow, outflow) == [inflow |-> inflow, outflow |-> outflow]
Relays ==
    [cached : {Flow2(0, 0), Flow2(9000, 7000), Flow2(9000, 7200)}, graph : {Flow2(0, 0), Flow2(6000, 6000)},
     sent : {2, 3}, live : BOOLEAN]

Node(merchant, kyc, age) == [is_merchant |-> merchant, kyc |-> kyc, age |-> age]
Loops ==
    [type : {"SAVINGS", "NOSTRO"}, related : BOOLEAN,
     occupation : {"employer", Missing}, days : {30, 31}, entry : {100}, exit : {69, 100, 101},
     hops : {1, 2}, nodes : {{}, {Node(FALSE, 90, 900)}, {Node(TRUE, 90, 900), Node(TRUE, 60, 400)}}]
MCCycles == {{}} \cup {{l} : l \in Loops}

Sinks ==
    [sendDays : {Missing}, receiveDays : {40}, sink : {90}, retention : {0},
     inflow : {50000, 60000}, kept : {90}, dormant : {31}, age : {100},
     type : {"SAVINGS", "JAN_DHAN"}, occupation : {"merchant", "other"}]
Collectors ==
    [senders : {4, 5}, density : {100, 120}, occupation : {"utility_provider", "other"},
     merchant : BOOLEAN]
Mules ==
    [age : {Missing, 180, 181}, inflow : {50000}, cash : {39999, 40000}, sends : {2, 3},
     type : {"SAVINGS", "JAN_DHAN"}, occupation : {"street_vendor", "other"}]

MCGateInputs ==
    [g \in ToSet(Gates) |->
        CASE g = "rapid_relay" -> Relays [] g = "cycle" -> MCCycles [] g = "sink" -> Sinks
          [] g = "bipartite" -> Collectors [] g = "cash_mule_sink" -> Mules
          [] g = "merchant_terminal" -> {Missing}]

\* As the schema is, no payment has UPI session features or a remark.
MCScorerInputs ==
    [s \in ScorerIds |->
        CASE s = "A" -> [model : {TRUE}, probability : {95000}, nan : {8}]
          [] s = "B" -> [model : {TRUE}, probability : {0, 60000, 90000, Fails},
                         gnn : {Missing}, node2vec : {"32", "64"}]
          [] s = "C" -> [loaded : {TRUE}, vault : {Output(0, FALSE), Output(88000, FALSE), Fails}]
          [] s = "D" -> [limited : {TRUE}, history : {4, 5}, model : {TRUE},
                         probability : {30000, 89990}]
          [] s = "F" -> [remark : {Missing}, model : {TRUE}, similarity : {0}]]
MCMetaInputs == [model : {FALSE}, probability : {0}] \cup [model : {TRUE}, probability : {Fails, 38004, 120000}]
MCEnsemble == {0, 61996, 100000}
MCAges == {Missing, 26, 27}
MCContexts == [festival : BOOLEAN, gifting : {TRUE}, daily : {11}, upi : BOOLEAN,
               janDhan : BOOLEAN, senior : BOOLEAN]
MCJitters == {-1000, 0, 999}
-----------------------------------------------------------------------------
vars == <<transfers, snapshot, modelVars, decisionVars>>

Init == MetricsInit /\ SnapshotInit /\ ModelInit /\ DecisionInit

\* Whether a part is still where it starts.
Fresh(metrics, snapshots, models, decision) ==
    /\ metrics => transfers = <<>>
    /\ snapshots => snapshot = Unscored
    /\ models => ModelInit
    /\ decision => DecisionInit

Next ==
    \/ /\ Fresh(FALSE, TRUE, TRUE, TRUE)
       /\ MetricsNext /\ UNCHANGED <<snapshot, modelVars, decisionVars>>
    \/ /\ Fresh(TRUE, FALSE, TRUE, TRUE)
       /\ SnapshotNext /\ UNCHANGED <<transfers, modelVars, decisionVars>>
    \/ /\ Fresh(TRUE, TRUE, FALSE, TRUE)
       /\ ModelNext /\ UNCHANGED <<transfers, snapshot, decisionVars>>
    \/ /\ Fresh(TRUE, TRUE, TRUE, FALSE)
       /\ DecisionNext /\ UNCHANGED <<transfers, snapshot, modelVars>>

Spec == Init /\ [][Next]_vars

ThreadSymmetry == Permutations({t1, t2, t3})

\* The type invariants of the four parts (nightly_batch.py, graph_scorer.py,
\* ensemble.py, pipeline.py).
PartsTypeOK == MetricsTypeOK /\ SnapshotTypeOK /\ ModelTypeOK /\ DecisionTypeOK
=============================================================================
