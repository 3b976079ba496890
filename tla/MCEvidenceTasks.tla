--------------------------- MODULE MCEvidenceTasks ---------------------------
(***************************************************************************)
(* Two requests that score one payment, a retry of each other, and two     *)
(* pool processes; and, apart from them, the connection pool of a uvicorn  *)
(* worker.  The two parts share no state, so a behaviour is one of one     *)
(* part with the other at rest.                                            *)
(***************************************************************************)
EXTENDS EvidenceTasks, ConnectionPool, TLC

CONSTANTS r1, r2, p, w1, w2, c1, c2

BothRequests == {r1, r2}
OneRequest == {r1}
Payment == [r \in Requests |-> p]
Pool == {w1, w2}
CodeRetries == "trail" :> 3 @@ "shap" :> 1

TwoCallers == {c1, c2}
OneCaller == {c1}

PartsVars == <<vars, poolVars>>

PartsInit == Init /\ PoolInit

PartsNext ==
    \/ Next /\ PoolInit /\ UNCHANGED poolVars
    \/ PoolNext /\ Init /\ UNCHANGED vars

\* At rest neither part is owed a step.
PartsSpec == PartsInit /\ [][PartsNext]_PartsVars /\ Fairness /\ PoolFairness

\* The type invariants of the two parts (celery_app.py, postgres_client.py).
PartsTypeOK == TypeOK /\ PoolTypeOK
=============================================================================
