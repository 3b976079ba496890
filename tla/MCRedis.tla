------------------------------ MODULE MCRedis ------------------------------
(***************************************************************************)
(* The two parts of Redis that expire.  They share no state, so a          *)
(* behaviour is one of one part with the other at rest: the states of the  *)
(* parts add up instead of multiplying.                                    *)
(***************************************************************************)
EXTENDS VelocityWindows, FeatureCache, TLC

CONSTANTS p1, p2, q1, q2, acct, betweenness, micro

MCPayments == {p1, p2}
MCAmounts == p1 :> 1 @@ p2 :> 2
MCReaders == {q1, q2}
MCLength == "1h" :> 2 @@ "24h" :> 3
MCExpiry == "1h" :> 3 @@ "24h" :> 4

MCAccounts == {acct}
MCPatchers == {betweenness, micro}

RedisVars == <<windowVars, cacheVars>>

RedisInit == WindowInit /\ CacheInit

RedisNext ==
    \/ WindowNext /\ CacheInit /\ UNCHANGED cacheVars
    \/ CacheNext /\ WindowInit /\ UNCHANGED windowVars

RedisSpec == RedisInit /\ [][RedisNext]_RedisVars

\* Nothing tells the two patching jobs apart.
PatchSymmetry == Permutations({betweenness, micro})

\* The type invariants of the two parts (redis_client.py, nightly_batch.py).
RedisTypeOK == WindowTypeOK /\ CacheTypeOK
=============================================================================
