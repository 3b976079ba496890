---------------------------- MODULE FeatureCache ----------------------------
(***************************************************************************)
(* The graph features of an account in Redis (feat:{account}), its PC-GNN  *)
(* embedding (gnn_emb:{account}), and the Celery jobs that write them: the *)
(* nightly batch writes a whole hash with an expiry, the two-hourly        *)
(* betweenness job and the five-minute micro-batch patch fields of a hash  *)
(* they have just seen, the refresh embeds recent accounts.  The graph     *)
(* workers run them side by side.                                          *)
(*                                                                         *)
(* A value stands for its provenance: the time of the query behind it.     *)
(***************************************************************************)
EXTENDS Integers, FiniteSets

CONSTANTS
    Accounts,
    Patchers,     \* the betweenness job and the micro-batch; also their fields
    Lifetime,     \* expiry of a hash: 26 h
    EmbLifetime,  \* expiry of an embedding: 25 h
    RunLimit,     \* hard limit of a task: 20 min
    LastHour,     \* bound on the clock
    MaxRuns,      \* bound on the nightly batches
    Communities,  \* whether Leiden finds any
    None

VARIABLES
    clock,
    feat,      \* feat[a][f]: the query behind field f of a's hash, or None
    stamp,     \* stamp[a]: _last_updated in a's hash, or None
    dies,      \* dies[a]: when a's hash expires, or None for never
    emb,       \* emb[a]: a's PC-GNN embedding
    nightly,   \* the batch: its stage, its query, its time, the accounts left
    runs,      \* batches started
    patch,     \* patch[j]: the run of patcher j
    refresh,   \* the run of the embedding refresh
    leiden     \* leiden:deployed

cacheVars == <<clock, feat, stamp, dies, emb, nightly, runs, patch,
               refresh, leiden>>

ASSUME CacheAssumption ==
    /\ Lifetime \in Nat /\ EmbLifetime \in Nat \ {0} /\ RunLimit \in Nat \ {0}
    /\ EmbLifetime + RunLimit <= Lifetime
    /\ LastHour \in Nat /\ MaxRuns \in Nat /\ Communities \in BOOLEAN
    /\ None \notin Int
    /\ "core" \notin Patchers

\* "core" stands for the fields only the batch writes.
Fields == {"core"} \cup Patchers

Present(a) == \E f \in Fields : feat[a][f] # None

NoHash == [f \in Fields |-> None]
NoEmbedding == [by |-> "none", batch |-> None, core |-> None, dies |-> 0]
NoBatch == [stage |-> "idle", began |-> 0, stamp |-> 0, todo |-> {}, read |-> <<>>]
NoPatch == [stage |-> "idle", began |-> 0, todo |-> {}, at |-> None]
NoRefresh == [stage |-> "idle", began |-> 0, read |-> <<>>]

Running(job) == job.stage # "idle"

\* Every task is killed when it has run for RunLimit.
WithinLimits ==
    /\ Running(nightly) => clock < nightly.began + RunLimit
    /\ \A j \in Patchers : Running(patch[j]) => clock < patch[j].began + RunLimit
    /\ Running(refresh) => clock < refresh.began + RunLimit

Hour ==
    /\ clock < LastHour
    /\ WithinLimits
    /\ clock' = clock + 1
    /\ LET gone(a) == dies[a] # None /\ dies[a] <= clock'
       IN  /\ feat' = [a \in Accounts |-> IF gone(a) THEN NoHash ELSE feat[a]]
           /\ stamp' = [a \in Accounts |-> IF gone(a) THEN None ELSE stamp[a]]
           /\ dies' = [a \in Accounts |-> IF gone(a) THEN None ELSE dies[a]]
    /\ emb' = [a \in Accounts |->
                  IF emb[a].dies <= clock' THEN NoEmbedding ELSE emb[a]]
    /\ UNCHANGED <<nightly, runs, patch, refresh, leiden>>
-----------------------------------------------------------------------------
\* Beat at three o'clock, or the one retry of a failed batch: two queries; no
\* accounts, or a failed query, and the batch ends here.
StartNightly ==
    /\ ~Running(nightly)
    /\ runs < MaxRuns
    /\ runs' = runs + 1
    /\ \E todo \in SUBSET Accounts \ {{}} :
           nightly' = [stage |-> "computing", began |-> clock, stamp |-> 0, todo |-> todo,
                      read |-> <<>>]
    /\ UNCHANGED <<clock, feat, stamp, dies, emb, patch, refresh, leiden>>

\* The metrics are done: now_ts is read once, for every account.
Computed ==
    /\ nightly.stage = "computing"
    /\ nightly' = [nightly EXCEPT !.stage = "writing", !.stamp = clock]
    /\ UNCHANGED <<clock, feat, stamp, dies, emb, runs, patch, refresh, leiden>>

\* Variant of WriteAccount: the hash lives no longer than an embedding.
WriteAccountForADay(a) ==
    /\ nightly.stage = "writing"
    /\ a \in nightly.todo
    /\ nightly' = [nightly EXCEPT !.todo = @ \ {a}]
    /\ feat' = [feat EXCEPT ![a] = [f \in Fields |-> nightly.began]]
    /\ stamp' = [stamp EXCEPT ![a] = nightly.stamp]
    /\ dies' = [dies EXCEPT ![a] = clock + EmbLifetime]
    /\ UNCHANGED <<clock, emb, runs, patch, refresh, leiden>>

\* set_graph_features: HSET of every field and EXPIRE in one MULTI.
WriteAccount(a) ==
    /\ nightly.stage = "writing"
    /\ a \in nightly.todo
    /\ nightly' = [nightly EXCEPT !.todo = @ \ {a}]
    /\ feat' = [feat EXCEPT ![a] = [f \in Fields |-> nightly.began]]
    /\ stamp' = [stamp EXCEPT ![a] = nightly.stamp]
    /\ dies' = [dies EXCEPT ![a] = clock + Lifetime]
    /\ UNCHANGED <<clock, emb, runs, patch, refresh, leiden>>

\* A failed write is counted and the next account is written.
WriteAccountFails(a) ==
    /\ nightly.stage = "writing"
    /\ a \in nightly.todo
    /\ nightly' = [nightly EXCEPT !.todo = @ \ {a}]
    /\ UNCHANGED <<clock, feat, stamp, dies, emb, runs, patch, refresh, leiden>>

\* The flag is set when Leiden found communities, and never cleared.
AccountsWritten ==
    /\ nightly.stage = "writing"
    /\ nightly.todo = {}
    /\ nightly' = [nightly EXCEPT !.stage = "embedding"]
    /\ leiden' = (leiden \/ Communities)
    /\ UNCHANGED <<clock, feat, stamp, dies, emb, runs, patch, refresh>>

\* The hashes of the accounts, as an embedding job reads them.
ReadHashes(S) == [a \in S |-> feat[a]["core"]]

\* One pipeline writes the embeddings made from what was read; an account
\* without a hash has an embedding of zeros.
Embedded(read, by, batch) ==
    [a \in Accounts |->
        IF a \in DOMAIN read
        THEN [by |-> by, batch |-> batch, core |-> read[a], dies |-> clock + EmbLifetime]
        ELSE emb[a]]

\* Every account with a transfer in the batch's graph.
ReadBack ==
    /\ nightly.stage = "embedding"
    /\ \E nodes \in SUBSET Accounts :
           nightly' = [nightly EXCEPT !.stage = "saving", !.read = ReadHashes(nodes)]
    /\ UNCHANGED <<clock, feat, stamp, dies, emb, runs, patch, refresh, leiden>>

SaveEmbeddings ==
    /\ nightly.stage = "saving"
    /\ nightly' = NoBatch
    /\ emb' = Embedded(nightly.read, "nightly", nightly.began)
    /\ UNCHANGED <<clock, feat, stamp, dies, runs, patch, refresh, leiden>>

\* An exception or one of the limits ends the batch where it stands.
NightlyStops ==
    /\ Running(nightly)
    /\ nightly' = NoBatch
    /\ UNCHANGED <<clock, feat, stamp, dies, emb, runs, patch, refresh, leiden>>
-----------------------------------------------------------------------------
\* The job queries the transfers and goes through the accounts with one.
StartPatch(j) ==
    /\ ~Running(patch[j])
    /\ \E todo \in SUBSET Accounts \ {{}} :
           patch' = [patch EXCEPT ![j] =
                        [stage |-> "check", began |-> clock, todo |-> todo, at |-> None]]
    /\ UNCHANGED <<clock, feat, stamp, dies, emb, nightly, runs, refresh, leiden>>

Done(job, a) ==
    IF job.todo = {a} THEN NoPatch
    ELSE [job EXCEPT !.stage = "check", !.todo = @ \ {a}, !.at = None]

\* EXISTS: an account without a hash is passed over.
CheckAccount(j, a) ==
    /\ patch[j].stage = "check"
    /\ a \in patch[j].todo
    /\ patch' = [patch EXCEPT ![j] =
                    IF Present(a) THEN [@ EXCEPT !.stage = "put", !.at = a]
                    ELSE Done(@, a)]
    /\ UNCHANGED <<clock, feat, stamp, dies, emb, nightly, runs, refresh, leiden>>

\* Variant of PatchAccount: the hash is marked as updated.
PatchAndStamp(j, a) ==
    /\ patch[j].stage = "put"
    /\ patch[j].at = a
    /\ feat' = [feat EXCEPT ![a][j] = patch[j].began]
    /\ stamp' = [stamp EXCEPT ![a] = clock]
    /\ patch' = [patch EXCEPT ![j] = Done(@, a)]
    /\ UNCHANGED <<clock, dies, emb, nightly, runs, refresh, leiden>>

\* HSET of the job's own fields.  When the hash has expired since EXISTS, it
\* comes back with these fields only, and without an expiry.
PatchAccount(j, a) ==
    /\ patch[j].stage = "put"
    /\ patch[j].at = a
    /\ feat' = [feat EXCEPT ![a][j] = patch[j].began]
    /\ patch' = [patch EXCEPT ![j] = Done(@, a)]
    /\ UNCHANGED <<clock, stamp, dies, emb, nightly, runs, refresh, leiden>>

\* Redis fails, or a limit is reached: the rest is left for the next run.
PatchStops(j) ==
    /\ Running(patch[j])
    /\ patch' = [patch EXCEPT ![j] = NoPatch]
    /\ UNCHANGED <<clock, feat, stamp, dies, emb, nightly, runs, refresh, leiden>>
-----------------------------------------------------------------------------
\* The recent accounts; their hashes are read before the model runs.
StartRefresh ==
    /\ ~Running(refresh)
    /\ \E recent \in SUBSET Accounts \ {{}} :
           refresh' = [stage |-> "read", began |-> clock,
                       read |-> ReadHashes(recent)]
    /\ UNCHANGED <<clock, feat, stamp, dies, emb, nightly, runs, patch, leiden>>

WriteRefresh ==
    /\ Running(refresh)
    /\ emb' = Embedded(refresh.read, "refresh", None)
    /\ refresh' = NoRefresh
    /\ UNCHANGED <<clock, feat, stamp, dies, nightly, runs, patch, leiden>>

RefreshStops ==
    /\ Running(refresh)
    /\ refresh' = NoRefresh
    /\ UNCHANGED <<clock, feat, stamp, dies, emb, nightly, runs, patch, leiden>>
-----------------------------------------------------------------------------
\* What a request is given: build_features reads the hash and derives its age
\* from _last_updated.
Staleness(a) == IF stamp[a] = None THEN None ELSE clock - stamp[a]

CacheInit ==
    /\ clock = 0
    /\ feat = [a \in Accounts |-> NoHash]
    /\ stamp = [a \in Accounts |-> None]
    /\ dies = [a \in Accounts |-> None]
    /\ emb = [a \in Accounts |-> NoEmbedding]
    /\ nightly = NoBatch
    /\ runs = 0
    /\ patch = [j \in Patchers |-> NoPatch]
    /\ refresh = NoRefresh
    /\ leiden = FALSE

CacheNext ==
    \/ Hour
    \/ StartNightly \/ Computed \/ AccountsWritten
    \/ ReadBack \/ SaveEmbeddings \/ NightlyStops
    \/ \E a \in Accounts : WriteAccount(a) \/ WriteAccountFails(a)
    \/ \E j \in Patchers :
           \/ StartPatch(j) \/ PatchStops(j)
           \/ \E a \in Accounts : CheckAccount(j, a) \/ PatchAccount(j, a)
    \/ StartRefresh \/ WriteRefresh \/ RefreshStops

CacheSpec == CacheInit /\ [][CacheNext]_cacheVars
-----------------------------------------------------------------------------
Hours == 0..LastHour
Maybe(S) == S \cup {None}

IsRead(read) ==
    DOMAIN read \subseteq Accounts /\ \A a \in DOMAIN read : read[a] \in Maybe(Hours)

CacheTypeOK ==
    /\ clock \in Hours /\ runs \in 0..MaxRuns /\ leiden \in BOOLEAN
    /\ feat \in [Accounts -> [Fields -> Maybe(Hours)]]
    /\ stamp \in [Accounts -> Maybe(Hours)]
    /\ dies \in [Accounts -> Maybe(0..(LastHour + Lifetime))]
    /\ \A a \in Accounts :
           /\ emb[a].by \in {"none", "nightly", "refresh"}
           /\ emb[a].batch \in Maybe(Hours) /\ emb[a].core \in Maybe(Hours)
           /\ emb[a].dies \in 0..(LastHour + EmbLifetime)
    /\ nightly.stage \in {"idle", "computing", "writing", "embedding", "saving"}
    /\ nightly.began \in Hours /\ nightly.stamp \in Hours
    /\ nightly.todo \subseteq Accounts /\ IsRead(nightly.read)
    /\ \A j \in Patchers :
           /\ patch[j].stage \in {"idle", "check", "put"}
           /\ patch[j].began \in Hours
           /\ patch[j].todo \subseteq Accounts /\ patch[j].at \in Maybe(Accounts)
    /\ refresh.stage \in {"idle", "read"}
    /\ refresh.began \in Hours /\ IsRead(refresh.read)

\* The age the model is told (graph_staleness_hours) is the age of every field
\* it gets with it, to within the length of a job: whatever the jobs
\* overwrite of each other, a hash with an age is complete and is gone a
\* lifetime after its batch, and one without has nothing of a batch: only what
\* a patch wrote into an expired key stays (feature_builder.py:34-41,
\* redis_client.py:129, nightly_batch.py:595).
StalenessHonest ==
    \A a \in Accounts :
        IF Staleness(a) = None THEN feat[a]["core"] = None
        ELSE /\ \A f \in Fields : /\ feat[a][f] # None
                                  /\ clock - feat[a][f] <= Staleness(a) + RunLimit
             /\ dies[a] # None /\ clock - feat[a]["core"] <= Lifetime + RunLimit

\* An embedding the batch made from what it had written is never all that
\* Scorer B finds: the hash it was made from, or a later one, outlives it
\* (gnn_embedder.py:41, redis_client.py:129).
EmbeddingBacked ==
    \A a \in Accounts :
        emb[a].by = "nightly" /\ emb[a].core = emb[a].batch =>
            feat[a]["core"] # None /\ feat[a]["core"] >= emb[a].core
=============================================================================
