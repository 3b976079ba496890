# Formal model of the fraud-detection service

TLA+ specifications, TLC model-checking runs and TLAPS proofs for the service in
this repository: a FastAPI application that scores payments, raises alerts,
collects the verdicts of investigators and learns prototypes from them, with
PostgreSQL, Redis, Celery, Memgraph and two vault files shared by several
uvicorn worker processes. `PROJECT.json` lists the components, the runs, the
source lines behind every definition, the hazards and the theorems.

Paths below are relative to the repository root.

## 1. Inventory

| Component | State | Operations | What is hard |
|---|---|---|---|
| Score request handler (`app/api/v1/score.py`) | one SQL session per request; `accounts`, `transactions`, `fraud_scores`, `alerts`, `model_audit` | `POST /score`: upsert, pipeline, stage rows, audit + commit, velocity, SHAP, discovery, padding sleep | blocking SQL on an event loop, row locks, retries of one payment, failure or crash between any two steps |
| Audit logger (`app/utils/audit_logger.py`) | `model_audit` | one `log_*` function per event; two of them commit the caller's session | who commits what; "no silent audit skips" |
| Detection pipeline (`app/detection/pipeline.py`) | none of its own | six exits: canary, FAST_CLEAN, gate, UNCERTAIN, ensemble, and an exception | swallowed SQL errors inside a transaction that others go on using |
| Tier 2 gates, legitimacy filter (`app/detection/tier2`) | reads Redis, Memgraph, PostgreSQL | the gates in turn, each with `try/except` | a swallowed SQL error aborts the request's transaction; order and thresholds |
| Committee (`app/detection/tier3`) | mode switch; `shadow_score_committee` | live: scores and audits in the request; shadow: a thread with its own session | the thread races its request's commit |
| Prototype vault (`app/detection/tier3/prototype_vault.py`) | FAISS index, label array, two files | `load`, `score`, `inject_prototype`, `_evict_oldest` | two parallel arrays and two files, changed one after the other, read without a lock, written by every worker |
| Feedback (`app/api/v1/feedback.py`, `app/detection/feedback/feedback_router.py`) | `alerts.status`, `feedback_log`, curated rows, candidates, registry | `POST /feedback` with a fraud and a clean route, sealing, red-team notice | routing errors are swallowed in mid-transaction; outside effects precede the commit |
| Developer queue (`app/api/v1/developer_queue.py`) | `scorer_c_candidates`, vault | inject, reject | check-then-act across workers, vault and table in different stores |
| Evidence tasks (`app/evidence/trail_builder.py`, `app/detection/tier3/shap_explainer.py`, `app/celery_app.py`) | trail and SHAP rows, dead-letter list | Celery tasks with retries and late acknowledgement | redelivery, tasks that run before their alert is visible |
| Discovery (`app/detection/novelty`, `app/api/v1/novelty.py`) | novelty queue, occurrence counters | background ensemble, queue review | counters and deduplication under concurrency |
| Evidence package, alert endpoint (`app/evidence`, `app/api/v1/alert.py`) | none | `GET /alerts/{id}` assembles alert, score and trail | what it makes of evidence that is not there yet, or is |
| Velocity windows (`app/utils/redis_client.py`) | sorted sets with an expiry | increment, three readers that trim | clocks read before the command is executed, trimming by whoever reads |
| Feature cache and graph batches (`app/graph/precompute`, `app/graph/tasks.py`, `app/graph/gnn_embedder.py`) | `feat:{account}`, `gnn_emb:{account}` | nightly batch, two-hourly and five-minute patches, embedding refresh | four writers, expiry between a test and a write, time limits |
| Decision functions (`app/detection/scoring`, `tier1`, `context`) | none | Tier 1 classes, context factors, jitter, thresholds, rounding | numeric edges, factors that multiply |
| Posted-graph analysis (`app/detection/graph_scorer.py`, `app/api/v1/analyze_graph.py`) | none | `POST /analyze-graph` | nine signals over one graph; first match wins |
| Model loading and rollback (`app/detection/tier3/ensemble.py`, `app/api/v1/model_admin.py`) | process globals | load, roll back | reset of three globals beside lock-free readers |
| Connection pool (`app/utils/postgres_client.py`) | 10 + 20 connections | checkout, return | a blocking checkout on the event loop |
| Graph queries, compliance stubs, authentication, metrics, health, training scripts | none, or external | reads, formatting, offline work | not concurrent, or pure I/O |

How they interact. `POST /score` calls the pipeline in its own process and SQL
session, hands work to Celery (trail, SHAP) and to threads (committee shadow,
discovery), and leaves alerts behind. `POST /feedback` moves an alert to a
verdict and creates candidates; the developer queue moves a candidate into the
vault, which the committee reads on later scores. PostgreSQL is the only
synchronisation between workers; the vault's files have none. Redis connects
the jobs of the graph workers to the requests: what they wrote under an expiry
is what the feature builder and Scorer B find.

What makes each component correct: a decision is durable as a whole, with its
audit record, before anybody acts on it (score); labels belong to their vectors
(vault); a verdict and what it was routed to stand or fall together, and only
confirmed, reviewed frauds become fraud prototypes (feedback, queue); retries
end and lose nothing (tasks); what can be found can be read (alerts); a window
holds every payment that still counts (velocity); the age that comes with a
feature is its age, whoever overwrote it (cache); features do not depend on the
order of rows (graph); score and action agree (decision); models are loaded once
(models); what is novel is queued (discovery).

## 2. Modules

| Module | Models | Role |
|---|---|---|
| `ScoreLedger` | what `POST /score` promises | abstract specification |
| `ScoreRequest` | `POST /score`, its session, locks, effects, errors, crashes | detailed specification; implements `ScoreLedger` |
| `PrototypeVault` | Scorer C's vault in every worker, and its two files | detailed specification |
| `CaseReview` | `POST /feedback`, inject and reject | composes alert, feedback router, developer queue, and the vault as a set |
| `EvidenceTasks` | trail and SHAP tasks, their queue and pool, `GET /alerts/{id}` | composes the evidence side of the score handler, Celery and the reader |
| `ConnectionPool` | the SQL connections of one worker | detailed specification |
| `VelocityWindows` | the sliding windows of one account | detailed specification, judged against the history of payments |
| `FeatureCache` | feature hash, embedding, four jobs, expiry | detailed specification |
| `GraphMetrics` | what the batches compute from the transfers | operators over the rows, which are its state |
| `GraphScorer` | `POST /analyze-graph` | operators over the snapshot, which is its state |
| `Reachability` | who reaches whom, as networkx answers | one operator, used by both |
| `ModelCache` | the globals of the single model, loader and rollback | detailed specification |
| `Committee` | the scorers' answers and how they become a score | operators, used by `Decision` |
| `Decision` | the pipeline from payment to answer | detailed specification of what `ScoreRequest` takes as a choice |
| `Discovery` | hand-off, router, queue, review | detailed specification |
| `ScoreRequestProofs`, `PrototypeVaultProofs`, `CaseReviewProofs` | the module they are named for | theorems |
| `EvidenceTasksProofs` | `EvidenceTasks`, `ConnectionPool` | theorems |
| `RedisProofs` | `VelocityWindows`, `FeatureCache` | theorems |
| `DecisionProofs` | `Decision`, `ModelCache`, and the types of the parts of `MCDecision` | theorems |
| `GraphProofs` | `GraphMetrics`, `GraphScorer` | theorems |
| `FoldLemmas` | folds over finite sets | the lemmas about data the other proofs rest on |
| `MCScoreRequest`, `MCPrototypeVault`, `MCCaseReview`, `MCEvidenceTasks`, `MCDiscovery` | | values for TLC |
| `MCRedis`, `MCDecision` | `VelocityWindows` and `FeatureCache`; the four parts that compute | values for TLC, several parts in one run |

Operators whose comment begins "Variant of" are plausible bugs of the operator
they name (a missing guard, a swapped order); `PROJECT.json` "mutants" says
which property each of them breaks. They are not part of any specification.

### ScoreRequest

A request is a program counter `pc[r]`; a step of the handler that changes state
is an action. `tx`, `held` and `staged` are its session: whether a transaction
is open or aborted, which keys it inserted and has not committed (the row
locks), and which ORM rows it added. `rows` and `table` are the committed
database. The other variables are what the request leaves outside of it:
`counted` (velocity windows), `trailTasks`, `shapTasks`, `discovery`, `shadow`.

- `Accept`: a worker whose loop is free takes a request. A repeated payment is
  another request with the same `TransactionOf`.
- `UpsertRow`, once per account and then the transaction: `INSERT ... ON CONFLICT
  DO NOTHING` waits for an open transaction that inserted the same key.
  `DeadlockVictim` is PostgreSQL's choice on a cycle of waits.
- `RunPipeline`, `RunPipelineGateError`, `PipelineRaises`: the exits of
  `run_pipeline`. Which exit is open, because the scores are trained models.
  A gate's SQL error is swallowed and leaves the transaction aborted; in live
  mode the committee's audit flush is the first statement to notice.
- `StageRows`: score row, alert row, trail task (sent *before* the commit).
- `LogScoreEvent`, `LogScoreEventFails`: the audit row and the commit.
- `IncrementVelocity`, `Dispatch`, `Respond`, and the failures of each.
- `StartClose`, `CloseSession`, `AnswerError`: the exit of `get_db` after an
  exception, in three steps because its `close` runs in a thread that the event
  loop has to start.
- `WriteShadowRow`: only the foreign key's verdict on the shadow row.
- `Crash`: a worker dies, the database rolls its sessions back.

`LoopFree` says that a worker runs one handler at a time between two awaits. It
is what makes most interleavings impossible and what makes a blocked SQL
statement stop a whole worker.

### PrototypeVault

`index[w]` and `labels[w]` are the two arrays of worker `w`, the files their
persisted form. Injection is taken apart into the statements a reader can see:
labels shortened, index rebuilt, vector added, label added, first file written,
second file written. Any of them may raise; `inject_prototype` then returns False
and undoes nothing. `InjectionFails` ends an injection among the first four
steps (a failure before the labels are shortened changes nothing and is no step),
`WriteFails` among the writes. A write is not atomic: a crash or an error leaves `Torn`,
and of two workers that write the same file at once, each leaves its own content
or a mixture, which is `Torn` too. `score()` is `Search` and `ReadLabels`, without a lock.
`halved` (a failure between the two arrays), `misloaded`, `tainted` and `overtaken`
are history variables which the properties use to say exactly *when* the arrays
may disagree. A restart gives the worker a new memory: what is recorded of it, and
of the scores it gave, is dropped.

### CaseReview

Handlers contain no await, so one worker runs one at a time and only the
statements of different workers interleave. `log` keeps the commit order of
verdicts. `seen[f]` is the status the handler loaded: SQLAlchemy sends no UPDATE
when a handler assigns the value that it loaded. `RoutingFails` and
`RoutingAuditFails` are the swallowed errors of the router; the transaction is
aborted and the handler goes on to seal evidence and notify the red team
(`Announce`) before its commit fails. Abstractions: the vault is a set here
(no eviction, no separate labels, two files as one: what a failure between the
arrays does to labels is in `PrototypeVault`); an inject request that meets an
unavailable vault, or fails before its vector is added, gets a 503 and changes
nothing of this, so vaults are loaded throughout; only
whether two alerts share a fingerprint matters, not its value.

### EvidenceTasks

The handler of `ScoreRequest` reduced to what evidence depends on: `Stage` sends
the trail task before the commit, `Commit`, `DispatchShap` after it, and
`HandlerFails` in between. `queue[m]` counts the copies of a message, which
carries the retries it has had; it is a bag, because the countdowns of retries
put no bound on the order. A pool process `Take`s a message and holds it
unacknowledged until `Acknowledge`; between the two the task does one of the
things it can do (`Explain`, `ExplainNothing`, `ModelRejects`, `ExplainWithoutModel`,
`ExplanationNotStored`, `ShapRaises`, `ShapTimesOut`, `TrailRaises`). Two outcomes give
no explanation although nothing fails. A canary's score counts as one of Tier 3 but
has no feature vector: `compute_shap` is sent an empty one, and stores an empty list
or raises (`ExplainNothing`). And the booster must have been trained on at least the
features it is given: `fits` is chosen once per behaviour. It is false in shadow
mode with the model of `ml/train.py`, which learns the 69 of `FEATURE_NAMES_V2`, while
`build_features` returns 72; it is true of live mode, whose Scorer A learns
more. Where it is false every attempt raises (`ModelRejects`). `Retry` is Celery's: the next
message is published *before* the exception ends the attempt, so that a process
that dies in between (`WorkerLost`) leaves two. The tracers of
`trail_builder.py` take two arguments and are given one: every attempt at a
trail raises, and the code after them is not modelled because it is not reached.
`GetAlert` is what the alert endpoint answers; it picks one of the payment's
score rows, as the query without an order does.

### ConnectionPool

One uvicorn worker. `step[c]` follows the handler through its uses of the SQL
session; a session takes a connection at its first statement (`CheckOut`), gives it
back at the commit, and with a Tier 3 score takes one again, because
`fraud_score_row.id` has to be reloaded, and keeps it while it is padded. The
handler holds the loop in all of `HoldsLoop`, waiting for a connection included;
a padded request needs the loop to go on (`Leave`, `Answer`). `thread[x]` are the
shadow and discovery threads with sessions of their own. SQLAlchemy's default
`pool_timeout` is `CheckOutTimesOut`: without it `EveryoneServed` would be false
in this model, as the loop would wait for a connection whose holder waits for
the loop.

### VelocityWindows and FeatureCache

In `VelocityWindows` a caller reads its clock (`StampPayment`, `StampReader`) and
its MULTI is executed up to `Lag` later (`Increment`, `Read`); several do so at
once. `exact[q]` collects what was true between the two, as a history variable.

In `FeatureCache` a field holds the time of the query it was computed from, so
that the age of what a reader is given can be compared with the age it is told
(`Staleness`). The nightly batch reads its queries (`StartNightly`), takes one
time stamp (`Computed`), writes account by account, each perhaps failing, then
reads the hashes back and writes the embeddings. A patching job tests that a hash
exists (`CheckAccount`) and writes its fields afterwards (`PatchAccount`), when
the hash may have expired. `Hour` is the clock: it drops what has expired and
cannot pass the hard limit of a running task. Every job may stop anywhere.

### GraphMetrics and GraphScorer

Their state is their input, and a step adds one row, so that TLC goes through
every sequence of rows up to a length. Graph questions use the community module
Graphs, and `Reachability` in place of its matrix of connections, which nothing
can be proved about. The definitions are those of the code (the components of
`_detect_cycle_membership`, the loops over rows); the properties compare them
with independent definitions (simple cycles as sets of edges), with the rows in
reverse, and with each other.

### ModelCache

One step per statement that reads or writes one of the three globals. A loader
holds `_load_lock`; the rollback endpoint and the users of the models do not.
As deployed, one thread of a process loads and uses the models (the event loop, or
a Celery process), and the endpoint, a plain function, runs in another. `Threads`
may be more, which is what the lock and its second check are written for.
`"empty"` is the `Booster()` that is in the global before its file is read.
A rollback names a file whose stored hash must be the one it has (`Verified`).

### Committee and Decision

`Committee` has one operator per scorer, with `Missing` and `Fails` for a value
that is not there and a call that raises, and the override, the meta-learner and
the fallback mean. `Decision` has one action per check or call of `run_pipeline`;
the figures a gate's query returns are its input, the condition on them is the
gate. `aborted` is the request's SQL transaction, which a swallowed error leaves
unusable: the gates and the fourth scorer, which share it, then fail too. Scores are
integers in units of 1/100000: products of percentages are truncated to that
unit, which moves a score by less than the rounding of the answer does. The
thresholds of the actions are settings of the service; `Decision` has their defaults.

### Discovery

Threads of the handler's executor route what passed and looks novel, which it is
(`Novel`) when the isolation forest is loaded and scores it below -0.20:
`CountPattern`, `LookUp` in the registry of benign patterns, `Insert`,
`Escalate`. `Earlier` are payments that have a row already. Fingerprints are
taken apart into the pattern and whether its features have at most two
decimals, which is when router (two decimals) and feedback router (three) agree.

### Parts in one run

`MCRedis`, `MCDecision` and `MCEvidenceTasks` check several modules in one run. The parts share no
variable, so each behaviour moves one part while the others rest at their initial
state: their states add up. Nothing is lost, as no property relates two of
these parts.

## 3. Runs

The instances use two workers, because every interaction between processes in
this code is pairwise (three threads for the model globals, more than a process of
today's deployment has, so that one waits for the lock while another loads and the
third uses).

| Run | Instance | Shows |
|---|---|---|
| `score` | three requests of which any two are sent (r1 and its retry r2 carry a payment from a to b, r3 one from b to a), live and shadow mode, one failure, one crash | `DurableTogether`, `ParentRowsExist`, `OkMeansRecorded`, `EffectsFollowRecord`, `AlertHasTrailTask`, `LocksNeverCrossAwait`, and that `ScoreRequest` implements `ScoreLedger` (`LedgerSpec`) |
| `score_liveness` | two opposite payments, live mode, one failure, one crash, `FairSpec` | `AnsweredUnlessStranded` |
| `vault` | a full vault (cap 2) with a benign and a fraud prototype, three injections of any of them or of a third, two failures or crashes, one score | `SizeBounded`, `MemoryAligned`, `FilesAligned`, `WrongScoreNeedsEviction` |
| `case_review` | three feedbacks on two alerts with one fingerprint, two reviews, two failures, one crash | `RoutedTogether`, `StatusFollowsFeedback`, `VaultHoldsConfirmedFraud`, `AuditExplainsStatus`, `SerialReviewsDecideOnce` |
| `evidence` | one request of any outcome, with a model that fits its vector or does not, two pool processes, two failures, one death, three retries of a trail and one of SHAP as in the code; two requests, their threads and one connection; fairness of both | `NoTaskLost`, `AttemptsBounded`, `WithdrawnOnlyByRedelivery`, `EventuallyExplained`, `TasksSettle`, `EveryoneServed` |
| `redis` | two payments, two readers, two windows; one account, two patching jobs, two batches | `WindowComplete`, `AnswerTimely`, `StalenessHonest`, `EmbeddingBacked` |
| `decision` | four transfers of eleven kinds among five accounts; snapshots of up to six edges; three threads, three calls, one rollback; payments and inputs on both sides of each limit | `OrderIrrelevant`, `CyclesFound`, `FiguresAgree`, `FraudStands`, `LoadedOnce`, `OverrideNeverPasses`, `ActionMatchesScore` |
| `score_error_answered`, `score_shadow_row`, `case_reinjection`, `evidence_readable`, `discovery_queued` | small instances | a statement of the repository that the code does not keep (section 6) |

Why the bounds suffice to see the interesting cases. Two concurrent score
requests with common rows meet on payer, payee and transaction in both orders
(retry: the same order; opposite payment: the reverse one, hence deadlocks); a
third would add a longer queue for the same lock but no new kind of wait. One
failure of any service at any step, combined with a crash, covers each error
path against each stage of the other request. In the vault, injections into
a full vault of two give an eviction each and every overlap of two persists; with
three, a vault that lost a label goes through two more. Two failures allow a torn
file, or one that a halved vault wrote, and then a restart that meets it. In the case
review, three feedbacks allow two verdicts on one alert around a third, and two
reviews are enough for a check-then-act race.

In `evidence` one request has every kind of task, and one death is enough to
double a series of retries; two failures allow one in the first delivery and one
in the second. Faults of two requests do not meet: tasks touch one row each. The
pool has one connection for two requests and four threads: a parked request fills
it, as thirty fill the real one, and any thread can take it in between. In
`redis` the units are small ones: the windows last two and three units with an
expiry one longer, where the code has 3600 and 86400 s with 3700 and 86500 s; the
lag of one unit is the margin between the two, which is all that matters
(`WindowAssumption`). A hash lives two units, an embedding one, a job at most
one; `CacheAssumption` states the inequality of the code's 26 h, 25 h and 20 min.
In `decision` four transfers make parallel edges, cycles of two and three,
self-transfers and a collector of four; the snapshots start near each signal's
limit; three calls with one rollback let the rollback fall into every statement
of a load. The inputs of the pipeline are values next to each comparison, and
those the current schema can deliver: no payment has UPI session features or a
remark.

Symmetry: workers are interchangeable everywhere; r1 and r2 carry the same
payment; the reviews, and the feedbacks, are interchangeable (a feedback chooses
its alert when it is sent). The vault's scores and prototypes are not permuted.
The two patching jobs of `redis` and the threads of `decision` are
interchangeable; `FraudStands` compares the two states of one step and mentions
no thread. `score_liveness` and `evidence` have liveness properties and use no
symmetry.

Deadlock checking is off: requests, reviews, injections, clocks and inputs are bounded, so each
system stops when all of them have finished, and in `ScoreRequest` a worker
really can stop for good (`score_error_answered`).

Fairness. `FairSpec` assumes weak fairness of each accepted request's next step
and of each shadow thread: the event loops, the thread pool and PostgreSQL keep
running, and their schedulers are not starving anybody. Weak fairness is enough:
a request that waits for a lock need not be served while the lock is held, and
nothing keeps taking it. Neither the arrival of requests nor a crash is fair:
callers owe nothing, and no liveness depends on a crash. The specifications of
the vault and of the case review have no liveness property, so no fairness.

`EvidenceTasks` assumes weak fairness of the handler's own steps and of what a pool
process does of itself: take a message, run it, acknowledge it. A process that
dies is replaced by Celery's pool, so the same process goes on. Failures,
deaths, arrivals and readers are not fair. `EventuallyExplained` holds on any
number of deaths within the bound, and says nothing once something else has
failed, because the code itself gives up then. It is about scores with a feature
vector that the model takes: the others are never explained.
`ConnectionPool` assumes weak fairness of each accepted request and each thread:
the loop is not starved, a thread in the middle of its transaction ends it, and
the pool's timer runs out. Arrivals, failures and the start of threads are not fair.

## 4. Proofs

Every invariant and action property of the passing runs is proved for every value
of the constants, under the modules' named assumptions:
`RequestAssumption`, `VaultAssumption`, `CaseAssumption`, `EvidenceAssumption`,
`PoolAssumption`, `WindowAssumption`, `CacheAssumption`, `ModelAssumption`,
`MetricsAssumption`, `SnapshotAssumption` and `DecisionAssumption`. They give the
types of the constants, say that distinct kinds of ids are distinct, that
accounts and rows are finitely many, and state the inequalities between times that
the code's constants satisfy: a call is delayed by less than the length of a
window, a velocity key outlives its window by that delay, a hash outlives an
embedding by the length of a job. The weights, thresholds and factors of
`Committee` and `Decision` are the code's figures, and the proofs compute with
them. None of the invariants
is inductive as it stands; each proof module builds up layers, every layer
assuming the earlier ones:

- `ScoreRequestProofs`: types, plus what a program counter says of the
  progress of the upsert and of the outcome; then `RecordInv`, which ties what is
  staged to the outcome, and the audit rows to the program counter (a request from
  `velocity` on is recorded; one that has yet to commit is not, so its outcome can
  still change): this gives `DurableTogether`, `OkMeansRecorded`,
  `EffectsFollowRecord`. `LockInv` says that a worker runs one handler at a
  time and that nothing is held past the commit: `LocksNeverCrossAwait`.
  `ParentInv` adds that a key a request has upserted is committed or its own for as
  long as its transaction lives: `ParentRowsExist`. `TrailInv` is about the task sent before the
  commit: `AlertHasTrailTask`. `ImplementsLedger` maps each action to a step of
  `ScoreLedger` or a stutter, under `RecordInv`.
- `PrototypeVaultProofs`: `SizeInv`; `AlignInv`, which gives for every step of
  an injection the exact relation of the two arrays, and so what holds again when
  it ends, and for a vault that a failure parted how many labels it is short of at
  each step: `MemoryAligned`; `ScoreInv` with `HitsCurrent`, the positions found by a
  search not overtaken by an eviction still name the vectors found:
  `WrongScoreNeedsEviction`; `FilesInv`, the same for the two files.
- `CaseReviewProofs`: `TypeInv`; `RoutingInv` relates staged and committed rows
  to the program counter: `RoutedTogether`; `VaultInv`, `AuditInv` and `RivalInv`
  follow a candidate from its verdict into a vault, and what two reviews know
  of each other; `StatusInv` names, for every alert, the position in the log that
  explains its status (`StatusesFollowFeedback`).
- `EvidenceTasksProofs`: `TaskInv` says that a task that was sent and has not
  settled is queued or running; `NoTaskLost` alone is not inductive, as a delivery
  that only waits for its acknowledgement would satisfy it and then vanish.
  `OnceInv` adds that as long as no process dies a task has at most one attempt,
  and none once it has settled, and that what is explained has settled and had a
  feature vector: so an explanation is withdrawn after a death only (`ExplanationsStand`).
  `RetriesBounded` weighs each queued or running message by the attempts it can
  still cause; a retry passes its weight on, a death after the publication counts
  one more series, and a fold over the bag of messages adds the weights up. The
  pool's types need that the connections out are those of the holders.
- `RedisProofs`: `WindowInv`, no clock that was read is ahead and a key
  expires no earlier than the last of its payments leaves the window
  (`WindowIsComplete`); `ReaderInv`, what is gone from a key is strictly older than
  what is left, because a payment under way is no older than the lag. What a
  reader keeps is then a window of the earliest time whose window is still there
  (`AnswersAreTimely`). `CacheInv` bounds the times of a hash and of an
  embedding by that of the batch, and every job by its limit
  (`StalenessIsHonest`, `EmbeddingsAreBacked`).
- `DecisionProofs`: the invariant says at each stage which scorer decided and
  between which bounds the score is; of an override's 1.0 the smallest product of
  factors leaves 0.42 and the jitter 0.41, above LOG (`OverrideHolds`), and the
  action is taken from the score before its rounding (`ActionsMatchScores`). The
  committee's means are sums over scorers, bounded through `FoldLemmas`.
  `LoadInv`, the lock excludes, and where a load is under way or possible a reset
  has paid for it (`FilesLoadedOnce`).
- `GraphProofs`: the state is a list of rows, and the properties compare
  two folds of it. An edge of the digraph is a row, in whatever order; a flow is a
  sum over the rows that count for it, which a renaming of the rows leaves alone;
  the last receipt is the least age. `FiguresDoAgree` adds what one row does to a
  flow and to the totals of both sides. `CyclesAreFound`: a shortest walk from an
  account back to itself is a simple cycle; on a simple cycle, a set of accounts
  closed under a successor map that loses nobody is closed under its inverse.
  `FraudNeverCleared` says which gates alone make a fraud (a circle, four
  recipients, a path of five, four amounts below a threshold; else a relay or a
  collector), and that each of the first four grows with the graph. A graph that
  stops being acyclic without a self-transfer has got a circle. The longest path is
  a recursive function over the accounts: that an acyclic graph has one is proved
  with the largest set of accounts closed under payment that has depths.
- `FoldLemmas`: the community modules define sums and folds by `MapThenFoldSet`,
  whose iterates are a recursive function on subsets. That it exists is proved by
  taking the smallest set for which it would not, and induction over the elements
  is a set of subsets closed under a step: no schema with an operator parameter
  is used.

TLC checks the properties themselves on small instances, the proofs cover every
number of requests, workers, accounts, injections, failures and crashes.

## 5. What is only model-checked

- `AnsweredUnlessStranded`: liveness under fairness, and ENABLED, are out of
  the proof system's reach.
- `EventuallyExplained`, `TasksSettle` and `EveryoneServed` are liveness too.
- The violation runs are counterexamples and need no proof.

No module declares a RECURSIVE operator. The library's induction theorems take an
operator as a parameter, which the installed provers do not instantiate; where
a proof needs induction over data it takes a smallest counterexample instead
(`FoldLemmas`).

## 6. Where code and words differ

Each of the first five has a violation run, whose trace is the scenario:

1. A failed request may never be answered (`score_error_answered`;
   `agent_docs/api.md:226` promises a 500). Its session is closed by a thread the
   event loop must start; if the loop first resumes another handler that needs
   a key the failed one inserted, that handler blocks the loop.
2. A shadow row can be lost (`score_shadow_row`; `PENDING.md:94` "every SUSPICIOUS
   transaction writes one row"): the thread may insert before its request commits.
3. A candidate can be injected after it was decided (`case_reinjection`;
   `developer_queue.py:115`).
4. An alert cannot be read once its score is explained (`evidence_readable`;
   `agent_docs/api.md:106`): `str_generator.py:56` reads the list that
   `_persist_shap` stored as a dict, and the endpoint answers 500. Alerts of gates,
   which have no explanation, can be read, and so can those of a model that rejects
   the vector.
5. Nothing novel is queued (`discovery_queued`; `discovery_router.py:41`,
   `README.md:108-116`): the fingerprint has 64 characters, its column 16. With a column of 64
   `FindingQueued` holds in the same instance.

Kept by properties that state what does hold, without a run of their own:
a gate whose SQL fails makes the request fail (`gates.py:49` "must not crash the
pipeline"), since the transaction stays aborted (`RunPipelineGateError`,
`Decision.GateRaises`); a score that overlaps an eviction may read the labels of
other vectors (`prototype_vault.py:43` "safe to call from any thread"), and only
then (`WrongScoreNeedsEviction`); a second feedback on an alert is recorded and
routed like the first (`agent_docs/auth.md:74` "idempotent").

Met while modelling:

- Trails: the tracers are called with one argument of two, so no trail is ever
  reconstructed; `self.retry(exc=exc)` raises `exc` when the retries are spent, so
  the dead-letter list (`trail_builder.py:33`) stays empty and `check_dlq_depth`
  has nothing to alarm about.
- Alert endpoint: the access log of explanations (`alert.py`) looks for a key the
  package does not have and is never written.
- Tier 2: the node query returns neither KYC completeness nor account age
  (`cycle_queries.py:31`), so `legitimacy_filter.py:69` takes every account for a
  shell company and a settlement of merchants is never exempt; a path's origin and
  terminus are one account, so the KYC filter asks whether an account is related to
  itself; the density of the bipartite query counts payments per sender and is
  at least 1, so the exemption below 0.85 never applies; D-01 of the sink gate reads
  fields that no job writes; `merchant_terminal_gate.py:42` selects a column that no
  migration creates; a gate that fires answers score 1.0 with REVIEW, where
  `score_to_action` would say HIGH_RISK.
- Committee: with the current schema Scorer A and Scorer F are always missing
  (no UPI session features, no remark). Each scorer sets `_load_attempted` before
  its model is loaded, so a second first call answers "unavailable" meanwhile.
- SHAP: in shadow mode the base model is given three features more than `ml/train.py`
  trained it on, so that no score is explained; a canary's score is sent to be explained
  without features.
- Vault: an injection that fails between the label array and the index leaves the
  vault a label short until its worker restarts; it goes on scoring and persisting.
- Rollback: `model_admin.py:43` says the activated version is loaded on the next
  request; the loader reads the same fixed files again.
- Feature cache: the micro-batch stores ten minutes of flow in the hour's fields;
  some fields the feature builder reads (temporal acceleration, burst score,
  velocity ratio) are always 0; a hash expires at the 26 hours at which the
  staleness penalty begins; the nightly alarm at 3600 s cannot fire under a hard
  limit of 1200 s; fraud seeds without a transfer leave every PageRank at 0;
  `leiden:deployed` is never cleared.
- Graph analysis: the header of `graph_scorer.py` says a bipartite collector has two
  senders, the code asks for four; a transfer of an account to itself can lower a verdict.
- Discovery: a score of 0.37996 passes, is rounded to 0.3800 and is dropped by the
  router's guard; FAST_CLEAN payments are judged on an empty feature vector and
  share one fingerprint; router and registry agree on a fingerprint only when
  the ten largest features have at most two decimals.
- `agent_docs/database.md:82` says one `fraud_scores` row per scored transaction, a
  retry adds another; `developer_queue.py:13` calls an injection one-way, another
  worker's persist overwrites it; `developer_queue.py:208` says a failed audit never
  raises, the commit after it does; `api.md` seals frauds only, `feedback.py:88`
  seals every verdict; the compliance tasks are routed to a queue no worker consumes.

## 7. Not modelled

What trained models answer (probabilities, SHAP values, embeddings, anomaly
verdicts) and what libraries compute (PageRank's values, betweenness, Leiden's
partition) is left open or a parameter. Cypher queries run in an external
database: their results are inputs, their failures are steps. HTTP clients (red
team, seal, investigator) appear as the success or failure of the step that calls
them. Authentication, sanitising, metrics, health and formatting keep no state.
Training and maintenance scripts are sequential and run by hand. The persisting of
a trail and the dead-letter list are behind calls that always raise. Other
endpoints use the connection pool like a score request without a Tier 3 score,
and are left out of `ConnectionPool`.

## 8. Plan

1. *Done*: `ScoreLedger`, `ScoreRequest`, `PrototypeVault`, `CaseReview` and proofs.
2. *Done*: `EvidenceTasks`, `VelocityWindows`, `FeatureCache`, `GraphMetrics`,
   `GraphScorer`, `ModelCache`, `Committee`, `Decision`, `Discovery`, `ConnectionPool`,
   model-checked.
3. *Done*: proofs about `EvidenceTasks`, `ConnectionPool`, `VelocityWindows`,
   `FeatureCache`, `ModelCache`, `Decision`, `GraphMetrics` and `GraphScorer`: every
   property but the liveness ones.
4. An abstract vault (a set of labelled vectors) implemented by `PrototypeVault`, so
   that `CaseReview`'s set is justified.
