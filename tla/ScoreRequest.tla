---------------------------- MODULE ScoreRequest ----------------------------
(***************************************************************************)
(* The life of POST /score (app/api/v1/score.py): several uvicorn worker   *)
(* processes, each a single event loop, score transactions against one     *)
(* PostgreSQL database.  A request upserts its rows, runs the detection    *)
(* pipeline, commits the decision together with its audit record, and only *)
(* then touches Redis, Celery and the discovery thread pool.  Callers may  *)
(* send the same transaction again, in parallel, to any worker.            *)
(*                                                                         *)
(* A handler runs on its loop without an await until the final padding, so *)
(* a statement that waits for a row lock stops the whole worker.  After an *)
(* uncaught exception the session is closed by a thread that the loop has  *)
(* to start first: until then its locks are held by nobody's code.         *)
(***************************************************************************)
EXTENDS Naturals, Sequences, FiniteSets

CONSTANTS
    Requests,       \* HTTP requests; a retry is a request of its own
    Transactions,   \* ids of the settled transactions
    Accounts,       \* ids of payers and payees
    TransactionOf,  \* [Requests -> Transactions]
    PartiesOf,      \* [Transactions -> Seq(Accounts)]: the payer, then the payee if any
    Workers,        \* uvicorn worker processes
    NoWorker,       \* stands for the worker of a request not yet sent
    Modes,          \* the committee settings a deployment may start with
    MaxRequests,    \* bound on the requests that are sent
    MaxFaults,      \* bound on failures of the services a request uses
    MaxCrashes      \* bound on worker crashes

VARIABLES
    mode,        \* committee_live_mode / committee_shadow_mode, fixed at start-up
    worker,      \* worker[r]: the process that accepted r
    pc,          \* pc[r]: the step of the handler r is about to take
    upserted,    \* upserted[r]: how many rows of its upsert r has behind it
    tx,          \* tx[r]: "none", "open" or "aborted", the session's transaction
    held,        \* held[r]: primary keys r inserted and has not committed
    staged,      \* staged[r]: ORM rows added to r's session
    outcome,     \* outcome[r]: what run_pipeline returned
    faults,      \* faults[r]: the failures r met (history)
    rows,        \* committed primary keys of accounts and transactions
    table,       \* committed rows of fraud_scores, alerts and model_audit
    counted,     \* requests whose transaction is in the Redis velocity windows
    trailTasks,  \* requests whose fund-trail task reached the broker
    shapTasks,   \* requests whose SHAP task reached the broker
    discovery,   \* requests handed to the discovery thread pool
    shadow,      \* shadow[r]: the state of r's committee shadow thread
    crashes      \* worker crashes so far

session == <<upserted, tx, held, staged>>
database == <<rows, table>>
effects == <<counted, trailTasks, shapTasks, discovery>>
vars == <<mode, worker, pc, session, outcome, faults, database, effects, shadow, crashes>>

-----------------------------------------------------------------------------
(* What a pipeline run can return, and what the handler makes of it.       *)

Actions == {"PASS", "LOG", "REVIEW", "HIGH_RISK"}

AlertActions == {"REVIEW", "HIGH_RISK"}

\* The six exits of run_pipeline; only the ensemble's action is open.
Outcomes ==
    { [tier |-> "canary",     action |-> "LOG"],
      [tier |-> "fast_clean", action |-> "PASS"],
      [tier |-> "gate",       action |-> "REVIEW"],
      [tier |-> "uncertain",  action |-> "LOG"] }
    \cup [tier : {"ensemble"}, action : Actions]

ASSUME RequestAssumption ==
    /\ TransactionOf \in [Requests -> Transactions]
    /\ PartiesOf \in [Transactions -> Seq(Accounts)]
    /\ Accounts \cap Transactions = {}
    /\ Modes \subseteq {"live", "shadow", "off"}
    /\ MaxRequests \in Nat
    /\ MaxFaults \in Nat
    /\ MaxCrashes \in Nat
    /\ NoWorker \notin Workers

NoOutcome == [tier |-> "none", action |-> "none"]

\* A gate's SQL can only have failed where no gate fired; a canary and a
\* FAST_CLEAN transaction never reach the gates.
GatesCleared(o) == o.tier \in {"uncertain", "ensemble"}

\* tier3_score_raw is not None.
HasTier3Score(o) == o.tier \in {"canary", "ensemble"}

RaisesAlert(o) == o.action \in AlertActions

Kinds == {"score", "alert", "audit", "committee"}

Row == [req : Requests, txn : Transactions, action : Actions]

RowOf(r) == [req |-> r, txn |-> TransactionOf[r], action |-> outcome[r].action]

Faults == {"sql", "deadlock", "gate", "redis", "broker", "audit", "velocity"}

-----------------------------------------------------------------------------
(* Event loops and row locks.                                              *)

\* Steps during which the handler occupies its worker's event loop.
OnLoop == {"upsert", "pipeline", "stage", "audit", "velocity", "dispatch"}

\* Steps after an exception: the loop must start the thread that closes the
\* session, the thread closes it, the loop sends the 500.
Unwinding == {"raised", "closing", "closed"}

Finished == {"ok", "failed", "lost"}

Steps == {"new", "padding"} \cup OnLoop \cup Unwinding \cup Finished

LoopFree(w) == \A r \in Requests : worker[r] = w => pc[r] \notin OnLoop

\* _upsert_transaction: the payer's row, the payee's, then the transaction's.
UpsertOrder(r) == Append(PartiesOf[TransactionOf[r]], TransactionOf[r])

UpsertKey(r) == UpsertOrder(r)[upserted[r] + 1]

\* An INSERT waits for the transaction that has inserted the same key.
WaitsFor(r, s) ==
    /\ r # s
    /\ pc[r] = "upsert"
    /\ UpsertKey(r) \in held[s]

\* PostgreSQL's deadlock detector: r waits on a cycle of waiting sessions.
OnWaitCycle(r) ==
    \E S \in SUBSET Requests :
        /\ r \in S
        /\ \A x \in S : (\E y \in S : WaitsFor(x, y)) /\ (\E y \in S : WaitsFor(y, x))
-----------------------------------------------------------------------------
(* How a session's transaction ends.                                       *)

\* An SQL error undoes the transaction and frees its locks at once; the
\* session refuses every later statement until it is rolled back.
AbortTransaction(r) ==
    /\ tx' = [tx EXCEPT ![r] = "aborted"]
    /\ held' = [held EXCEPT ![r] = {}]
    /\ UNCHANGED <<upserted, staged>>

Rollback(R) ==
    /\ tx' = [r \in Requests |-> IF r \in R THEN "none" ELSE tx[r]]
    /\ held' = [r \in Requests |-> IF r \in R THEN {} ELSE held[r]]
    /\ staged' = [r \in Requests |-> IF r \in R THEN {} ELSE staged[r]]
    /\ UNCHANGED upserted

\* Variant of Commit: the audit logger commits a session of its own and the
\* handler's rows are lost.
CommitAuditOnly(r, kinds) ==
    /\ table' = [table EXCEPT !["audit"] = @ \cup {RowOf(r)}]
    /\ rows' = rows \cup held[r]
    /\ tx' = [tx EXCEPT ![r] = "none"]
    /\ held' = [held EXCEPT ![r] = {}]
    /\ staged' = [staged EXCEPT ![r] = {}]
    /\ UNCHANGED upserted

\* Everything the session inserted or staged becomes visible in one step.
Commit(r, kinds) ==
    /\ table' = [k \in Kinds |->
                    IF k \in kinds THEN table[k] \cup {RowOf(r)} ELSE table[k]]
    /\ rows' = rows \cup held[r]
    /\ tx' = [tx EXCEPT ![r] = "none"]
    /\ held' = [held EXCEPT ![r] = {}]
    /\ staged' = [staged EXCEPT ![r] = {}]
    /\ UNCHANGED upserted

Goto(r, step) == pc' = [pc EXCEPT ![r] = step]

\* A service fails on r, as long as the bound on failures allows another.
Meets(r, fault) ==
    /\ Cardinality({m \in Requests \X Faults : m[2] \in faults[m[1]]}) < MaxFaults
    /\ faults' = [faults EXCEPT ![r] = @ \cup {fault}]
-----------------------------------------------------------------------------
(* The handler, up to the commit.                                          *)

Accept(r) ==
    /\ pc[r] = "new"
    /\ Cardinality({s \in Requests : pc[s] # "new"}) < MaxRequests
    /\ \E w \in Workers :
          /\ LoopFree(w)
          /\ worker' = [worker EXCEPT ![r] = w]
    /\ Goto(r, "upsert")
    /\ UNCHANGED <<mode, session, outcome, faults, database, effects, shadow, crashes>>

\* Variant of UpsertRow: a row some other session is inserting counts as present.
UpsertRowDirtyRead(r) ==
    /\ pc[r] = "upsert"
    /\ tx' = [tx EXCEPT ![r] = "open"]
    /\ held' = IF UpsertKey(r) \in rows \cup UNION {held[s] : s \in Requests}
               THEN held
               ELSE [held EXCEPT ![r] = @ \cup {UpsertKey(r)}]
    /\ upserted' = [upserted EXCEPT ![r] = @ + 1]
    /\ Goto(r, IF upserted[r] + 1 = Len(UpsertOrder(r)) THEN "pipeline" ELSE "upsert")
    /\ UNCHANGED <<mode, worker, staged, outcome, faults, database, effects, shadow, crashes>>

\* INSERT ... ON CONFLICT DO NOTHING of the next row, once no other open
\* transaction holds its key.
UpsertRow(r) ==
    /\ pc[r] = "upsert"
    /\ \A s \in Requests : ~WaitsFor(r, s)
    /\ tx' = [tx EXCEPT ![r] = "open"]
    /\ held' = IF UpsertKey(r) \in rows
               THEN held
               ELSE [held EXCEPT ![r] = @ \cup {UpsertKey(r)}]
    /\ upserted' = [upserted EXCEPT ![r] = @ + 1]
    /\ Goto(r, IF upserted[r] + 1 = Len(UpsertOrder(r)) THEN "pipeline" ELSE "upsert")
    /\ UNCHANGED <<mode, worker, staged, outcome, faults, database, effects, shadow, crashes>>

\* The database picks r to break a deadlock.
DeadlockVictim(r) ==
    /\ pc[r] = "upsert"
    /\ OnWaitCycle(r)
    /\ AbortTransaction(r)
    /\ faults' = [faults EXCEPT ![r] = @ \cup {"deadlock"}]
    /\ Goto(r, "raised")
    /\ UNCHANGED <<mode, worker, outcome, database, effects, shadow, crashes>>

\* A statement outside every try block fails: an upsert that is not waiting,
\* the account context, or the reload of fraud_score_row.id after the commit.
SqlError(r) ==
    /\ \/ pc[r] = "upsert" /\ \A s \in Requests : ~WaitsFor(r, s)
       \/ pc[r] = "pipeline"
       \/ pc[r] = "dispatch" /\ HasTier3Score(outcome[r])
    /\ AbortTransaction(r)
    /\ Meets(r, "sql")
    /\ Goto(r, "raised")
    /\ UNCHANGED <<mode, worker, outcome, database, effects, shadow, crashes>>

\* Any other exception of the pipeline, a Redis error of Tier 1 for one,
\* leaves the handler with the session's transaction still open.
PipelineRaises(r) ==
    /\ pc[r] = "pipeline"
    /\ Meets(r, "redis")
    /\ Goto(r, "raised")
    /\ UNCHANGED <<mode, worker, session, outcome, database, effects, shadow, crashes>>

\* tier3_committee_score in shadow mode leaves a thread behind.
SubmitShadowTask(r, o) ==
    shadow' = IF mode = "shadow" /\ o.tier = "ensemble"
              THEN [shadow EXCEPT ![r] = "running"]
              ELSE shadow

\* _run_live_committee flushes an audit row of its own into the transaction.
LiveCommitteeAudit(r, o) ==
    staged' = IF mode = "live" /\ o.tier = "ensemble"
              THEN [staged EXCEPT ![r] = @ \cup {"committee"}]
              ELSE staged

\* Variant of RunPipeline: the result never reaches the handler.
RunPipelineResultLost(r) ==
    /\ pc[r] = "pipeline"
    /\ Goto(r, "stage")
    /\ UNCHANGED <<mode, worker, session, outcome, faults, database, effects, shadow, crashes>>

\* run_pipeline with every statement of its gates and features succeeding.
RunPipeline(r) ==
    /\ pc[r] = "pipeline"
    /\ \E o \in Outcomes :
        /\ outcome' = [outcome EXCEPT ![r] = o]
        /\ SubmitShadowTask(r, o)
        /\ LiveCommitteeAudit(r, o)
    /\ Goto(r, "stage")
    /\ UNCHANGED <<mode, worker, upserted, tx, held, faults, database, effects, crashes>>

\* run_pipeline with a gate's (or a feature's) statement failing.  The
\* exception is caught and the run goes on, in a transaction that is lost;
\* the live committee's flush is the first to find out, and raises.
RunPipelineGateError(r) ==
    /\ pc[r] = "pipeline"
    /\ AbortTransaction(r)
    /\ Meets(r, "gate")
    /\ \/ \E o \in Outcomes :
            /\ GatesCleared(o)
            /\ ~(mode = "live" /\ o.tier = "ensemble")
            /\ outcome' = [outcome EXCEPT ![r] = o]
            /\ SubmitShadowTask(r, o)
            /\ Goto(r, "stage")
       \/ /\ mode = "live"
          /\ Goto(r, "raised")
          /\ UNCHANGED <<outcome, shadow>>
    /\ UNCHANGED <<mode, worker, database, effects, crashes>>

\* Variant of StageRows: only a REVIEW gets its trail task.
StageRowsTrailForReview(r) ==
    /\ pc[r] = "stage"
    /\ staged' = [staged EXCEPT ![r] =
                     @ \cup {"score"} \cup (IF RaisesAlert(outcome[r]) THEN {"alert"} ELSE {})]
    /\ trailTasks' = IF outcome[r].action = "REVIEW" THEN trailTasks \cup {r} ELSE trailTasks
    /\ Goto(r, "audit")
    /\ UNCHANGED <<mode, worker, upserted, tx, held, outcome, faults, database,
                   counted, shapTasks, discovery, shadow, crashes>>

\* Variant of StageRows: the velocity windows are incremented before the commit.
StageRowsCountsEarly(r) ==
    /\ pc[r] = "stage"
    /\ staged' = [staged EXCEPT ![r] =
                     @ \cup {"score"} \cup (IF RaisesAlert(outcome[r]) THEN {"alert"} ELSE {})]
    /\ trailTasks' = IF RaisesAlert(outcome[r]) THEN trailTasks \cup {r} ELSE trailTasks
    /\ counted' = counted \cup {r}
    /\ Goto(r, "audit")
    /\ UNCHANGED <<mode, worker, upserted, tx, held, outcome, faults, database,
                   shapTasks, discovery, shadow, crashes>>

\* The score row, the alert row of a REVIEW or HIGH_RISK decision, and its
\* trail task, which goes to the broker before anything is committed.
StageRows(r) ==
    /\ pc[r] = "stage"
    /\ staged' = [staged EXCEPT ![r] =
                     @ \cup {"score"} \cup (IF RaisesAlert(outcome[r]) THEN {"alert"} ELSE {})]
    /\ \/ /\ RaisesAlert(outcome[r])
          /\ trailTasks' = trailTasks \cup {r}
          /\ UNCHANGED faults
       \/ /\ RaisesAlert(outcome[r])
          /\ Meets(r, "broker")
          /\ UNCHANGED trailTasks
       \/ /\ ~RaisesAlert(outcome[r])
          /\ UNCHANGED <<faults, trailTasks>>
    /\ Goto(r, "audit")
    /\ UNCHANGED <<mode, worker, upserted, tx, held, outcome, database,
                   counted, shapTasks, discovery, shadow, crashes>>

\* log_score_event adds the audit row and commits the whole session; the
\* handler's own commit, right after, has nothing left to do.
LogScoreEvent(r) ==
    /\ pc[r] = "audit"
    /\ tx[r] = "open"
    /\ Commit(r, staged[r] \cup {"audit"})
    /\ Goto(r, "velocity")
    /\ UNCHANGED <<mode, worker, outcome, faults, effects, shadow, crashes>>

\* Variant of LogScoreEventFails: the failure is logged and the request goes on.
LogScoreEventSwallowed(r) ==
    /\ pc[r] = "audit"
    /\ IF tx[r] = "aborted" THEN UNCHANGED faults ELSE Meets(r, "audit")
    /\ Rollback({r})
    /\ Goto(r, "velocity")
    /\ UNCHANGED <<mode, worker, outcome, database, effects, shadow, crashes>>

\* The commit fails, always so in an aborted transaction: log_score_event
\* rolls back and raises AuditWriteError.
LogScoreEventFails(r) ==
    /\ pc[r] = "audit"
    /\ IF tx[r] = "aborted" THEN UNCHANGED faults ELSE Meets(r, "audit")
    /\ Rollback({r})
    /\ Goto(r, "raised")
    /\ UNCHANGED <<mode, worker, outcome, database, effects, shadow, crashes>>
-----------------------------------------------------------------------------
(* The handler, after the commit.                                          *)

IncrementVelocity(r) ==
    /\ pc[r] = "velocity"
    /\ counted' = counted \cup {r}
    /\ Goto(r, "dispatch")
    /\ UNCHANGED <<mode, worker, session, outcome, faults, database,
                   trailTasks, shapTasks, discovery, shadow, crashes>>

\* Variant of IncrementVelocityFails: the handler scores the request again.
IncrementVelocityFailsRetried(r) ==
    /\ pc[r] = "velocity"
    /\ Meets(r, "velocity")
    /\ tx' = [tx EXCEPT ![r] = "open"]
    /\ Goto(r, "pipeline")
    /\ UNCHANGED <<mode, worker, upserted, held, staged, outcome, database, effects,
                   shadow, crashes>>

\* Redis is away: nothing catches it, and the decision is already durable.
IncrementVelocityFails(r) ==
    /\ pc[r] = "velocity"
    /\ Meets(r, "velocity")
    /\ Goto(r, "raised")
    /\ UNCHANGED <<mode, worker, session, outcome, database, effects, shadow, crashes>>

\* The SHAP task of a decision with a Tier 3 score (a broker error is only
\* logged), and the discovery thread of a PASS that looks novel.
Dispatch(r) ==
    /\ pc[r] = "dispatch"
    /\ \/ /\ HasTier3Score(outcome[r])
          /\ shapTasks' = shapTasks \cup {r}
          /\ UNCHANGED faults
       \/ /\ HasTier3Score(outcome[r])
          /\ Meets(r, "broker")
          /\ UNCHANGED shapTasks
       \/ /\ ~HasTier3Score(outcome[r])
          /\ UNCHANGED <<faults, shapTasks>>
    /\ \/ UNCHANGED discovery
       \/ /\ outcome[r].action = "PASS"
          /\ discovery' = discovery \cup {r}
    /\ Goto(r, "padding")
    /\ UNCHANGED <<mode, worker, session, outcome, database,
                   counted, trailTasks, shadow, crashes>>

\* asyncio.sleep is over and the loop is free to send the 200.
Respond(r) ==
    /\ pc[r] = "padding"
    /\ LoopFree(worker[r])
    /\ Goto(r, "ok")
    /\ UNCHANGED <<mode, worker, session, outcome, faults, database, effects, shadow, crashes>>
-----------------------------------------------------------------------------
(* The exit of the get_db dependency after an exception.                   *)

StartClose(r) ==
    /\ pc[r] = "raised"
    /\ LoopFree(worker[r])
    /\ Goto(r, "closing")
    /\ UNCHANGED <<mode, worker, session, outcome, faults, database, effects, shadow, crashes>>

\* Variant of CloseSession: get_db forgets to close the session.
CloseSessionForgotten(r) ==
    /\ pc[r] = "closing"
    /\ Goto(r, "closed")
    /\ UNCHANGED <<mode, worker, session, outcome, faults, database, effects, shadow, crashes>>

CloseSession(r) ==
    /\ pc[r] = "closing"
    /\ Rollback({r})
    /\ Goto(r, "closed")
    /\ UNCHANGED <<mode, worker, outcome, faults, database, effects, shadow, crashes>>

AnswerError(r) ==
    /\ pc[r] = "closed"
    /\ LoopFree(worker[r])
    /\ Goto(r, "failed")
    /\ UNCHANGED <<mode, worker, session, outcome, faults, database, effects, shadow, crashes>>
-----------------------------------------------------------------------------
(* The shadow thread and the death of a process.                           *)

\* write_shadow_row: the foreign key accepts the row only if the
\* transaction's own row is committed; the violation is swallowed.
WriteShadowRow(r) ==
    /\ shadow[r] = "running"
    /\ shadow' = [shadow EXCEPT ![r] =
                     IF TransactionOf[r] \in rows THEN "written" ELSE "rejected"]
    /\ UNCHANGED <<mode, worker, pc, session, outcome, faults, database, effects, crashes>>

\* A worker process dies and is replaced.  PostgreSQL rolls its sessions back.
Crash(w) ==
    LET victims == {r \in Requests : worker[r] = w /\ pc[r] \notin {"new"} \cup Finished}
    IN  /\ crashes < MaxCrashes
        /\ crashes' = crashes + 1
        /\ pc' = [r \in Requests |-> IF r \in victims THEN "lost" ELSE pc[r]]
        /\ shadow' = [r \in Requests |->
                         IF worker[r] = w /\ shadow[r] = "running" THEN "killed" ELSE shadow[r]]
        /\ Rollback(victims)
        /\ UNCHANGED <<mode, worker, outcome, faults, database, effects>>
-----------------------------------------------------------------------------
Init ==
    /\ mode \in Modes
    /\ worker = [r \in Requests |-> NoWorker]
    /\ pc = [r \in Requests |-> "new"]
    /\ upserted = [r \in Requests |-> 0]
    /\ tx = [r \in Requests |-> "none"]
    /\ held = [r \in Requests |-> {}]
    /\ staged = [r \in Requests |-> {}]
    /\ outcome = [r \in Requests |-> NoOutcome]
    /\ faults = [r \in Requests |-> {}]
    /\ rows = {}
    /\ table = [k \in Kinds |-> {}]
    /\ counted = {}
    /\ trailTasks = {}
    /\ shapTasks = {}
    /\ discovery = {}
    /\ shadow = [r \in Requests |-> "none"]
    /\ crashes = 0

\* A step of an accepted request: its handler, its cleanup or its answer.
RequestStep(r) ==
    \/ UpsertRow(r)
    \/ DeadlockVictim(r)
    \/ SqlError(r)
    \/ PipelineRaises(r)
    \/ RunPipeline(r)
    \/ RunPipelineGateError(r)
    \/ StageRows(r)
    \/ LogScoreEvent(r)
    \/ LogScoreEventFails(r)
    \/ IncrementVelocity(r)
    \/ IncrementVelocityFails(r)
    \/ Dispatch(r)
    \/ Respond(r)
    \/ StartClose(r)
    \/ CloseSession(r)
    \/ AnswerError(r)

Next ==
    \/ \E r \in Requests : Accept(r) \/ RequestStep(r) \/ WriteShadowRow(r)
    \/ \E w \in Workers : Crash(w)

Spec == Init /\ [][Next]_vars

\* The loops, the threads and the database keep running; callers and crashes
\* owe nothing.
Fairness ==
    \A r \in Requests : WF_vars(RequestStep(r)) /\ WF_vars(WriteShadowRow(r))

FairSpec == Spec /\ Fairness
-----------------------------------------------------------------------------
(* Properties.                                                             *)

Recorded(r) == \E row \in table["audit"] : row.req = r

TypeOK ==
    /\ mode \in Modes
    /\ worker \in [Requests -> Workers \cup {NoWorker}]
    /\ pc \in [Requests -> Steps]
    /\ upserted \in [Requests -> Nat]
    /\ tx \in [Requests -> {"none", "open", "aborted"}]
    /\ held \in [Requests -> SUBSET (Accounts \cup Transactions)]
    /\ staged \in [Requests -> SUBSET Kinds]
    /\ outcome \in [Requests -> Outcomes \cup {NoOutcome}]
    /\ faults \in [Requests -> SUBSET Faults]
    /\ rows \subseteq Accounts \cup Transactions
    /\ table \in [Kinds -> SUBSET Row]
    /\ counted \subseteq Requests
    /\ trailTasks \subseteq Requests
    /\ shapTasks \subseteq Requests
    /\ discovery \subseteq Requests
    /\ shadow \in [Requests -> {"none", "running", "written", "rejected", "killed"}]
    /\ crashes \in 0 .. MaxCrashes

\* A decision is durable as a whole or not at all: wherever a failure or a
\* crash strikes, the score, alert and committee rows in the database are
\* exactly the ones the audit trail calls for (log_score_event commits them
\* all at once).
DurableTogether ==
    /\ table["score"] = table["audit"]
    /\ table["alert"] = {row \in table["audit"] : row.action \in AlertActions}
    /\ table["committee"] =
          {row \in table["audit"] : mode = "live" /\ outcome[row.req].tier = "ensemble"}

\* No committed row lacks the transaction and account rows it refers to,
\* although another request may have inserted them and then failed.
ParentRowsExist ==
    /\ \A k \in Kinds : \A row \in table[k] :
          \A i \in 1 .. Len(UpsertOrder(row.req)) : UpsertOrder(row.req)[i] \in rows
    /\ \A r \in Requests : shadow[r] = "written" => TransactionOf[r] \in rows

\* A 200 is never sent for a decision that is not in the audit trail, nor for
\* one the velocity windows have not counted (RBI PMLA: no silent audit skips).
OkMeansRecorded ==
    \A r \in Requests :
        pc[r] = "ok" => RowOf(r) \in table["audit"] /\ r \in counted

\* Velocity, SHAP and discovery only ever hear of durable decisions, and
\* discovery only of PASS ones, even when the request fails or dies later.
EffectsFollowRecord ==
    /\ \A r \in counted \cup shapTasks \cup discovery : RowOf(r) \in table["audit"]
    /\ \A r \in discovery : outcome[r].action = "PASS"

\* Every durable alert has its trail task at the broker, unless the broker
\* refused it: no crash or rollback separates the two.
AlertHasTrailTask ==
    \A row \in table["alert"] : row.req \in trailTasks \/ "broker" \in faults[row.req]

\* A request holds row locks only while its handler occupies the event loop,
\* or while an exception's cleanup is on its way; so a request that waits for
\* a lock held in its own worker waits for a failed one.
LocksNeverCrossAwait ==
    /\ \A r \in Requests :
          held[r] # {} => pc[r] \in OnLoop \cup {"raised", "closing"} /\ tx[r] = "open"
    /\ \A r, s \in Requests :
          WaitsFor(r, s) /\ worker[r] = worker[s] => pc[s] \in {"raised", "closing"}

\* The audit trail and the answers behave as the ledger promises.
Ledger == INSTANCE ScoreLedger WITH
    ledger <- table["audit"],
    reply <- [r \in Requests |-> IF pc[r] = "ok" THEN "ok"
                                  ELSE IF pc[r] \in {"failed", "lost"} THEN "error"
                                  ELSE "none"]

LedgerSpec == Ledger!Spec

\* An exception that left inserted rows uncommitted in a session nobody has
\* closed yet.
LeftLocked(r) == pc[r] = "raised" /\ held[r] # {}

\* Every accepted request is answered or lost in a crash, across lock waits
\* and deadlocks, unless an exception strands another request's row locks.
AnsweredUnlessStranded ==
    \A r \in Requests :
        pc[r] # "new" ~> (pc[r] \in Finished \/ \E s \in Requests : LeftLocked(s))
-----------------------------------------------------------------------------
(* What the repository says of the program and the program does not do.    *)

\* An exception in the handler is answered, with a 500 (agent_docs/api.md,
\* generic_exception_handler of app/main.py).
ErrorAnswered ==
    \A r \in Requests : pc[r] = "raised" ~> pc[r] \in Finished

\* No shadow row is refused by the database ("every SUSPICIOUS transaction
\* writes one row", PENDING.md).
ShadowRowAccepted == \A r \in Requests : shadow[r] # "rejected"
=============================================================================
