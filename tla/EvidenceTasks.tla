---------------------------- MODULE EvidenceTasks ----------------------------
(***************************************************************************)
(* The evidence behind an alert.  POST /score sends Celery a fund-trail    *)
(* task before it commits the alert and a SHAP task after it               *)
(* (app/api/v1/score.py); pool processes run them with late                *)
(* acknowledgement and retries (app/evidence/trail_builder.py,             *)
(* app/detection/tier3/shap_explainer.py); GET /api/v1/alerts/{alert_id}   *)
(* assembles what has arrived (app/api/v1/alert.py).                       *)
(*                                                                         *)
(* Retry delays put no bound on the order of deliveries, so the queue is a *)
(* bag.  The tracers need a timestamp that the trail task does not pass:   *)
(* every attempt at a trail raises a TypeError.                            *)
(***************************************************************************)
EXTENDS Naturals

CONSTANTS
    Requests,       \* POST /score requests, a retry being a request of its own
    TransactionOf,  \* [Requests -> transactions]: what each of them scores
    Workers,        \* processes of the Celery pool
    MaxRetries,     \* [Kinds -> Nat]: max_retries of the two tasks
    None,           \* stands for a delivery that is not there
    MaxFaults,      \* bound on failures of the broker, database, model and API
    MaxLosses,      \* bound on pool processes that die
    AttemptCap      \* attempts of one task are counted up to here

VARIABLES
    pc,         \* pc[r]: the step of the score handler of r
    outcome,    \* outcome[r]: what the pipeline decided, see Outcomes
    fits,       \* the pool's base model has the features of a vector; never changes
    scored,     \* requests whose fraud_scores (and alerts) row is committed
    shap,       \* shap[r]: the score row's shap_values, "none" being NULL or []
    queue,      \* queue[m]: copies of m waiting at the broker
    serving,    \* serving[w]: the unacknowledged delivery of w
    phase,      \* phase[w]: "run" while the task of w executes, then "ack"
    read,       \* read[r]: the last answer to GET for the alert of r
    sent,       \* tasks the handlers sent (history)
    settled,    \* tasks that ended: done, spent or rejected (history)
    attempts,   \* attempts[t]: executions of task t begun so far (history)
    faults,     \* failures so far
    losses      \* pool processes lost so far

handler == <<pc, outcome, fits, scored>>
broker == <<queue, serving, phase>>
history == <<sent, settled, attempts>>
vars == <<handler, shap, broker, read, history, faults, losses>>
-----------------------------------------------------------------------------
Kinds == {"trail", "shap"}

Tasks == Kinds \X Requests

\* A gate raises an alert without a Tier 3 score; a Tier 3 score may or may
\* not raise one, and that of a canary account never does.
Outcomes == {"gate", "model", "quiet", "canary"}

Raises(o) == o \in {"gate", "model"}

HasTier3Score(o) == o \in {"model", "quiet", "canary"}

\* The canary exit reports its score as one of Tier 3, but has no features.
HasVector(o) == o \in {"model", "quiet"}

Messages == UNION {[task : {t}, retries : 0..MaxRetries[t[1]]] : t \in Tasks}

ASSUME EvidenceAssumption ==
    /\ MaxRetries \in [Kinds -> Nat]
    /\ MaxFaults \in Nat
    /\ MaxLosses \in Nat
    /\ AttemptCap \in Nat \ {0}
    /\ None \notin Messages

Message(t, n) == [task |-> t, retries |-> n]

Fails == faults < MaxFaults /\ faults' = faults + 1

Enqueue(m) == queue' = [queue EXCEPT ![m] = @ + 1]

Count(t) ==
    attempts' = [attempts EXCEPT ![t] = IF @ < AttemptCap THEN @ + 1 ELSE @]

Serves(w, kind) == phase[w] = "run" /\ serving[w].task[1] = kind

Subject(w) == serving[w].task[2]

InFlight(t) ==
    \/ \E m \in Messages : m.task = t /\ queue[m] > 0
    \/ \E w \in Workers : serving[w] # None /\ serving[w].task = t
-----------------------------------------------------------------------------
(* The score handler, as far as evidence goes.                             *)

\* The alert is staged and its trail task sent, in this order, before the
\* commit; a failure to send is only logged.
Stage(r) ==
    /\ pc[r] = "new"
    /\ \E o \in Outcomes :
          /\ outcome' = [outcome EXCEPT ![r] = o]
          /\ \/ /\ Raises(o)
                /\ Enqueue(Message(<<"trail", r>>, 0))
                /\ sent' = sent \cup {<<"trail", r>>}
                /\ UNCHANGED faults
             \/ /\ Raises(o)
                /\ Fails
                /\ UNCHANGED <<queue, sent>>
             \/ /\ ~Raises(o)
                /\ UNCHANGED <<queue, sent, faults>>
    /\ pc' = [pc EXCEPT ![r] = "staged"]
    /\ UNCHANGED <<fits, scored, shap, serving, phase, read, settled, attempts, losses>>

Commit(r) ==
    /\ pc[r] = "staged"
    /\ pc' = [pc EXCEPT ![r] = "committed"]
    /\ scored' = scored \cup {r}
    /\ UNCHANGED <<outcome, fits, shap, broker, read, history, faults, losses>>

\* Only a Tier 3 score is to be explained, from an empty vector if it has none.
DispatchShap(r) ==
    /\ pc[r] = "committed"
    /\ IF HasTier3Score(outcome[r])
       THEN /\ Enqueue(Message(<<"shap", r>>, 0))
            /\ sent' = sent \cup {<<"shap", r>>}
       ELSE UNCHANGED <<queue, sent>>
    /\ pc' = [pc EXCEPT ![r] = "answered"]
    /\ UNCHANGED <<outcome, fits, scored, shap, serving, phase, read, settled, attempts,
                   faults, losses>>

\* The handler ends early: its commit fails, its process dies, or the broker
\* refuses the SHAP task.  What is committed stays.
HandlerFails(r) ==
    /\ pc[r] \in {"staged", "committed"}
    /\ Fails
    /\ pc' = [pc EXCEPT ![r] = "failed"]
    /\ UNCHANGED <<outcome, fits, scored, shap, broker, read, history, losses>>
-----------------------------------------------------------------------------
(* The pool.                                                               *)

\* Variant of Take: two processes may take the same copy.
TakeTwice(w) ==
    /\ serving[w] = None
    /\ \E m \in Messages :
          /\ queue[m] > 0 \/ \E v \in Workers : serving[v] = m
          /\ queue' = [queue EXCEPT ![m] = @ - 1]
          /\ serving' = [serving EXCEPT ![w] = m]
          /\ Count(m.task)
    /\ phase' = [phase EXCEPT ![w] = "run"]
    /\ UNCHANGED <<handler, shap, read, sent, settled, faults, losses>>

\* A free process takes a message, which stays unacknowledged.
Take(w) ==
    /\ serving[w] = None
    /\ \E m \in Messages :
          /\ queue[m] > 0
          /\ queue' = [queue EXCEPT ![m] = @ - 1]
          /\ serving' = [serving EXCEPT ![w] = m]
          /\ Count(m.task)
    /\ phase' = [phase EXCEPT ![w] = "run"]
    /\ UNCHANGED <<handler, shap, read, sent, settled, faults, losses>>

\* self.retry(exc=exc): the next attempt is published before Retry is raised.
\* When the retries are spent exc itself is raised, never
\* MaxRetriesExceededError, so the dead-letter branch of the trail task does
\* not run; compute_shap swallows all three exceptions and reports success.
\* Whichever it is, the delivery is acknowledged next.  The attempt itself
\* failed of so many faults, 0 or 1.
Retry(w, of) ==
    LET m == serving[w]
        again == m.retries < MaxRetries[m.task[1]]
    IN  /\ \/ /\ again
              /\ Enqueue(Message(m.task, m.retries + 1))
              /\ faults' = faults + of
              /\ UNCHANGED settled
           \/ /\ again                \* the broker is down: Reject, no requeue
              /\ settled' = settled \cup {m.task}
              /\ faults' = faults + of + 1
              /\ UNCHANGED queue
           \/ /\ ~again
              /\ settled' = settled \cup {m.task}
              /\ faults' = faults + of
              /\ UNCHANGED queue
        /\ faults' <= MaxFaults
        /\ phase' = [phase EXCEPT ![w] = "ack"]
        /\ UNCHANGED <<handler, shap, serving, read, sent, attempts, losses>>

\* Variant of TrailRaises: the retry is published without counting it.
TrailRetriesUncounted(w) ==
    /\ Serves(w, "trail")
    /\ Enqueue(serving[w])
    /\ phase' = [phase EXCEPT ![w] = "ack"]
    /\ UNCHANGED <<handler, shap, serving, read, history, faults, losses>>

\* reconstruct_fund_trail: the tracer is called with one argument of two.
TrailRaises(w) == Serves(w, "trail") /\ Retry(w, 0)

\* The task is over and its result, if any, written.
Finish(w, result) ==
    /\ shap' = [shap EXCEPT ![Subject(w)] = result]
    /\ settled' = settled \cup {serving[w].task}
    /\ phase' = [phase EXCEPT ![w] = "ack"]
    /\ UNCHANGED <<handler, queue, serving, read, sent, attempts, losses>>

\* A booster raises for more features than it was trained on: build_features
\* returns three more than the base model of shadow mode has.
Rejected(w) == HasVector(outcome[Subject(w)]) /\ ~fits

\* compute_shap, all going well: the row of its id gets the contributions.
\* Without a row the UPDATE matches nothing.
Explain(w) ==
    /\ Serves(w, "shap")
    /\ HasVector(outcome[Subject(w)]) /\ fits
    /\ Finish(w, IF Subject(w) \in scored THEN "list" ELSE shap[Subject(w)])
    /\ UNCHANGED faults

\* No attempt can do better.
ModelRejects(w) == Serves(w, "shap") /\ Rejected(w) /\ Retry(w, 0)

\* Of an empty vector the model makes an empty list, or raises.
ExplainNothing(w) ==
    /\ Serves(w, "shap")
    /\ ~HasVector(outcome[Subject(w)])
    /\ \/ Finish(w, "none") /\ UNCHANGED faults
       \/ Retry(w, 0)

\* This process has no model: an empty list is computed, and stored.
ExplainWithoutModel(w) == Serves(w, "shap") /\ Fails /\ Finish(w, "none")

\* Variant of ExplanationNotStored: the row is written, but the error that
\* closing the session raises reaches the task and has it retried.
StoredAndRetried(w) ==
    /\ Serves(w, "shap")
    /\ Fails
    /\ shap' = [shap EXCEPT ![Subject(w)] = "list"]
    /\ Enqueue(Message(serving[w].task, serving[w].retries + 1))
    /\ serving[w].retries < MaxRetries["shap"]
    /\ phase' = [phase EXCEPT ![w] = "ack"]
    /\ UNCHANGED <<handler, serving, read, history, losses>>

\* _persist_shap swallows the database's error: the task succeeds all the same.
ExplanationNotStored(w) ==
    /\ Serves(w, "shap")
    /\ ~Rejected(w)
    /\ Fails
    /\ Finish(w, shap[Subject(w)])

\* _run_shap raises, or exceeds its soft time limit.
ShapRaises(w) == Serves(w, "shap") /\ Retry(w, 1)

\* The hard time limit ends the process; Celery acknowledges the delivery.
ShapTimesOut(w) ==
    /\ Serves(w, "shap")
    /\ Fails
    /\ settled' = settled \cup {serving[w].task}
    /\ serving' = [serving EXCEPT ![w] = None]
    /\ phase' = [phase EXCEPT ![w] = "idle"]
    /\ UNCHANGED <<handler, shap, queue, read, sent, attempts, losses>>

\* task_acks_late: the broker forgets a delivery when its task has ended.
Acknowledge(w) ==
    /\ phase[w] = "ack"
    /\ serving' = [serving EXCEPT ![w] = None]
    /\ phase' = [phase EXCEPT ![w] = "idle"]
    /\ UNCHANGED <<handler, shap, queue, read, history, faults, losses>>

\* Variant of WorkerLost: without the setting the delivery goes with the process.
WorkerLostForGood(w) ==
    /\ serving[w] # None
    /\ losses < MaxLosses
    /\ losses' = losses + 1
    /\ serving' = [serving EXCEPT ![w] = None]
    /\ phase' = [phase EXCEPT ![w] = "idle"]
    /\ UNCHANGED <<handler, shap, queue, read, history, faults>>

\* task_reject_on_worker_lost: what a process held when it died comes back,
\* with the retries it had, even if its own retry is in the queue already.
WorkerLost(w) ==
    /\ serving[w] # None
    /\ losses < MaxLosses
    /\ losses' = losses + 1
    /\ Enqueue(serving[w])
    /\ serving' = [serving EXCEPT ![w] = None]
    /\ phase' = [phase EXCEPT ![w] = "idle"]
    /\ UNCHANGED <<handler, shap, read, history, faults>>
-----------------------------------------------------------------------------
(* GET /api/v1/alerts/{alert_id}, for the alert of r.                      *)

\* build_evidence_package takes the first score row of the transaction, in no
\* stated order.
Explanations(r) == {shap[q] : q \in {p \in scored : TransactionOf[p] = TransactionOf[r]}}

\* generate_str_draft asks the explanation for "top_features" as if it were a
\* dict: that raises for every list with an element.  The access log is
\* written for a key the package does not have, that is, never.
AnswerFor(explanation) == IF explanation = "list" THEN "error" ELSE "package"

GetAlert(r) ==
    /\ \/ /\ r \in scored /\ Raises(outcome[r])
          /\ \E x \in Explanations(r) : read' = [read EXCEPT ![r] = AnswerFor(x)]
       \/ /\ pc[r] # "new" /\ Raises(outcome[r])
          /\ r \notin scored
          /\ read' = [read EXCEPT ![r] = "missing"]
    /\ UNCHANGED <<handler, shap, broker, history, faults, losses>>
-----------------------------------------------------------------------------
Init ==
    /\ pc = [r \in Requests |-> "new"]
    /\ outcome = [r \in Requests |-> "gate"]
    /\ fits \in BOOLEAN
    /\ scored = {}
    /\ shap = [r \in Requests |-> "none"]
    /\ queue = [m \in Messages |-> 0]
    /\ serving = [w \in Workers |-> None]
    /\ phase = [w \in Workers |-> "idle"]
    /\ read = [r \in Requests |-> "none"]
    /\ sent = {}
    /\ settled = {}
    /\ attempts = [t \in Tasks |-> 0]
    /\ faults = 0
    /\ losses = 0

\* What a pool process does of itself, and what happens to it.
Runs(w) ==
    \/ Take(w)
    \/ TrailRaises(w)
    \/ Explain(w) \/ ExplainNothing(w) \/ ExplainWithoutModel(w)
    \/ ExplanationNotStored(w)
    \/ ModelRejects(w) \/ ShapRaises(w)
    \/ Acknowledge(w)

Handles(r) == Stage(r) \/ Commit(r) \/ DispatchShap(r)

Next ==
    \/ \E r \in Requests : Handles(r) \/ HandlerFails(r) \/ GetAlert(r)
    \/ \E w \in Workers : Runs(w) \/ ShapTimesOut(w) \/ WorkerLost(w)

Spec == Init /\ [][Next]_vars

\* The handlers finish and the pool keeps working; callers, failures, deaths
\* and investigators owe nothing.
Fairness ==
    /\ \A r \in Requests : WF_vars(Commit(r) \/ DispatchShap(r))
    /\ \A w \in Workers : WF_vars(Runs(w))

FairSpec == Spec /\ Fairness
-----------------------------------------------------------------------------
TypeOK ==
    /\ pc \in [Requests -> {"new", "staged", "committed", "answered", "failed"}]
    /\ outcome \in [Requests -> Outcomes]
    /\ fits \in BOOLEAN
    /\ scored \subseteq Requests
    /\ shap \in [Requests -> {"none", "list"}]
    /\ queue \in [Messages -> Nat]
    /\ serving \in [Workers -> Messages \cup {None}]
    /\ phase \in [Workers -> {"idle", "run", "ack"}]
    /\ read \in [Requests -> {"none", "package", "error", "missing"}]
    /\ sent \subseteq Tasks
    /\ settled \subseteq sent
    /\ attempts \in [Tasks -> 0..AttemptCap]
    /\ faults \in 0..MaxFaults
    /\ losses \in 0..MaxLosses

\* Late acknowledgement: whatever processes die, a task that was sent has
\* ended or is still with the broker or a process (celeryconfig.py,
\* task_acks_late and task_reject_on_worker_lost).
NoTaskLost == \A t \in sent \ settled : InFlight(t)

\* Retries and redeliveries multiply: a process that dies after publishing its
\* retry starts the whole rest of the series once more.  They cannot do worse
\* than one full series of attempts per death (trail_builder.py max_retries).
AttemptsBounded ==
    \A t \in Tasks : attempts[t] <= (MaxRetries[t[1]] + 1) * (losses + 1)

\* compute_shap stores an empty list when its process has no model.  That can
\* replace an explanation only when the task is delivered again after a death.
WithdrawnOnlyByRedelivery ==
    [][\A r \in Requests :
          shap[r] = "list" /\ shap'[r] # "list" => losses > 0 /\ faults' > 0]_vars

\* Every durable Tier 3 score with a feature vector is explained in the end if
\* the model takes the vector and nothing fails but pool processes: they may die
\* at any step (celeryconfig.py).  A canary's score never is, and none is in
\* shadow mode with the model of ml/train.py.
EventuallyExplained ==
    \A r \in Requests :
        (r \in scored /\ HasVector(outcome[r]) /\ fits)
            ~> (shap[r] = "list" \/ faults > 0)

\* Retries, redeliveries and failures come to an end: no task circulates for
\* ever (trail_builder.py and shap_explainer.py max_retries).
TasksSettle == \A t \in Tasks : t \in sent ~> (t \in settled /\ ~InFlight(t))

\* agent_docs/api.md describes the answer for every alert there is as the
\* evidence package with its explanation: an alert that can be found can be read.
AlertReadable == \A r \in Requests : read[r] # "error"
=============================================================================
