------------------------ MODULE EvidenceTasksProofs ------------------------
(***************************************************************************)
(* Theorems about EvidenceTasks and the connection pool, for every set of  *)
(* requests, processes and callers and every bound on retries, failures,   *)
(* deaths and connections.                                                 *)
(***************************************************************************)
EXTENDS MCEvidenceTasks, FiniteSetTheorems, TLAPS

-----------------------------------------------------------------------------
(* Messages.                                                               *)

\* What a message is made of.
LEMMA MessageParts ==
    ASSUME NEW m \in Messages
    PROVE  /\ m.task \in Tasks /\ m.task[1] \in Kinds /\ m.task[2] \in Requests
           /\ MaxRetries[m.task[1]] \in Nat
           /\ m.retries \in 0 .. MaxRetries[m.task[1]]
<1>1. PICK t \in Tasks : m \in [task : {t}, retries : 0 .. MaxRetries[t[1]]]
  BY DEF Messages
<1>2. t[1] \in Kinds /\ t[2] \in Requests
  BY DEF Tasks
<1> QED
  BY <1>1, <1>2, EvidenceAssumption

\* The messages the code builds are messages.
LEMMA MessageBuilt ==
    ASSUME NEW t \in Tasks, NEW n \in 0 .. MaxRetries[t[1]]
    PROVE  Message(t, n) \in Messages /\ Message(t, n).task = t
BY DEF Message, Messages

\* A task has a first attempt, whatever its retries.
LEMMA FirstMessage ==
    ASSUME NEW k \in Kinds, NEW r \in Requests
    PROVE  /\ <<k, r>> \in Tasks
           /\ Message(<<k, r>>, 0) \in Messages
           /\ Message(<<k, r>>, 0).task = <<k, r>>
<1>1. <<k, r>> \in Tasks /\ <<k, r>>[1] = k
  BY DEF Tasks
<1>2. 0 \in 0 .. MaxRetries[k]
  BY EvidenceAssumption
<1> QED
  BY <1>1, <1>2, MessageBuilt
-----------------------------------------------------------------------------
(* The invariant.                                                          *)

\* A delivery is held exactly while a process is busy.
Busy == \A w \in Workers : phase[w] = "idle" <=> serving[w] = None

\* Only tasks that were sent circulate.
OnlySent ==
    /\ \A m \in Messages : queue[m] > 0 => m.task \in sent
    /\ \A w \in Workers : serving[w] # None => serving[w].task \in sent

Queued(t) == \E m \in Messages : m.task = t /\ queue[m] > 0

Running(t) == \E w \in Workers : phase[w] = "run" /\ serving[w].task = t

\* What has not settled has an attempt to come or under way: a delivery that
\* waits for its acknowledgement only does not count.
Kept == \A t \in sent \ settled : Queued(t) \/ Running(t)

TaskInv == TypeOK /\ Busy /\ OnlySent /\ Kept

\* The initial state satisfies the inductive invariant.
LEMMA TaskInvInit == Init => TaskInv
<1> SUFFICES ASSUME Init PROVE TaskInv
  OBVIOUS
<1>1. TypeOK
  BY EvidenceAssumption DEF Init, TypeOK, Outcomes
<1>2. Busy /\ OnlySent /\ Kept
  BY DEF Init, Busy, OnlySent, Kept
<1> QED
  BY <1>1, <1>2 DEF TaskInv
-----------------------------------------------------------------------------
(* The bag of messages.                                                    *)

\* A message more: its task circulates, the others as before.
LEMMA EnqueueKeeps ==
    ASSUME queue \in [Messages -> Nat], NEW m \in Messages, Enqueue(m)
    PROVE  /\ queue' \in [Messages -> Nat]
           /\ queue'[m] > 0
           /\ \A n \in Messages : queue[n] > 0 => queue'[n] > 0
           /\ \A n \in Messages : queue'[n] > 0 => queue[n] > 0 \/ n = m
           /\ Queued(m.task)'
           /\ \A t : Queued(t) => Queued(t)'
<1>1. \A n \in Messages : queue'[n] = IF n = m THEN queue[m] + 1 ELSE queue[n]
  BY DEF Enqueue
<1>2. queue' \in [Messages -> Nat] /\ queue'[m] > 0
  BY DEF Enqueue
<1>3. \A n \in Messages : /\ queue[n] > 0 => queue'[n] > 0
                          /\ queue'[n] > 0 => queue[n] > 0 \/ n = m
  BY <1>1
<1>4. Queued(m.task)' /\ \A t : Queued(t) => Queued(t)'
  BY <1>2, <1>3 DEF Queued
<1> QED
  BY <1>2, <1>3, <1>4
-----------------------------------------------------------------------------
(* The steps.                                                              *)

\* The handler sends a task, or does not.
LEMMA SendKeeps ==
    ASSUME TaskInv, NEW k \in Kinds, NEW r \in Requests,
           \/ /\ Enqueue(Message(<<k, r>>, 0))
              /\ sent' = sent \cup {<<k, r>>}
           \/ UNCHANGED <<queue, sent>>,
           UNCHANGED <<serving, phase, settled>>
    PROVE  /\ queue' \in [Messages -> Nat]
           /\ sent' \subseteq Tasks /\ settled' \subseteq sent'
           /\ Busy' /\ OnlySent' /\ Kept'
<1>0. /\ queue \in [Messages -> Nat] /\ sent \subseteq Tasks /\ settled \subseteq sent
      /\ Busy /\ OnlySent /\ Kept
  BY DEF TaskInv, TypeOK
<1>1. Busy'
  BY <1>0 DEF Busy
<1>2. \A t : Running(t)' <=> Running(t)
  BY DEF Running
<1>3. CASE Enqueue(Message(<<k, r>>, 0)) /\ sent' = sent \cup {<<k, r>>}
  <2> DEFINE m == Message(<<k, r>>, 0)
  <2>1. m \in Messages /\ m.task = <<k, r>> /\ <<k, r>> \in Tasks
    BY FirstMessage
  <2> HIDE DEF m
  <2>2. /\ queue' \in [Messages -> Nat]
        /\ \A n \in Messages : queue'[n] > 0 => queue[n] > 0 \/ n = m
        /\ Queued(m.task)'
        /\ \A t : Queued(t) => Queued(t)'
    BY <1>0, <1>3, <2>1, EnqueueKeeps DEF m
  <2>3. OnlySent'
    BY <1>0, <1>3, <2>1, <2>2 DEF OnlySent
  <2>4. Kept'
    BY <1>0, <1>2, <1>3, <2>1, <2>2 DEF Kept
  <2> QED
    BY <1>0, <1>1, <1>3, <2>1, <2>2, <2>3, <2>4
<1>4. CASE UNCHANGED <<queue, sent>>
  BY <1>0, <1>1, <1>2, <1>4 DEF OnlySent, Kept, Queued
<1> QED
  BY <1>3, <1>4

\* A process passes from running to acknowledging: it has settled its task or
\* published another attempt.
LEMMA EndKeeps ==
    ASSUME TaskInv, NEW w \in Workers, phase[w] = "run",
           phase' = [phase EXCEPT ![w] = "ack"],
           queue' \in [Messages -> Nat],
           \A n \in Messages : queue'[n] > 0 => queue[n] > 0 \/ n.task = serving[w].task,
           \A t : Queued(t) => Queued(t)',
           serving[w].task \in settled' \/ Queued(serving[w].task)',
           settled \subseteq settled', settled' \subseteq settled \cup {serving[w].task},
           UNCHANGED <<serving, sent>>
    PROVE  settled' \subseteq sent' /\ Busy' /\ OnlySent' /\ Kept'
<1>0. /\ phase \in [Workers -> {"idle", "run", "ack"}] /\ settled \subseteq sent
      /\ Busy /\ OnlySent /\ Kept
  BY DEF TaskInv, TypeOK
<1>1. serving[w] # None /\ serving[w].task \in sent
  BY <1>0 DEF Busy, OnlySent
<1>2. Busy'
  BY <1>0, <1>1 DEF Busy
<1>3. OnlySent'
  BY <1>0, <1>1 DEF OnlySent
<1>4. \A t : Running(t) => Running(t)' \/ t = serving[w].task
  BY <1>0 DEF Running
<1>5. Kept'
  BY <1>0, <1>4 DEF Kept
<1> QED
  BY <1>0, <1>1, <1>2, <1>3, <1>5

\* The steps of the handler preserve the invariant.
LEMMA HandlerKeeps ==
    ASSUME TaskInv, NEW r \in Requests, Handles(r) \/ HandlerFails(r)
    PROVE  TaskInv'
<1> USE DEF TaskInv
<1>1. CASE Stage(r)
  <2>1. /\ \/ Enqueue(Message(<<"trail", r>>, 0)) /\ sent' = sent \cup {<<"trail", r>>}
           \/ UNCHANGED <<queue, sent>>
        /\ UNCHANGED <<serving, phase, settled>>
    BY <1>1 DEF Stage
  <2>2. "trail" \in Kinds
    BY DEF Kinds
  <2>3. /\ queue' \in [Messages -> Nat]
        /\ sent' \subseteq Tasks /\ settled' \subseteq sent'
        /\ Busy' /\ OnlySent' /\ Kept'
    BY <2>1, <2>2, SendKeeps
  <2>4. faults' \in 0 .. MaxFaults
    BY <1>1, EvidenceAssumption DEF Stage, TypeOK, Fails
  <2>5. outcome' \in [Requests -> Outcomes]
    BY <1>1 DEF Stage, TypeOK
  <2> QED
    BY <1>1, <2>3, <2>4, <2>5 DEF Stage, TypeOK
<1>2. CASE Commit(r)
  BY <1>2 DEF Commit, TypeOK, broker, history, Busy, OnlySent, Kept, Queued, Running
<1>3. CASE DispatchShap(r)
  <2>1. /\ \/ Enqueue(Message(<<"shap", r>>, 0)) /\ sent' = sent \cup {<<"shap", r>>}
           \/ UNCHANGED <<queue, sent>>
        /\ UNCHANGED <<serving, phase, settled>>
    BY <1>3 DEF DispatchShap
  <2>2. "shap" \in Kinds
    BY DEF Kinds
  <2>3. /\ queue' \in [Messages -> Nat]
        /\ sent' \subseteq Tasks /\ settled' \subseteq sent'
        /\ Busy' /\ OnlySent' /\ Kept'
    BY <2>1, <2>2, SendKeeps
  <2> QED
    BY <1>3, <2>3 DEF DispatchShap, TypeOK
<1>4. CASE HandlerFails(r)
  <2>1. faults' \in 0 .. MaxFaults
    BY <1>4, EvidenceAssumption DEF HandlerFails, TypeOK, Fails
  <2> QED
    BY <1>4, <2>1 DEF HandlerFails, TypeOK, broker, history, Busy, OnlySent, Kept,
                      Queued, Running
<1> QED
  BY <1>1, <1>2, <1>3, <1>4 DEF Handles

\* An idle process takes a message: what was queued is running.
LEMMA TakeKeeps ==
    ASSUME TaskInv, NEW w \in Workers, Take(w)
    PROVE  TaskInv'
<1> USE DEF TaskInv
<1>1. PICK m \in Messages :
         /\ queue[m] > 0
         /\ queue' = [queue EXCEPT ![m] = @ - 1]
         /\ serving' = [serving EXCEPT ![w] = m]
         /\ Count(m.task)
  BY DEF Take
<1>2. serving[w] = None /\ phase' = [phase EXCEPT ![w] = "run"]
  BY DEF Take
<1>3. None \notin Messages /\ m # None /\ m.task \in Tasks
  BY EvidenceAssumption, MessageParts
<1>4. queue' \in [Messages -> Nat] /\ \A n \in Messages : queue'[n] > 0 => queue[n] > 0
  BY <1>1 DEF TypeOK
<1>5. attempts' \in [Tasks -> 0 .. AttemptCap]
  <2>1. AttemptCap \in Nat /\ attempts \in [Tasks -> 0 .. AttemptCap]
    BY EvidenceAssumption DEF TypeOK
  <2>2. attempts' = [attempts EXCEPT ![m.task] =
                        IF @ < AttemptCap THEN @ + 1 ELSE @]
    BY <1>1 DEF Count
  <2>3. attempts[m.task] \in 0 .. AttemptCap
    BY <1>3, <2>1
  <2>4. (IF attempts[m.task] < AttemptCap THEN attempts[m.task] + 1
         ELSE attempts[m.task]) \in 0 .. AttemptCap
    BY <2>1, <2>3
  <2> QED
    BY <2>1, <2>2, <2>4
<1>6. TypeOK'
  BY <1>1, <1>2, <1>4, <1>5 DEF Take, TypeOK, handler
<1>7. Busy'
  BY <1>1, <1>2, <1>3 DEF Busy, TypeOK
<1>8. OnlySent'
  BY <1>1, <1>4 DEF Take, OnlySent, TypeOK
<1>9. phase[w] # "run"
  BY <1>2 DEF Busy
<1>10. \A t : Running(t) => Running(t)'
  BY <1>1, <1>2, <1>9 DEF Running, TypeOK
<1>11. Running(m.task)'
  BY <1>1, <1>2 DEF Running, TypeOK
<1>12. \A t : Queued(t) => Queued(t)' \/ t = m.task
  BY <1>1 DEF Queued, TypeOK
<1>13. Kept'
  BY <1>10, <1>11, <1>12 DEF Take, Kept
<1> QED
  BY <1>6, <1>7, <1>8, <1>13

\* A failed attempt publishes the next one or settles its task.
LEMMA RetryKeeps ==
    ASSUME TaskInv, NEW w \in Workers, NEW of \in {0, 1}, phase[w] = "run", Retry(w, of)
    PROVE  TaskInv'
<1> USE DEF TaskInv
<1>0. PICK m \in Messages : m = serving[w]
  BY DEF TypeOK, Busy
<1>1. m.task \in sent
  BY <1>0 DEF Busy, OnlySent
<1>2. m.task \in Tasks /\ MaxRetries[m.task[1]] \in Nat /\ m.retries \in 0 .. MaxRetries[m.task[1]]
  BY MessageParts
<1>3. faults' \in 0 .. MaxFaults /\ phase' = [phase EXCEPT ![w] = "ack"]
  BY EvidenceAssumption DEF Retry, TypeOK
<1>4. /\ queue' \in [Messages -> Nat]
      /\ \A n \in Messages : queue'[n] > 0 => queue[n] > 0 \/ n.task = m.task
      /\ \A t : Queued(t) => Queued(t)'
      /\ m.task \in settled' \/ Queued(m.task)'
      /\ settled \subseteq settled' /\ settled' \subseteq settled \cup {m.task}
  <2>1. CASE m.retries < MaxRetries[m.task[1]] /\ Enqueue(Message(m.task, m.retries + 1))
             /\ UNCHANGED settled
    <3>1. m.retries + 1 \in 0 .. MaxRetries[m.task[1]]
      BY <1>2, <2>1
    <3>2. PICK n \in Messages : n = Message(m.task, m.retries + 1) /\ n.task = m.task
      BY <1>2, <3>1, MessageBuilt
    <3>3. Enqueue(n) /\ queue \in [Messages -> Nat]
      BY <2>1, <3>2 DEF TypeOK
    <3>4. /\ queue' \in [Messages -> Nat]
          /\ \A o \in Messages : queue'[o] > 0 => queue[o] > 0 \/ o = n
          /\ Queued(n.task)'
          /\ \A t : Queued(t) => Queued(t)'
      BY <3>2, <3>3, EnqueueKeeps
    <3> QED
      BY <2>1, <3>2, <3>4
  <2>2. CASE settled' = settled \cup {m.task} /\ UNCHANGED queue
    BY <2>2 DEF TypeOK, Queued
  <2> QED
    BY <1>0, <2>1, <2>2 DEF Retry
<1>5. UNCHANGED <<serving, sent>>
  BY DEF Retry
<1>6. settled' \subseteq sent' /\ Busy' /\ OnlySent' /\ Kept'
  BY <1>0, <1>3, <1>4, <1>5, EndKeeps
<1>7. TypeOK'
  BY <1>3, <1>4, <1>5, <1>6 DEF Retry, TypeOK, handler
<1> QED
  BY <1>6, <1>7

\* A SHAP task that ends settles its task, whatever it wrote.
LEMMA FinishKeeps ==
    ASSUME TaskInv, NEW w \in Workers, NEW result \in {"none", "list"},
           phase[w] = "run", Finish(w, result), faults' \in 0 .. MaxFaults
    PROVE  TaskInv'
<1> USE DEF TaskInv
<1>1. phase' = [phase EXCEPT ![w] = "ack"] /\ UNCHANGED <<queue, serving, sent>>
      /\ settled' = settled \cup {serving[w].task}
  BY DEF Finish
<1>2. queue' \in [Messages -> Nat] /\ \A t : Queued(t) => Queued(t)'
  BY <1>1 DEF TypeOK, Queued
<1>3. settled' \subseteq sent' /\ Busy' /\ OnlySent' /\ Kept'
  BY <1>1, <1>2, EndKeeps
<1>4. shap' \in [Requests -> {"none", "list"}]
  BY DEF Finish, TypeOK
<1>5. TypeOK'
  BY <1>1, <1>3, <1>4 DEF Finish, TypeOK, handler
<1> QED
  BY <1>3, <1>5

\* The hard time limit settles the task and frees its process.
LEMMA TimeOutKeeps ==
    ASSUME TaskInv, NEW w \in Workers, ShapTimesOut(w)
    PROVE  TaskInv'
<1> USE DEF TaskInv, ShapTimesOut
<1>1. phase[w] = "run" /\ serving[w] # None /\ serving[w].task \in sent
  BY DEF Serves, Busy, OnlySent
<1>2. faults' \in 0 .. MaxFaults
  BY EvidenceAssumption DEF Fails, TypeOK
<1>3. TypeOK'
  BY <1>1, <1>2 DEF TypeOK, handler
<1>4. Busy'
  BY DEF Busy, TypeOK
<1>5. OnlySent'
  BY DEF OnlySent, TypeOK
<1>6. \A t : Running(t) => Running(t)' \/ t = serving[w].task
  BY DEF Running, TypeOK
<1>7. Kept'
  BY <1>6 DEF Kept, Queued
<1> QED
  BY <1>3, <1>4, <1>5, <1>7

\* The broker forgets a delivery that counted for nothing any more.
LEMMA AcknowledgeKeeps ==
    ASSUME TaskInv, NEW w \in Workers, Acknowledge(w)
    PROVE  TaskInv'
<1> USE DEF TaskInv, Acknowledge
<1>1. TypeOK'
  BY DEF TypeOK, handler, history
<1>2. Busy'
  BY DEF Busy, TypeOK
<1>3. OnlySent'
  BY DEF OnlySent, TypeOK, history
<1>4. \A t : Running(t) => Running(t)'
  BY DEF Running, TypeOK
<1>5. Kept'
  BY <1>4 DEF Kept, Queued, history
<1> QED
  BY <1>1, <1>2, <1>3, <1>5

\* What a process held when it died is queued again.
LEMMA LossKeeps ==
    ASSUME TaskInv, NEW w \in Workers, WorkerLost(w)
    PROVE  TaskInv'
<1> USE DEF TaskInv
<1>0. PICK m \in Messages : m = serving[w]
  BY DEF WorkerLost, TypeOK
<1>1. /\ m # None /\ losses < MaxLosses /\ losses' = losses + 1 /\ Enqueue(m)
      /\ serving' = [serving EXCEPT ![w] = None]
      /\ phase' = [phase EXCEPT ![w] = "idle"]
      /\ UNCHANGED <<handler, shap, read, history, faults>>
  BY <1>0 DEF WorkerLost
<1>2. m.task \in sent /\ queue \in [Messages -> Nat]
  BY <1>0, <1>1 DEF TypeOK, OnlySent
<1>3. /\ queue' \in [Messages -> Nat]
      /\ \A n \in Messages : queue'[n] > 0 => queue[n] > 0 \/ n = m
      /\ Queued(m.task)'
      /\ \A t : Queued(t) => Queued(t)'
  BY <1>1, <1>2, EnqueueKeeps
<1>4. losses' \in 0 .. MaxLosses
  BY <1>1, EvidenceAssumption DEF TypeOK
<1>5. TypeOK'
  BY <1>1, <1>3, <1>4 DEF TypeOK, handler, history
<1>6. Busy'
  BY <1>1 DEF Busy, TypeOK
<1>7. OnlySent'
  BY <1>1, <1>2, <1>3 DEF OnlySent, TypeOK, history
<1>8. \A t : Running(t) => Running(t)' \/ t = m.task
  BY <1>0, <1>1 DEF Running, TypeOK
<1>9. Kept'
  BY <1>1, <1>3, <1>8 DEF Kept, history
<1> QED
  BY <1>5, <1>6, <1>7, <1>9

\* Every step preserves the invariant.
LEMMA TaskInvNext == TaskInv /\ [Next]_vars => TaskInv'
<1> SUFFICES ASSUME TaskInv, [Next]_vars PROVE TaskInv'
  OBVIOUS
<1> USE DEF TaskInv
<1>1. ASSUME NEW r \in Requests, Handles(r) \/ HandlerFails(r)
      PROVE  TaskInv'
  BY <1>1, HandlerKeeps
<1>2. ASSUME NEW r \in Requests, GetAlert(r)
      PROVE  TaskInv'
  <2>1. read' \in [Requests -> {"none", "package", "error", "missing"}]
    BY <1>2 DEF GetAlert, AnswerFor, TypeOK
  <2> QED
    BY <1>2, <2>1 DEF GetAlert, TypeOK, handler, broker, history, Busy, OnlySent, Kept,
                      Queued, Running
<1>3. ASSUME NEW w \in Workers, Runs(w)
      PROVE  TaskInv'
  <2>1. CASE TrailRaises(w)
    BY <2>1, RetryKeeps DEF TrailRaises, Serves
  <2>2. CASE ShapRaises(w) \/ ModelRejects(w)
    BY <2>2, RetryKeeps DEF ShapRaises, ModelRejects, Serves
  <2>3. ASSUME Serves(w, "shap")
        PROVE  phase[w] = "run" /\ Subject(w) \in Requests
    <3>1. phase[w] = "run" /\ serving[w] \in Messages
      BY <2>3 DEF Serves, TypeOK, Busy
    <3> QED
      BY <3>1, MessageParts DEF Subject
  <2>4. CASE Explain(w)
    <3>1. (IF Subject(w) \in scored THEN "list" ELSE shap[Subject(w)]) \in {"none", "list"}
      BY <2>3, <2>4 DEF Explain, TypeOK
    <3> QED
      BY <2>3, <2>4, <3>1, FinishKeeps DEF Explain, TypeOK
  <2>5. CASE ExplainWithoutModel(w) \/ ExplanationNotStored(w)
    <3>1. faults' \in 0 .. MaxFaults /\ shap[Subject(w)] \in {"none", "list"}
      BY <2>3, <2>5, EvidenceAssumption
      DEF ExplainWithoutModel, ExplanationNotStored, Fails, TypeOK
    <3> QED
      BY <2>3, <2>5, <3>1, FinishKeeps DEF ExplainWithoutModel, ExplanationNotStored
  <2>6. CASE ExplainNothing(w)
    <3>1. phase[w] = "run" /\ faults \in 0 .. MaxFaults
      BY <2>3, <2>6 DEF ExplainNothing, TypeOK
    <3>2. CASE Finish(w, "none") /\ UNCHANGED faults
      BY <3>1, <3>2, FinishKeeps
    <3>3. CASE Retry(w, 0)
      BY <3>1, <3>3, RetryKeeps
    <3> QED
      BY <2>6, <3>2, <3>3 DEF ExplainNothing
  <2> QED
    BY <1>3, <2>1, <2>2, <2>4, <2>5, <2>6, TakeKeeps, AcknowledgeKeeps DEF Runs
<1>4. ASSUME NEW w \in Workers, ShapTimesOut(w) \/ WorkerLost(w)
      PROVE  TaskInv'
  BY <1>4, TimeOutKeeps, LossKeeps
<1>5. CASE UNCHANGED vars
  BY <1>5 DEF TypeOK, vars, handler, broker, history, Busy, OnlySent, Kept, Queued, Running
<1> QED
  BY <1>1, <1>2, <1>3, <1>4, <1>5 DEF Next
-----------------------------------------------------------------------------
\* The invariant holds of every behaviour.
LEMMA TaskInvAlways == Spec => []TaskInv
BY TaskInvInit, TaskInvNext, PTL DEF Spec

\* Messages, deliveries, statuses and counters keep their types: no retry
\* count passes max_retries and nothing settles that was not sent.
THEOREM TypeCorrect == Spec => []TypeOK
BY TaskInvAlways, PTL DEF TaskInv

\* Whatever dies and whatever fails, a task that was sent has ended or is with
\* the broker or a process (celeryconfig.py, task_acks_late).
THEOREM TasksAreKept == Spec => []NoTaskLost
<1>1. TaskInv => NoTaskLost
  <2> SUFFICES ASSUME TaskInv, NEW t \in sent \ settled PROVE InFlight(t)
    BY DEF NoTaskLost
  <2>1. Queued(t) \/ Running(t)
    BY DEF TaskInv, Kept
  <2>2. CASE Running(t)
    BY <2>2 DEF TaskInv, Busy, Running, InFlight
  <2>3. CASE Queued(t)
    BY <2>3 DEF Queued, InFlight
  <2> QED
    BY <2>1, <2>2, <2>3
<1> QED
  BY <1>1, TaskInvAlways, PTL
-----------------------------------------------------------------------------
(* As long as no process dies, a task has at most one attempt to come or   *)
(* under way, and none once it has settled.                                *)

Attempts(w, t) == phase[w] = "run" /\ serving[w].task = t

Once(t) ==
    /\ \A m, n \in Messages :
          m.task = t /\ n.task = t /\ queue[m] > 0 /\ queue[n] > 0 => m = n /\ queue[m] = 1
    /\ \A v, w \in Workers : Attempts(v, t) /\ Attempts(w, t) => v = w
    /\ ~(Queued(t) /\ Running(t))
    /\ t \in settled => ~Queued(t) /\ ~Running(t)

\* A task is sent at one step of the handler, and explains when it settles,
\* from a feature vector.
SentOnce ==
    \A r \in Requests :
        /\ pc[r] = "new" => <<"trail", r>> \notin sent
        /\ pc[r] \in {"new", "staged", "committed"} => <<"shap", r>> \notin sent
        /\ shap[r] = "list" => <<"shap", r>> \in settled /\ HasVector(outcome[r])

AllOnce == losses = 0 => \A t \in Tasks : Once(t)

OnceInv == SentOnce /\ AllOnce

\* It holds at the start.
LEMMA OnceInvInit == Init => OnceInv
<1> SUFFICES ASSUME Init PROVE OnceInv
  OBVIOUS
<1>1. SentOnce
  BY DEF Init, SentOnce
<1>2. ASSUME NEW t \in Tasks PROVE Once(t)
  BY DEF Init, Once, Attempts, Queued, Running
<1> QED
  BY <1>1, <1>2 DEF OnceInv, AllOnce

\* A task that a step does not concern stays as it is.
LEMMA OnceElsewhere ==
    ASSUME NEW t, Once(t),
           \A m \in Messages : m.task = t => queue'[m] = queue[m],
           \A w \in Workers : Attempts(w, t)' <=> Attempts(w, t),
           t \in settled' => t \in settled
    PROVE  Once(t)'
BY DEF Once, Attempts, Queued, Running

\* A first attempt is the only one.
LEMMA SendOnce ==
    ASSUME TaskInv, AllOnce, UNCHANGED <<serving, phase, settled, losses>>,
           NEW k \in Kinds, NEW r \in Requests, <<k, r>> \notin sent,
           Enqueue(Message(<<k, r>>, 0))
    PROVE  AllOnce'
<1> SUFFICES ASSUME losses = 0, NEW t \in Tasks PROVE Once(t)'
  BY DEF AllOnce
<1>0. PICK m \in Messages : m = Message(<<k, r>>, 0) /\ m.task = <<k, r>>
  BY FirstMessage
<1>1. queue \in [Messages -> Nat] /\ queue' = [queue EXCEPT ![m] = @ + 1]
  BY <1>0 DEF Enqueue, TaskInv, TypeOK
<1>2. \A w \in Workers : Attempts(w, t)' <=> Attempts(w, t)
  BY DEF Attempts
<1>3. CASE t = m.task
  <2>1. /\ \A n \in Messages : n.task = t => ~(queue[n] > 0)
        /\ \A w \in Workers : ~Attempts(w, t)
        /\ t \notin settled
    BY <1>0, <1>3 DEF TaskInv, OnlySent, Busy, Attempts, TypeOK
  <2>2. \A n \in Messages : n.task = t /\ queue'[n] > 0 => n = m /\ queue'[n] = 1
    BY <1>1, <2>1
  <2>3. \A w \in Workers : ~Attempts(w, t)'
    BY <1>2, <2>1
  <2> QED
    BY <2>1, <2>2, <2>3 DEF Once, Attempts, Running
<1>4. CASE t # m.task
  BY <1>1, <1>2, <1>4, OnceElsewhere DEF AllOnce
<1> QED
  BY <1>3, <1>4

\* The attempt under way is the only one: when it ends the next one is.
LEMMA EndOnce ==
    ASSUME TaskInv, AllOnce, NEW w \in Workers, phase[w] = "run",
           UNCHANGED losses,
           \A v \in Workers : phase'[v] = "run" <=> phase[v] = "run" /\ v # w,
           \A v \in Workers \ {w} : serving'[v] = serving[v],
           \/ /\ queue' = queue /\ settled' = settled \cup {serving[w].task}
           \/ /\ settled' = settled
              /\ \E n \in Messages : n.task = serving[w].task /\ Enqueue(n)
    PROVE  AllOnce'
<1> SUFFICES ASSUME losses = 0, NEW t \in Tasks PROVE Once(t)'
  BY DEF AllOnce
<1>0. PICK m \in Messages : m = serving[w]
  BY DEF TaskInv, TypeOK, Busy
<1>1. m.task \in Tasks /\ queue \in [Messages -> Nat]
  BY MessageParts DEF TaskInv, TypeOK
<1>2. CASE t = m.task
  <2>1. Once(t) /\ Attempts(w, t) /\ Running(t)
    BY <1>0, <1>2 DEF AllOnce, Attempts, Running
  <2>2. /\ \A n \in Messages : n.task = t => queue[n] = 0
        /\ \A v \in Workers : v # w => ~Attempts(v, t)
        /\ t \notin settled
    BY <1>1, <2>1 DEF Once, Queued
  <2>3. \A v \in Workers : ~Attempts(v, t)'
    BY <2>2 DEF Attempts
  <2>4. ~Running(t)'
    BY <2>3 DEF Attempts, Running
  <2>5. CASE queue' = queue /\ settled' = settled \cup {serving[w].task}
    BY <2>2, <2>3, <2>4, <2>5 DEF Once, Queued
  <2>6. CASE settled' = settled /\ \E n \in Messages : n.task = serving[w].task /\ Enqueue(n)
    <3>1. PICK n \in Messages : Enqueue(n)
      BY <2>6
    <3>2. \A o \in Messages : o.task = t /\ queue'[o] > 0 => o = n /\ queue'[o] = 1
      BY <1>1, <2>2, <3>1 DEF Enqueue
    <3> QED
      BY <2>2, <2>3, <2>4, <2>6, <3>2 DEF Once
  <2> QED
    BY <2>5, <2>6
<1>3. CASE t # m.task
  <2>1. \A v \in Workers : Attempts(v, t)' <=> Attempts(v, t)
    BY <1>0, <1>3 DEF Attempts
  <2>2. \A n \in Messages : n.task = t => queue'[n] = queue[n]
    BY <1>0, <1>1, <1>3 DEF Enqueue
  <2>3. t \in settled' => t \in settled
    BY <1>0, <1>3
  <2> QED
    BY <2>1, <2>2, <2>3, OnceElsewhere DEF AllOnce
<1> QED
  BY <1>2, <1>3

\* The message that is taken was the only one of its task.
LEMMA TakeOnce ==
    ASSUME TaskInv, AllOnce, NEW w \in Workers, Take(w)
    PROVE  AllOnce'
<1> SUFFICES ASSUME losses = 0, NEW t \in Tasks PROVE Once(t)'
  BY DEF AllOnce, Take
<1>1. PICK m \in Messages :
         /\ queue[m] > 0
         /\ queue' = [queue EXCEPT ![m] = @ - 1]
         /\ serving' = [serving EXCEPT ![w] = m]
  BY DEF Take
<1>2. /\ phase' = [phase EXCEPT ![w] = "run"] /\ settled' = settled
      /\ serving[w] = None /\ phase[w] # "run"
      /\ queue \in [Messages -> Nat] /\ w \in DOMAIN phase /\ w \in DOMAIN serving
  BY DEF Take, TaskInv, TypeOK, Busy
<1>3. Once(t)
  BY DEF AllOnce
<1>4. \A v \in Workers : Attempts(v, t)' <=> IF v = w THEN m.task = t ELSE Attempts(v, t)
  BY <1>1, <1>2 DEF Attempts
<1>5. CASE t = m.task
  <2>1. Queued(t)
    BY <1>1, <1>5 DEF Queued
  <2>2. /\ \A n \in Messages : n.task = t /\ queue[n] > 0 => n = m
        /\ queue[m] = 1
        /\ \A v \in Workers : ~Attempts(v, t)
        /\ t \notin settled
    BY <1>1, <1>3, <1>5, <2>1 DEF Once, Attempts, Running
  <2>3. \A n \in Messages : n.task = t => queue'[n] = 0
    BY <1>1, <1>2, <2>2
  <2>4. \A v \in Workers : Attempts(v, t)' <=> v = w
    BY <1>4, <1>5, <2>2
  <2> QED
    BY <1>2, <2>2, <2>3, <2>4 DEF Once, Queued
<1>6. CASE t # m.task
  <2>1. \A v \in Workers : Attempts(v, t)' <=> Attempts(v, t)
    BY <1>2, <1>4, <1>6 DEF Attempts
  <2>2. \A n \in Messages : n.task = t => queue'[n] = queue[n]
    BY <1>1, <1>2, <1>6
  <2> QED
    BY <1>2, <1>3, <2>1, <2>2, OnceElsewhere
<1> QED
  BY <1>5, <1>6

\* Statuses of requests and explanations are left alone by most steps.
LEMMA SentOnceStays ==
    ASSUME TaskInv, SentOnce, UNCHANGED <<pc, outcome, sent, shap>>, settled \subseteq settled'
    PROVE  SentOnce'
BY DEF SentOnce

\* The task a process serves, spelled out.
LEMMA ServesShap ==
    ASSUME TaskInv, NEW w \in Workers, Serves(w, "shap")
    PROVE  /\ Subject(w) \in Requests /\ serving[w].task = <<"shap", Subject(w)>>
           /\ Attempts(w, <<"shap", Subject(w)>>) /\ phase[w] = "run"
<1>1. phase[w] = "run" /\ serving[w] \in Messages /\ serving[w].task[1] = "shap"
  BY DEF Serves, TaskInv, TypeOK, Busy
<1>2. serving[w].task \in Kinds \X Requests
  BY <1>1, MessageParts DEF Tasks
<1> QED
  BY <1>1, <1>2 DEF Subject, Attempts

\* Every step preserves it.
LEMMA OnceInvNext == TaskInv /\ OnceInv /\ [Next]_vars => OnceInv'
<1> SUFFICES ASSUME TaskInv, OnceInv, [Next]_vars PROVE OnceInv'
  OBVIOUS
<1> USE DEF OnceInv
<1>0. losses \in Nat /\ pc \in [Requests -> {"new", "staged", "committed", "answered", "failed"}]
  BY EvidenceAssumption DEF TaskInv, TypeOK
<1>1. ASSUME UNCHANGED <<queue, serving, phase, settled, losses>> PROVE AllOnce'
  BY <1>1 DEF AllOnce, Once, Attempts, Queued, Running
<1>2. ASSUME NEW r \in Requests, Stage(r) PROVE OnceInv'
  <2>1. <<"trail", r>> \notin sent /\ "trail" \in Kinds
    BY <1>2 DEF Stage, SentOnce, Kinds
  <2>2. /\ \/ Enqueue(Message(<<"trail", r>>, 0)) /\ sent' = sent \cup {<<"trail", r>>}
           \/ UNCHANGED <<queue, sent>>
        /\ UNCHANGED <<serving, phase, settled, losses, shap>>
        /\ pc' = [pc EXCEPT ![r] = "staged"] /\ pc[r] = "new"
        /\ \A q \in Requests : q # r => outcome'[q] = outcome[q]
    BY <1>2 DEF Stage, TaskInv, TypeOK
  <2>3. AllOnce'
    BY <1>1, <2>1, <2>2, SendOnce
  <2>4. SentOnce'
    <3> SUFFICES ASSUME NEW q \in Requests
                 PROVE  /\ pc'[q] = "new" => <<"trail", q>> \notin sent'
                        /\ pc'[q] \in {"new", "staged", "committed"} => <<"shap", q>> \notin sent'
                        /\ shap'[q] = "list" =>
                              <<"shap", q>> \in settled' /\ HasVector(outcome'[q])
      BY DEF SentOnce
    <3>1. \A k \in Kinds : <<k, q>> \in sent' => <<k, q>> \in sent \/ <<k, q>> = <<"trail", r>>
      BY <2>2
    <3>2. shap[r] # "list"
      BY <2>2 DEF SentOnce, TaskInv, TypeOK
    <3> QED
      BY <1>0, <2>2, <3>1, <3>2 DEF SentOnce, Kinds
  <2> QED
    BY <2>3, <2>4
<1>3. ASSUME NEW r \in Requests, DispatchShap(r) PROVE OnceInv'
  <2>1. <<"shap", r>> \notin sent /\ "shap" \in Kinds
    BY <1>3 DEF DispatchShap, SentOnce, Kinds
  <2>2. /\ \/ Enqueue(Message(<<"shap", r>>, 0)) /\ sent' = sent \cup {<<"shap", r>>}
           \/ UNCHANGED <<queue, sent>>
        /\ UNCHANGED <<serving, phase, settled, losses, shap, outcome>>
        /\ pc' = [pc EXCEPT ![r] = "answered"] /\ pc[r] = "committed"
    BY <1>3 DEF DispatchShap
  <2>3. AllOnce'
    BY <1>1, <2>1, <2>2, SendOnce
  <2>4. SentOnce'
    <3> SUFFICES ASSUME NEW q \in Requests
                 PROVE  /\ pc'[q] = "new" => <<"trail", q>> \notin sent'
                        /\ pc'[q] \in {"new", "staged", "committed"} => <<"shap", q>> \notin sent'
                        /\ shap'[q] = "list" =>
                              <<"shap", q>> \in settled' /\ HasVector(outcome'[q])
      BY DEF SentOnce
    <3>1. \A k \in Kinds : <<k, q>> \in sent' => <<k, q>> \in sent \/ <<k, q>> = <<"shap", r>>
      BY <2>2
    <3> QED
      BY <1>0, <2>2, <3>1 DEF SentOnce, Kinds
  <2> QED
    BY <2>3, <2>4
<1>4. ASSUME NEW r \in Requests, Commit(r) \/ HandlerFails(r) PROVE OnceInv'
  <2>1. /\ UNCHANGED <<queue, serving, phase, settled, losses, sent, shap, outcome>>
        /\ \A q \in Requests : /\ pc'[q] = "new" => pc[q] = "new"
                               /\ pc'[q] \in {"new", "staged", "committed"} =>
                                     pc[q] \in {"new", "staged", "committed"}
    BY <1>0, <1>4 DEF Commit, HandlerFails, broker, history
  <2>2. SentOnce'
    BY <2>1 DEF SentOnce
  <2> QED
    BY <1>1, <2>1, <2>2
<1>5. ASSUME NEW w \in Workers, Take(w) PROVE OnceInv'
  <2>1. SentOnce'
    BY <1>5, SentOnceStays DEF Take, handler
  <2> QED
    BY <1>5, <2>1, TakeOnce
<1>6. ASSUME NEW w \in Workers, NEW of \in {0, 1}, phase[w] = "run", Retry(w, of)
      PROVE  OnceInv'
  <2>0. PICK m \in Messages : m = serving[w]
    BY <1>6 DEF TaskInv, TypeOK, Busy
  <2>1. /\ UNCHANGED <<losses, pc, outcome, sent, shap, serving>>
        /\ phase' = [phase EXCEPT ![w] = "ack"] /\ settled \subseteq settled'
    BY <1>6 DEF Retry, handler
  <2>2. \/ /\ queue' = queue /\ settled' = settled \cup {m.task}
        \/ /\ settled' = settled
           /\ \E n \in Messages : n.task = m.task /\ Enqueue(n)
    <3>1. CASE m.retries < MaxRetries[m.task[1]] /\ Enqueue(Message(m.task, m.retries + 1))
               /\ UNCHANGED settled
      <4>1. m.task \in Tasks /\ m.retries + 1 \in 0 .. MaxRetries[m.task[1]]
        BY <3>1, MessageParts
      <4> QED
        BY <3>1, <4>1, MessageBuilt
    <3>2. CASE settled' = settled \cup {m.task} /\ UNCHANGED queue
      BY <3>2
    <3> QED
      BY <1>6, <2>0, <3>1, <3>2 DEF Retry
  <2>3. \A v \in Workers : phase'[v] = "run" <=> phase[v] = "run" /\ v # w
    BY <2>1 DEF TaskInv, TypeOK
  <2>4. AllOnce'
    BY <1>6, <2>0, <2>1, <2>2, <2>3, EndOnce
  <2> QED
    BY <2>1, <2>4, SentOnceStays
<1>7. ASSUME NEW w \in Workers, NEW result \in {"none", "list"},
             Serves(w, "shap"), Finish(w, result),
             result = "list" => HasVector(outcome[Subject(w)])
      PROVE  OnceInv'
  <2>1. phase[w] = "run" /\ serving[w].task = <<"shap", Subject(w)>>
    BY <1>7, ServesShap
  <2>2. /\ UNCHANGED <<losses, pc, outcome, sent, serving, queue>>
        /\ phase' = [phase EXCEPT ![w] = "ack"]
        /\ settled' = settled \cup {serving[w].task}
        /\ shap' = [shap EXCEPT ![Subject(w)] = result]
    BY <1>7 DEF Finish, handler
  <2>3. \A v \in Workers : phase'[v] = "run" <=> phase[v] = "run" /\ v # w
    BY <2>2 DEF TaskInv, TypeOK
  <2>4. AllOnce'
    BY <2>1, <2>2, <2>3, EndOnce
  <2>5. SentOnce'
    BY <1>7, <2>1, <2>2 DEF SentOnce, TaskInv, TypeOK
  <2> QED
    BY <2>4, <2>5
<1>8. ASSUME NEW w \in Workers, ShapTimesOut(w) PROVE OnceInv'
  <2>1. phase[w] = "run"
    BY <1>8 DEF ShapTimesOut, Serves
  <2>2. /\ UNCHANGED <<losses, pc, outcome, sent, shap, queue>>
        /\ serving' = [serving EXCEPT ![w] = None]
        /\ phase' = [phase EXCEPT ![w] = "idle"]
        /\ settled' = settled \cup {serving[w].task}
    BY <1>8 DEF ShapTimesOut, handler
  <2>3. /\ \A v \in Workers : phase'[v] = "run" <=> phase[v] = "run" /\ v # w
        /\ \A v \in Workers \ {w} : serving'[v] = serving[v]
    BY <2>2 DEF TaskInv, TypeOK
  <2>4. AllOnce'
    BY <2>1, <2>2, <2>3, EndOnce
  <2> QED
    BY <2>2, <2>4, SentOnceStays
<1>9. ASSUME NEW w \in Workers, Acknowledge(w) PROVE OnceInv'
  <2>1. /\ UNCHANGED <<losses, pc, outcome, sent, shap, queue, settled>>
        /\ \A t : \A v \in Workers : Attempts(v, t)' <=> Attempts(v, t)
    BY <1>9 DEF Acknowledge, handler, history, Attempts, TaskInv, TypeOK
  <2>2. AllOnce'
    BY <2>1, OnceElsewhere DEF AllOnce
  <2> QED
    BY <2>1, <2>2, SentOnceStays
<1>10. ASSUME NEW w \in Workers, WorkerLost(w) PROVE OnceInv'
  <2>1. losses' # 0 /\ UNCHANGED <<pc, outcome, sent, shap, settled>>
    BY <1>0, <1>10 DEF WorkerLost, handler, history
  <2> QED
    BY <2>1, SentOnceStays DEF AllOnce
<1>11. ASSUME NEW r \in Requests, GetAlert(r) PROVE OnceInv'
  BY <1>1, <1>11, SentOnceStays DEF GetAlert, handler, broker, history
<1>12. CASE UNCHANGED vars
  BY <1>1, <1>12, SentOnceStays DEF vars, handler, broker, history
<1>13. ASSUME NEW w \in Workers, Runs(w) PROVE OnceInv'
  <2>1. CASE TrailRaises(w) \/ ModelRejects(w) \/ ShapRaises(w)
    BY <1>6, <2>1 DEF TrailRaises, ModelRejects, ShapRaises, Serves
  <2>2. CASE Explain(w)
    <3>1. Serves(w, "shap")
      BY <2>2 DEF Explain
    <3>2. (IF Subject(w) \in scored THEN "list" ELSE shap[Subject(w)]) \in {"none", "list"}
      BY <3>1, ServesShap DEF TaskInv, TypeOK
    <3> QED
      BY <1>7, <2>2, <3>1, <3>2 DEF Explain
  <2>3. CASE ExplainWithoutModel(w) \/ ExplanationNotStored(w)
    <3>1. Serves(w, "shap")
      BY <2>3 DEF ExplainWithoutModel, ExplanationNotStored
    <3>2. /\ shap[Subject(w)] \in {"none", "list"}
          /\ shap[Subject(w)] = "list" => HasVector(outcome[Subject(w)])
      BY <3>1, ServesShap DEF TaskInv, TypeOK, SentOnce
    <3> QED
      BY <1>7, <2>3, <3>1, <3>2 DEF ExplainWithoutModel, ExplanationNotStored
  <2>4. CASE ExplainNothing(w)
    <3>1. CASE Finish(w, "none")
      BY <1>7, <2>4, <3>1 DEF ExplainNothing
    <3>2. CASE Retry(w, 0)
      BY <1>6, <2>4, <3>2 DEF ExplainNothing, Serves
    <3> QED
      BY <2>4, <3>1, <3>2 DEF ExplainNothing
  <2> QED
    BY <1>5, <1>9, <1>13, <2>1, <2>2, <2>3, <2>4 DEF Runs
<1> QED
  BY <1>2, <1>3, <1>4, <1>8, <1>10, <1>11, <1>12, <1>13 DEF Next, Handles

\* What replaces an explanation by nothing is a second execution of its task.
LEMMA WithdrawalNeedsLoss ==
    ASSUME TaskInv, OnceInv, [Next]_vars, NEW r \in Requests,
           shap[r] = "list", shap'[r] # "list"
    PROVE  losses > 0 /\ faults' > 0
<1>1. shap \in [Requests -> {"none", "list"}] /\ faults \in Nat /\ losses \in Nat
  BY EvidenceAssumption DEF TaskInv, TypeOK
<1>2. \/ \E w \in Workers : \/ Explain(w) \/ ExplainWithoutModel(w)
                            \/ ExplanationNotStored(w)
                            \/ ExplainNothing(w) /\ Finish(w, "none")
      \/ shap' = shap
  <2>1. ASSUME NEW q \in Requests, Handles(q) \/ HandlerFails(q) \/ GetAlert(q)
        PROVE  shap' = shap
    BY <2>1 DEF Handles, Stage, Commit, DispatchShap, HandlerFails, GetAlert
  <2>2. ASSUME NEW w \in Workers, Take(w) \/ Acknowledge(w) \/ ShapTimesOut(w) \/ WorkerLost(w)
        PROVE  shap' = shap
    BY <2>2 DEF Take, Acknowledge, ShapTimesOut, WorkerLost
  <2>3. ASSUME NEW w \in Workers, TrailRaises(w) \/ ModelRejects(w) \/ ShapRaises(w)
        PROVE  shap' = shap
    BY <2>3 DEF TrailRaises, ModelRejects, ShapRaises, Retry
  <2>4. ASSUME NEW w \in Workers, ExplainNothing(w)
        PROVE  Finish(w, "none") \/ shap' = shap
    <3>1. Finish(w, "none") \/ Retry(w, 0)
      BY <2>4 DEF ExplainNothing
    <3> QED
      BY <3>1 DEF Retry
  <2>5. ASSUME UNCHANGED vars PROVE shap' = shap
    BY <2>5 DEF vars
  <2>6. ASSUME NEW w \in Workers, Runs(w)
        PROVE  \/ Explain(w) \/ ExplainWithoutModel(w) \/ ExplanationNotStored(w)
               \/ ExplainNothing(w) /\ Finish(w, "none")
               \/ shap' = shap
    BY <2>2, <2>3, <2>4, <2>6 DEF Runs
  <2>7. ASSUME shap' # shap
        PROVE  \E w \in Workers : \/ Explain(w) \/ ExplainWithoutModel(w)
                                  \/ ExplanationNotStored(w)
                                  \/ ExplainNothing(w) /\ Finish(w, "none")
    <3>1. \/ \E q \in Requests : Handles(q) \/ HandlerFails(q) \/ GetAlert(q)
          \/ \E w \in Workers : Runs(w) \/ ShapTimesOut(w) \/ WorkerLost(w)
      BY <2>5, <2>7 DEF Next
    <3>2. ~\E q \in Requests : Handles(q) \/ HandlerFails(q) \/ GetAlert(q)
      BY <2>1, <2>7
    <3>3. \E w \in Workers : Runs(w)
      BY <2>2, <2>7, <3>1, <3>2
    <3> QED
      BY <2>6, <2>7, <3>3
  <2> QED
    BY <2>7
<1>3. PICK w \in Workers : \/ Explain(w) \/ ExplainWithoutModel(w)
                           \/ ExplanationNotStored(w)
                           \/ ExplainNothing(w) /\ Finish(w, "none")
  BY <1>2
<1>4. Serves(w, "shap")
  BY <1>3 DEF Explain, ExplainWithoutModel, ExplanationNotStored, ExplainNothing
<1>5. PICK q \in Requests : q = Subject(w) /\ Attempts(w, <<"shap", q>>)
  BY <1>4, ServesShap
<1>6. CASE ExplainWithoutModel(w)
  <2>1. shap' = [shap EXCEPT ![q] = "none"] /\ faults' = faults + 1
    BY <1>5, <1>6 DEF ExplainWithoutModel, Finish, Fails
  <2>2. q = r
    BY <1>1, <2>1
  <2>3. <<"shap", r>> \in settled /\ Running(<<"shap", r>>) /\ <<"shap", r>> \in Tasks
    BY <1>5, <2>2 DEF OnceInv, SentOnce, Running, Attempts, Tasks, Kinds
  <2>4. losses # 0
    BY <2>3 DEF OnceInv, AllOnce, Once
  <2> QED
    BY <1>1, <2>1, <2>4
<1>7. CASE Explain(w)
  <2>1. \E x \in {"list", shap[q]} : shap' = [shap EXCEPT ![q] = x]
    BY <1>5, <1>7 DEF Explain, Finish
  <2> QED
    BY <1>1, <2>1
<1>8. CASE ExplanationNotStored(w)
  <2>1. shap' = [shap EXCEPT ![q] = shap[q]]
    BY <1>5, <1>8 DEF ExplanationNotStored, Finish
  <2> QED
    BY <1>1, <2>1
<1>9. CASE ExplainNothing(w) /\ Finish(w, "none")
  <2>1. shap' = [shap EXCEPT ![q] = "none"] /\ ~HasVector(outcome[q])
    BY <1>5, <1>9 DEF ExplainNothing, Finish
  <2>2. shap[q] # "list"
    BY <2>1 DEF OnceInv, SentOnce
  <2> QED
    BY <1>1, <2>1, <2>2
<1> QED
  BY <1>3, <1>6, <1>7, <1>8, <1>9

\* An explanation is withdrawn only when its task is delivered again after a
\* process died, and that execution has no model (shap_explainer.py,
\* task_reject_on_worker_lost): retries alone never do it.
THEOREM ExplanationsStand == Spec => WithdrawnOnlyByRedelivery
<1>1. TaskInv /\ OnceInv /\ [Next]_vars =>
         [\A r \in Requests :
             shap[r] = "list" /\ shap'[r] # "list" => losses > 0 /\ faults' > 0]_vars
  BY WithdrawalNeedsLoss
<1> QED
  BY <1>1, TaskInvInit, TaskInvNext, OnceInvInit, OnceInvNext, PTL
  DEF Spec, WithdrawnOnlyByRedelivery
-----------------------------------------------------------------------------
(* Attempts to come: a budget that every step stays within.                *)

\* The attempts that the copies of t at the broker stand for: copy i of m is
\* an attempt with m.retries retries, and leads to one with each number up to
\* max_retries.
Waiting(t) ==
    {x \in Messages \X Nat \X Nat :
        /\ x[1].task = t
        /\ x[2] \in 1 .. queue[x[1]]
        /\ x[3] \in x[1].retries .. MaxRetries[t[1]]}

\* The attempts that an execution under way may still lead to.
Underway(t) ==
    {x \in Workers \X Nat :
        /\ Attempts(x[1], t)
        /\ x[2] \in (serving[x[1]].retries + 1) .. MaxRetries[t[1]]}

\* One full series of attempts, and one more for each death.
Allowance(t) == (MaxRetries[t[1]] + 1) * (losses + 1)

Budget(t) ==
    /\ IsFiniteSet(Waiting(t)) /\ IsFiniteSet(Underway(t))
    /\ attempts[t] + Cardinality(Waiting(t)) + Cardinality(Underway(t)) <= Allowance(t)
    /\ t \notin sent => attempts[t] = 0

BudgetInv == \A t \in Tasks : Budget(t)

\* A set that a function numbers from a to b.
LEMMA Numbered ==
    ASSUME NEW a \in Nat, NEW b \in Nat, a <= b + 1, NEW S, NEW f \in [a .. b -> S],
           \A x \in S : \E k \in a .. b : f[k] = x,
           \A j, k \in a .. b : f[j] = f[k] => j = k
    PROVE  IsFiniteSet(S) /\ Cardinality(S) = b + 1 - a
<1>1. IsFiniteSet(a .. b) /\ Cardinality(a .. b) = b + 1 - a
  <2>1. IsFiniteSet(a .. b) /\ Cardinality(a .. b) = IF a > b THEN 0 ELSE b - a + 1
    BY FS_Interval
  <2> QED
    BY <2>1
<1>2. f \in Bijection(a .. b, S)
  BY DEF Bijection, Injection, Surjection, IsInjective
<1>3. ExistsBijection(a .. b, S)
  BY <1>2 DEF ExistsBijection
<1> QED
  BY <1>1, <1>3, FS_Bijection

\* A set that gains at most the elements of A.
LEMMA Gains ==
    ASSUME NEW S, IsFiniteSet(S), NEW A, IsFiniteSet(A), NEW T, T \subseteq S \cup A
    PROVE  /\ IsFiniteSet(T)
           /\ Cardinality(T) \in Nat /\ Cardinality(S) \in Nat /\ Cardinality(A) \in Nat
           /\ Cardinality(T) <= Cardinality(S) + Cardinality(A)
<1>1. /\ IsFiniteSet(S \cup A)
      /\ Cardinality(S \cup A) = Cardinality(S) + Cardinality(A) - Cardinality(S \cap A)
  BY FS_Union
<1>2. IsFiniteSet(T) /\ Cardinality(T) <= Cardinality(S \cup A)
  BY <1>1, FS_Subset
<1>3. IsFiniteSet(S \cap A)
  BY FS_Intersection
<1>4. /\ Cardinality(S \cap A) \in Nat /\ Cardinality(S \cup A) \in Nat
      /\ Cardinality(S) \in Nat /\ Cardinality(A) \in Nat /\ Cardinality(T) \in Nat
  BY <1>1, <1>2, <1>3, FS_CardinalityType
<1> QED
  BY <1>1, <1>2, <1>4

\* A set that loses at least the elements of R.
LEMMA Loses ==
    ASSUME NEW S, IsFiniteSet(S), NEW R, R \subseteq S, NEW T, T \subseteq S \ R
    PROVE  /\ IsFiniteSet(T)
           /\ Cardinality(T) \in Nat /\ Cardinality(S) \in Nat /\ Cardinality(R) \in Nat
           /\ Cardinality(T) + Cardinality(R) <= Cardinality(S)
<1>1. /\ IsFiniteSet(S \ R)
      /\ Cardinality(S \ R) = Cardinality(S) - Cardinality(S \cap R)
  BY FS_Difference
<1>2. S \cap R = R /\ IsFiniteSet(R)
  BY FS_Subset
<1>3. Cardinality(S \ R) = Cardinality(S) - Cardinality(R)
  BY <1>1, <1>2, Zenon
<1>4. IsFiniteSet(T) /\ Cardinality(T) <= Cardinality(S \ R)
  BY <1>1, FS_Subset
<1>5. /\ Cardinality(S) \in Nat /\ Cardinality(R) \in Nat
      /\ Cardinality(T) \in Nat /\ Cardinality(S \ R) \in Nat
  BY <1>1, <1>2, <1>4, FS_CardinalityType
<1> QED
  BY <1>3, <1>4, <1>5

\* A copy of m stands for one attempt with each number from its own to the last.
LEMMA CopyCounts ==
    ASSUME NEW m \in Messages, NEW i \in Nat, NEW n \in 0 .. MaxRetries[m.task[1]] + 1
    PROVE  LET S == {<<m, i, k>> : k \in n .. MaxRetries[m.task[1]]}
           IN  IsFiniteSet(S) /\ Cardinality(S) = MaxRetries[m.task[1]] + 1 - n
<1> DEFINE M == MaxRetries[m.task[1]]
           S == {<<m, i, k>> : k \in n .. M}
           f == [k \in n .. M |-> <<m, i, k>>]
<1>1. M \in Nat /\ n \in Nat /\ n <= M + 1
  BY MessageParts
<1> HIDE DEF M
<1>2. f \in [n .. M -> S]
  OBVIOUS
<1>3. \A x \in S : \E k \in n .. M : f[k] = x
  OBVIOUS
<1>4. \A j, k \in n .. M : f[j] = f[k] => j = k
  OBVIOUS
<1> HIDE DEF f, S
<1>5. IsFiniteSet(S) /\ Cardinality(S) = M + 1 - n
  BY <1>1, <1>2, <1>3, <1>4, Numbered
<1> QED
  BY <1>5 DEF S, M

\* So does an execution, from the number after its own.
LEMMA RestCounts ==
    ASSUME NEW m \in Messages, NEW w, NEW n \in 0 .. MaxRetries[m.task[1]] + 1
    PROVE  LET S == {<<w, k>> : k \in n .. MaxRetries[m.task[1]]}
           IN  IsFiniteSet(S) /\ Cardinality(S) = MaxRetries[m.task[1]] + 1 - n
<1> DEFINE M == MaxRetries[m.task[1]]
           S == {<<w, k>> : k \in n .. M}
           f == [k \in n .. M |-> <<w, k>>]
<1>1. M \in Nat /\ n \in Nat /\ n <= M + 1
  BY MessageParts
<1> HIDE DEF M
<1>2. f \in [n .. M -> S]
  OBVIOUS
<1>3. \A x \in S : \E k \in n .. M : f[k] = x
  OBVIOUS
<1>4. \A j, k \in n .. M : f[j] = f[k] => j = k
  OBVIOUS
<1> HIDE DEF f, S
<1>5. IsFiniteSet(S) /\ Cardinality(S) = M + 1 - n
  BY <1>1, <1>2, <1>3, <1>4, Numbered
<1> QED
  BY <1>5 DEF S, M

\* A copy more at the broker, of m: its attempts are all that t gains.
LEMMA EnqueueCounts ==
    ASSUME queue \in [Messages -> Nat], NEW m \in Messages, Enqueue(m),
           NEW t \in Tasks, IsFiniteSet(Waiting(t))
    PROVE  /\ IsFiniteSet(Waiting(t)')
           /\ Cardinality(Waiting(t)) \in Nat /\ Cardinality(Waiting(t)') \in Nat
           /\ m.task # t => Cardinality(Waiting(t)') <= Cardinality(Waiting(t))
           /\ m.task = t => Cardinality(Waiting(t)')
                               <= Cardinality(Waiting(t)) + (MaxRetries[t[1]] + 1 - m.retries)
<1> DEFINE S == {<<m, queue[m] + 1, k>> : k \in m.retries .. MaxRetries[m.task[1]]}
<1>1. \A n \in Messages : queue[n] \in Nat /\ queue'[n] = IF n = m THEN queue[m] + 1 ELSE queue[n]
  BY DEF Enqueue
<1>2. CASE m.task # t
  <2>1. Waiting(t)' \subseteq Waiting(t)
    BY <1>1, <1>2 DEF Waiting
  <2> QED
    BY <1>2, <2>1, FS_Subset, FS_CardinalityType
<1>3. CASE m.task = t
  <2>1. MaxRetries[t[1]] \in Nat /\ m.retries \in 0 .. MaxRetries[t[1]]
    BY <1>3, MessageParts
  <2>2. IsFiniteSet(S) /\ Cardinality(S) = MaxRetries[t[1]] + 1 - m.retries
    <3>1. queue[m] + 1 \in Nat /\ m.retries \in 0 .. MaxRetries[m.task[1]] + 1
      BY <1>1, <1>3, <2>1
    <3>2. IsFiniteSet(S) /\ Cardinality(S) = MaxRetries[m.task[1]] + 1 - m.retries
      BY <3>1, CopyCounts
    <3> QED
      BY <1>3, <3>2
  <2>3. Waiting(t)' \subseteq Waiting(t) \cup S
    <3> SUFFICES ASSUME NEW n \in Messages, NEW i \in Nat, NEW k \in Nat,
                        <<n, i, k>> \in Waiting(t)'
                 PROVE  <<n, i, k>> \in Waiting(t) \cup S
      BY DEF Waiting
    <3>1. n.task = t /\ i \in 1 .. queue'[n] /\ k \in n.retries .. MaxRetries[t[1]]
      BY DEF Waiting
    <3>2. CASE i \in 1 .. queue[n]
      BY <3>1, <3>2 DEF Waiting
    <3>3. CASE i \notin 1 .. queue[n]
      <4>1. n = m /\ i = queue[m] + 1
        BY <1>1, <3>1, <3>3
      <4> QED
        BY <1>3, <3>1, <4>1
    <3> QED
      BY <3>2, <3>3
  <2> HIDE DEF S
  <2>4. /\ IsFiniteSet(Waiting(t)')
        /\ Cardinality(Waiting(t)) \in Nat /\ Cardinality(Waiting(t)') \in Nat
        /\ Cardinality(Waiting(t)') <= Cardinality(Waiting(t)) + Cardinality(S)
    BY <2>2, <2>3, Gains
  <2> QED
    BY <1>3, <2>2, <2>4
<1> QED
  BY <1>2, <1>3

\* Executions that end or are lost lead to nothing more.
LEMMA UnderwayShrinks ==
    ASSUME NEW t \in Tasks, IsFiniteSet(Underway(t)),
           \A v \in Workers : Attempts(v, t)' => Attempts(v, t) /\ serving'[v] = serving[v]
    PROVE  /\ IsFiniteSet(Underway(t)')
           /\ Cardinality(Underway(t)) \in Nat /\ Cardinality(Underway(t)') \in Nat
           /\ Cardinality(Underway(t)') <= Cardinality(Underway(t))
<1>1. Underway(t)' \subseteq Underway(t)
  BY DEF Underway
<1> QED
  BY <1>1, FS_Subset, FS_CardinalityType

\* The allowance has room for one series of attempts; a death adds another.
LEMMA AllowanceGrows ==
    ASSUME NEW M \in Nat, NEW l \in Nat
    PROVE  /\ (M + 1) * (l + 1) \in Nat
           /\ M + 1 <= (M + 1) * (l + 1)
           /\ (M + 1) * ((l + 1) + 1) = (M + 1) * (l + 1) + (M + 1)
<1>1. (M + 1) * l \in Nat
  OBVIOUS
<1>2. (M + 1) * (l + 1) = (M + 1) * l + (M + 1)
  OBVIOUS
<1>3. (M + 1) * ((l + 1) + 1) = (M + 1) * (l + 1) + (M + 1)
  OBVIOUS
<1> QED
  BY <1>1, <1>2, <1>3

\* What the steps need to know of one task.
LEMMA BudgetParts ==
    ASSUME TaskInv, BudgetInv, NEW t \in Tasks
    PROVE  /\ Budget(t)
           /\ queue \in [Messages -> Nat]
           /\ MaxRetries[t[1]] \in Nat /\ losses \in Nat /\ Allowance(t) \in Nat
           /\ attempts \in [Tasks -> 0 .. AttemptCap] /\ attempts[t] \in Nat
           /\ Cardinality(Waiting(t)) \in Nat /\ Cardinality(Underway(t)) \in Nat
<1>1. MaxRetries[t[1]] \in Nat /\ losses \in Nat
  BY EvidenceAssumption DEF TaskInv, TypeOK, Tasks
<1>2. Allowance(t) \in Nat
  BY <1>1, AllowanceGrows DEF Allowance
<1>3. queue \in [Messages -> Nat] /\ attempts \in [Tasks -> 0 .. AttemptCap] /\ attempts[t] \in Nat
  BY EvidenceAssumption DEF TaskInv, TypeOK
<1>4. Budget(t)
  BY DEF BudgetInv
<1> QED
  BY <1>1, <1>2, <1>3, <1>4, FS_CardinalityType DEF Budget

\* Nothing is begun, executions may end.
LEMMA QuietBudget ==
    ASSUME TaskInv, BudgetInv, NEW t \in Tasks,
           UNCHANGED <<queue, sent, attempts, losses>>,
           \A v \in Workers : Attempts(v, t)' => Attempts(v, t) /\ serving'[v] = serving[v]
    PROVE  Budget(t)'
<1>1. /\ Budget(t) /\ Allowance(t) \in Nat /\ attempts[t] \in Nat
      /\ Cardinality(Waiting(t)) \in Nat
  BY BudgetParts
<1>2. /\ IsFiniteSet(Underway(t)')
      /\ Cardinality(Underway(t)) \in Nat /\ Cardinality(Underway(t)') \in Nat
      /\ Cardinality(Underway(t)') <= Cardinality(Underway(t))
  BY <1>1, UnderwayShrinks DEF Budget
<1>3. Waiting(t)' = Waiting(t) /\ Allowance(t)' = Allowance(t)
  BY DEF Waiting, Allowance
<1> QED
  BY <1>1, <1>2, <1>3 DEF Budget

\* The handler sends a task for the first time: one series of attempts.
LEMMA SendBudget ==
    ASSUME TaskInv, BudgetInv, NEW k \in Kinds, NEW r \in Requests, <<k, r>> \notin sent,
           Enqueue(Message(<<k, r>>, 0)), sent' = sent \cup {<<k, r>>},
           UNCHANGED <<serving, phase, attempts, losses>>
    PROVE  BudgetInv'
<1> SUFFICES ASSUME NEW t \in Tasks PROVE Budget(t)'
  BY DEF BudgetInv
<1>0. PICK m \in Messages : m = Message(<<k, r>>, 0) /\ m.task = <<k, r>> /\ m.retries = 0
  BY FirstMessage DEF Message
<1>1. /\ Budget(t) /\ queue \in [Messages -> Nat]
      /\ MaxRetries[t[1]] \in Nat /\ losses \in Nat /\ Allowance(t) \in Nat
      /\ attempts[t] \in Nat
      /\ Cardinality(Waiting(t)) \in Nat /\ Cardinality(Underway(t)) \in Nat
  BY BudgetParts
<1>2. /\ IsFiniteSet(Waiting(t)') /\ Cardinality(Waiting(t)') \in Nat
      /\ m.task # t => Cardinality(Waiting(t)') <= Cardinality(Waiting(t))
      /\ m.task = t => Cardinality(Waiting(t)')
                          <= Cardinality(Waiting(t)) + (MaxRetries[t[1]] + 1 - m.retries)
  BY <1>0, <1>1, EnqueueCounts DEF Budget
<1>3. Underway(t)' = Underway(t) /\ Allowance(t)' = Allowance(t) /\ attempts' = attempts
  BY DEF Underway, Allowance, Attempts
<1>4. CASE m.task # t
  BY <1>0, <1>1, <1>2, <1>3, <1>4 DEF Budget
<1>5. CASE m.task = t
  <2>1. attempts[t] = 0
    BY <1>0, <1>1, <1>5 DEF Budget
  <2>2. Waiting(t) = {} /\ Underway(t) = {}
    BY <1>0, <1>1, <1>5 DEF TaskInv, OnlySent, Busy, Waiting, Underway, Attempts
  <2>3. Cardinality(Waiting(t)) = 0 /\ Cardinality(Underway(t)) = 0
    BY <2>2, FS_EmptySet
  <2>4. MaxRetries[t[1]] + 1 <= Allowance(t)
    BY <1>1, AllowanceGrows DEF Allowance
  <2>5. t \in sent'
    BY <1>0, <1>5
  <2>6. attempts[t] + Cardinality(Waiting(t)') + Cardinality(Underway(t)) <= Allowance(t)
    BY <1>0, <1>1, <1>2, <1>5, <2>1, <2>3, <2>4
  <2> QED
    BY <1>1, <1>2, <1>3, <2>5, <2>6 DEF Budget
<1> QED
  BY <1>4, <1>5

\* An attempt begins: the copy that goes stood for one attempt more than the
\* execution that comes.
LEMMA TakeBudget ==
    ASSUME TaskInv, BudgetInv, NEW w \in Workers, Take(w)
    PROVE  BudgetInv'
<1> SUFFICES ASSUME NEW t \in Tasks PROVE Budget(t)'
  BY DEF BudgetInv
<1>0. PICK m \in Messages :
         /\ queue[m] > 0
         /\ queue' = [queue EXCEPT ![m] = @ - 1]
         /\ serving' = [serving EXCEPT ![w] = m]
         /\ Count(m.task)
  BY DEF Take
<1>1. /\ Budget(t) /\ queue \in [Messages -> Nat]
      /\ MaxRetries[t[1]] \in Nat /\ losses \in Nat /\ Allowance(t) \in Nat
      /\ attempts \in [Tasks -> 0 .. AttemptCap] /\ attempts[t] \in Nat
      /\ Cardinality(Waiting(t)) \in Nat /\ Cardinality(Underway(t)) \in Nat
  BY BudgetParts
<1>2. /\ phase' = [phase EXCEPT ![w] = "run"] /\ UNCHANGED <<sent, losses>>
      /\ serving \in [Workers -> Messages \cup {None}]
      /\ phase \in [Workers -> {"idle", "run", "ack"}] /\ serving[w] = None
      /\ m.task \in sent /\ Allowance(t)' = Allowance(t)
  BY <1>0 DEF Take, TaskInv, TypeOK, OnlySent, Allowance
<1>3. phase[w] = "idle"
  BY <1>2 DEF TaskInv, Busy
<1>4. \A n \in Messages : queue[n] \in Nat
                          /\ queue'[n] = IF n = m THEN queue[m] - 1 ELSE queue[n]
  BY <1>0, <1>1
<1>5. CASE m.task # t
  <2>1. Waiting(t)' \subseteq Waiting(t) /\ Underway(t)' \subseteq Underway(t)
    BY <1>0, <1>2, <1>4, <1>5 DEF Waiting, Underway, Attempts
  <2>2. /\ IsFiniteSet(Waiting(t)') /\ Cardinality(Waiting(t)') <= Cardinality(Waiting(t))
        /\ IsFiniteSet(Underway(t)') /\ Cardinality(Underway(t)') <= Cardinality(Underway(t))
    BY <1>1, <2>1, FS_Subset DEF Budget
  <2>3. Cardinality(Waiting(t)') \in Nat /\ Cardinality(Underway(t)') \in Nat
    BY <2>2, FS_CardinalityType
  <2>4. attempts'[t] = attempts[t]
    BY <1>0, <1>1, <1>5 DEF Count
  <2> QED
    BY <1>1, <1>2, <2>2, <2>3, <2>4 DEF Budget
<1>6. CASE m.task = t
  <2> DEFINE M == MaxRetries[m.task[1]]
             R == {<<m, queue[m], k>> : k \in m.retries .. M}
             A == {<<w, k>> : k \in (m.retries + 1) .. M}
  <2>1. M \in Nat /\ M = MaxRetries[t[1]] /\ m.retries \in 0 .. M
        /\ m.retries \in 0 .. (M + 1) /\ m.retries + 1 \in 0 .. (M + 1)
    BY <1>6, MessageParts
  <2>2. IsFiniteSet(R) /\ Cardinality(R) = M + 1 - m.retries
    BY <1>4, <2>1, CopyCounts
  <2>3. IsFiniteSet(A) /\ Cardinality(A) = M + 1 - (m.retries + 1)
    BY <2>1, RestCounts
  <2>4. R \subseteq Waiting(t)
    BY <1>0, <1>4, <1>6, <2>1 DEF Waiting
  <2>5. Waiting(t)' \subseteq Waiting(t) \ R
    <3>1. Waiting(t)' \subseteq Waiting(t)
      BY <1>4 DEF Waiting
    <3>2. \A x \in Waiting(t)' : x \notin R
      BY <1>4 DEF Waiting
    <3> QED
      BY <3>1, <3>2
  <2>6. Underway(t)' \subseteq Underway(t) \cup A
    <3> SUFFICES ASSUME NEW v \in Workers, NEW k \in Nat, <<v, k>> \in Underway(t)'
                 PROVE  <<v, k>> \in Underway(t) \cup A
      BY DEF Underway
    <3>1. Attempts(v, t)' /\ k \in (serving'[v].retries + 1) .. MaxRetries[t[1]]
      BY DEF Underway
    <3>2. CASE v = w
      BY <1>0, <1>2, <2>1, <3>1, <3>2
    <3>3. CASE v # w
      BY <1>0, <1>2, <3>1, <3>3 DEF Underway, Attempts
    <3> QED
      BY <3>2, <3>3
  <2> HIDE DEF R, A
  <2>7. /\ IsFiniteSet(Waiting(t)')
        /\ Cardinality(Waiting(t)') \in Nat
        /\ Cardinality(Waiting(t)') + Cardinality(R) <= Cardinality(Waiting(t))
    BY <1>1, <2>4, <2>5, Loses DEF Budget
  <2>8. /\ IsFiniteSet(Underway(t)')
        /\ Cardinality(Underway(t)') \in Nat
        /\ Cardinality(Underway(t)') <= Cardinality(Underway(t)) + Cardinality(A)
    BY <1>1, <2>3, <2>6, Gains DEF Budget
  <2>9. attempts'[t] \in Nat /\ attempts'[t] <= attempts[t] + 1
    BY <1>0, <1>1, <1>6 DEF Count
  <2>10. attempts'[t] + Cardinality(Waiting(t)') + Cardinality(Underway(t)') <= Allowance(t)
    <3> HIDE DEF M
    <3>1. m.retries \in Nat /\ attempts[t] + Cardinality(Waiting(t)) + Cardinality(Underway(t)) <= Allowance(t)
      BY <1>1, <2>1 DEF Budget
    <3> QED
      BY <1>1, <2>1, <2>2, <2>3, <2>7, <2>8, <2>9, <3>1
  <2> QED
    BY <1>2, <1>6, <2>7, <2>8, <2>10 DEF Budget
<1> QED
  BY <1>5, <1>6

\* A failed attempt publishes the next: what it could still lead to waits.
LEMMA RetryBudget ==
    ASSUME TaskInv, BudgetInv, NEW w \in Workers, phase[w] = "run",
           NEW m \in Messages, m = serving[w], m.retries < MaxRetries[m.task[1]],
           Enqueue(Message(m.task, m.retries + 1)),
           phase' = [phase EXCEPT ![w] = "ack"],
           UNCHANGED <<serving, sent, attempts, losses>>
    PROVE  BudgetInv'
<1> SUFFICES ASSUME NEW t \in Tasks PROVE Budget(t)'
  BY DEF BudgetInv
<1>0. /\ m.task \in Tasks /\ MaxRetries[m.task[1]] \in Nat
      /\ m.retries \in 0 .. MaxRetries[m.task[1]]
  BY MessageParts
<1>1. m.retries + 1 \in 0 .. MaxRetries[m.task[1]]
  BY <1>0
<1>2. PICK n \in Messages : /\ n = Message(m.task, m.retries + 1) /\ n.task = m.task
                            /\ n.retries = m.retries + 1
  BY <1>0, <1>1, MessageBuilt DEF Message
<1>3. /\ Budget(t) /\ queue \in [Messages -> Nat]
      /\ Allowance(t) \in Nat /\ attempts[t] \in Nat
      /\ Cardinality(Waiting(t)) \in Nat /\ Cardinality(Underway(t)) \in Nat
  BY BudgetParts
<1>4. /\ IsFiniteSet(Waiting(t)') /\ Cardinality(Waiting(t)') \in Nat
      /\ m.task # t => Cardinality(Waiting(t)') <= Cardinality(Waiting(t))
      /\ m.task = t => Cardinality(Waiting(t)')
                          <= Cardinality(Waiting(t)) + (MaxRetries[t[1]] + 1 - n.retries)
  BY <1>2, <1>3, EnqueueCounts DEF Budget
<1>5. /\ Allowance(t)' = Allowance(t) /\ attempts' = attempts /\ sent' = sent
      /\ \A v \in Workers : Attempts(v, t)' <=> Attempts(v, t) /\ v # w
  BY DEF Allowance, Attempts, TaskInv, TypeOK
<1>6. CASE m.task # t
  <2>1. /\ IsFiniteSet(Underway(t)') /\ Cardinality(Underway(t)') \in Nat
        /\ Cardinality(Underway(t)') <= Cardinality(Underway(t))
    BY <1>3, <1>5, UnderwayShrinks DEF Budget
  <2> QED
    BY <1>3, <1>4, <1>5, <1>6, <2>1 DEF Budget
<1>7. CASE m.task = t
  <2> DEFINE M == MaxRetries[m.task[1]]
             R == {<<w, k>> : k \in (m.retries + 1) .. M}
  <2>1. m.retries + 1 \in 0 .. (M + 1)
    BY <1>0
  <2>2. IsFiniteSet(R) /\ Cardinality(R) = M + 1 - (m.retries + 1)
    BY ONLY <2>1, RestCounts, m \in Messages
  <2>3. R \subseteq Underway(t)
    BY <1>0, <1>7 DEF Underway, Attempts
  <2>4. Underway(t)' \subseteq Underway(t) \ R
    <3>1. Underway(t)' \subseteq Underway(t)
      BY <1>5 DEF Underway
    <3>2. \A x \in Underway(t)' : x \notin R
      BY <1>5 DEF Underway
    <3> QED
      BY <3>1, <3>2
  <2> HIDE DEF R
  <2>5. /\ IsFiniteSet(Underway(t)') /\ Cardinality(Underway(t)') \in Nat
        /\ Cardinality(Underway(t)') + Cardinality(R) <= Cardinality(Underway(t))
    BY <1>3, <2>3, <2>4, Loses DEF Budget
  <2>6. Cardinality(Waiting(t)') + Cardinality(Underway(t)')
           <= Cardinality(Waiting(t)) + Cardinality(Underway(t))
    <3> HIDE DEF M
    <3>1. Cardinality(Waiting(t)') <= Cardinality(Waiting(t)) + (M + 1 - n.retries)
      BY <1>4, <1>7 DEF M
    <3>2. M \in Nat /\ m.retries \in Nat
      BY <1>0 DEF M
    <3> QED
      BY <1>2, <1>3, <1>4, <2>2, <2>5, <3>1, <3>2
  <2> QED
    BY <1>3, <1>4, <1>5, <2>5, <2>6 DEF Budget
<1> QED
  BY <1>6, <1>7

\* A death gives the broker back what the process held: at most one series.
LEMMA LossBudget ==
    ASSUME TaskInv, BudgetInv, NEW w \in Workers, WorkerLost(w)
    PROVE  BudgetInv'
<1> SUFFICES ASSUME NEW t \in Tasks PROVE Budget(t)'
  BY DEF BudgetInv
<1>0. PICK m \in Messages : m = serving[w] /\ Enqueue(m)
  BY DEF WorkerLost, TaskInv, TypeOK
<1>1. /\ Budget(t) /\ queue \in [Messages -> Nat]
      /\ MaxRetries[t[1]] \in Nat /\ losses \in Nat
      /\ Allowance(t) \in Nat /\ attempts[t] \in Nat
      /\ Cardinality(Waiting(t)) \in Nat /\ Cardinality(Underway(t)) \in Nat
  BY BudgetParts
<1>2. /\ IsFiniteSet(Waiting(t)') /\ Cardinality(Waiting(t)') \in Nat
      /\ m.task # t => Cardinality(Waiting(t)') <= Cardinality(Waiting(t))
      /\ m.task = t => Cardinality(Waiting(t)')
                          <= Cardinality(Waiting(t)) + (MaxRetries[t[1]] + 1 - m.retries)
  BY <1>0, <1>1, EnqueueCounts DEF Budget
<1>3. Cardinality(Waiting(t)') <= Cardinality(Waiting(t)) + (MaxRetries[t[1]] + 1)
  <2>1. m.retries \in Nat
    BY MessageParts
  <2> QED
    BY <1>1, <1>2, <2>1
<1>4. /\ serving' = [serving EXCEPT ![w] = None] /\ phase' = [phase EXCEPT ![w] = "idle"]
      /\ losses' = losses + 1 /\ attempts' = attempts /\ sent' = sent
  BY DEF WorkerLost, history
<1>5. \A v \in Workers : Attempts(v, t)' => Attempts(v, t) /\ serving'[v] = serving[v]
  BY <1>4 DEF Attempts, TaskInv, TypeOK
<1>6. /\ IsFiniteSet(Underway(t)') /\ Cardinality(Underway(t)') \in Nat
      /\ Cardinality(Underway(t)') <= Cardinality(Underway(t))
  BY <1>1, <1>5, UnderwayShrinks DEF Budget
<1>7. Allowance(t)' = Allowance(t) + (MaxRetries[t[1]] + 1)
  BY <1>1, <1>4, AllowanceGrows DEF Allowance
<1> QED
  BY <1>1, <1>2, <1>3, <1>4, <1>6, <1>7 DEF Budget

\* At first no task has an attempt behind or before it.
LEMMA BudgetInvInit == Init => BudgetInv
<1> SUFFICES ASSUME Init, NEW t \in Tasks PROVE Budget(t)
  BY DEF BudgetInv
<1>1. Waiting(t) = {} /\ Underway(t) = {}
  BY DEF Init, Waiting, Underway, Attempts
<1>2. /\ IsFiniteSet(Waiting(t)) /\ Cardinality(Waiting(t)) = 0
      /\ IsFiniteSet(Underway(t)) /\ Cardinality(Underway(t)) = 0
  BY <1>1, FS_EmptySet
<1>3. attempts[t] = 0 /\ losses = 0 /\ MaxRetries[t[1]] \in Nat
  BY EvidenceAssumption DEF Init, Tasks
<1>4. Allowance(t) \in Nat
  BY <1>3, AllowanceGrows DEF Allowance
<1> QED
  BY <1>2, <1>3, <1>4 DEF Budget

\* Every step keeps it.
LEMMA BudgetInvNext == TaskInv /\ OnceInv /\ BudgetInv /\ [Next]_vars => BudgetInv'
<1> SUFFICES ASSUME TaskInv, OnceInv, BudgetInv, [Next]_vars PROVE BudgetInv'
  OBVIOUS
<1>1. ASSUME UNCHANGED <<queue, sent, attempts, losses>>,
             \A v \in Workers : phase'[v] = "run" => phase[v] = "run" /\ serving'[v] = serving[v]
      PROVE  BudgetInv'
  BY <1>1, QuietBudget DEF BudgetInv, Attempts
<1>2. phase \in [Workers -> {"idle", "run", "ack"}] /\ serving \in [Workers -> Messages \cup {None}]
  BY DEF TaskInv, TypeOK
<1>3. ASSUME NEW r \in Requests, Stage(r) PROVE BudgetInv'
  <2>1. <<"trail", r>> \notin sent /\ "trail" \in Kinds
    BY <1>3 DEF Stage, OnceInv, SentOnce, Kinds
  <2>2. /\ \/ Enqueue(Message(<<"trail", r>>, 0)) /\ sent' = sent \cup {<<"trail", r>>}
           \/ UNCHANGED <<queue, sent>>
        /\ UNCHANGED <<serving, phase, attempts, losses>>
    BY <1>3 DEF Stage
  <2> QED
    BY <1>1, <2>1, <2>2, SendBudget
<1>4. ASSUME NEW r \in Requests, DispatchShap(r) PROVE BudgetInv'
  <2>1. <<"shap", r>> \notin sent /\ "shap" \in Kinds
    BY <1>4 DEF DispatchShap, OnceInv, SentOnce, Kinds
  <2>2. /\ \/ Enqueue(Message(<<"shap", r>>, 0)) /\ sent' = sent \cup {<<"shap", r>>}
           \/ UNCHANGED <<queue, sent>>
        /\ UNCHANGED <<serving, phase, attempts, losses>>
    BY <1>4 DEF DispatchShap
  <2> QED
    BY <1>1, <2>1, <2>2, SendBudget
<1>5. ASSUME NEW r \in Requests, Commit(r) \/ HandlerFails(r) \/ GetAlert(r) PROVE BudgetInv'
  BY <1>1, <1>5 DEF Commit, HandlerFails, GetAlert, broker, history
<1>6. ASSUME NEW w \in Workers, NEW of \in {0, 1}, phase[w] = "run", Retry(w, of)
      PROVE  BudgetInv'
  <2>1. PICK m \in Messages : m = serving[w]
    BY <1>6 DEF TaskInv, TypeOK, Busy
  <2>2. phase' = [phase EXCEPT ![w] = "ack"] /\ UNCHANGED <<serving, sent, attempts, losses>>
    BY <1>6 DEF Retry
  <2>3. CASE m.retries < MaxRetries[m.task[1]] /\ Enqueue(Message(m.task, m.retries + 1))
    BY <1>6, <2>1, <2>2, <2>3, RetryBudget
  <2>4. CASE UNCHANGED queue
    BY <1>1, <1>2, <2>2, <2>4
  <2> QED
    BY <1>6, <2>1, <2>3, <2>4 DEF Retry
<1>7. ASSUME NEW w \in Workers, NEW result, Finish(w, result) PROVE BudgetInv'
  BY <1>1, <1>2, <1>7 DEF Finish
<1>8. ASSUME NEW w \in Workers, ShapTimesOut(w) \/ Acknowledge(w) PROVE BudgetInv'
  BY <1>1, <1>2, <1>8 DEF ShapTimesOut, Acknowledge, history
<1>9. CASE UNCHANGED vars
  BY <1>1, <1>9 DEF vars, broker, history
<1>10. ASSUME NEW w \in Workers, Runs(w) PROVE BudgetInv'
  <2>1. CASE TrailRaises(w) \/ ModelRejects(w) \/ ShapRaises(w)
    BY <1>6, <2>1 DEF TrailRaises, ModelRejects, ShapRaises, Serves
  <2>2. CASE Explain(w) \/ ExplainWithoutModel(w) \/ ExplanationNotStored(w)
    BY <1>7, <2>2 DEF Explain, ExplainWithoutModel, ExplanationNotStored
  <2>3. CASE ExplainNothing(w)
    BY <1>6, <1>7, <2>3 DEF ExplainNothing, Serves
  <2> QED
    BY <1>8, <1>10, <2>1, <2>2, <2>3, TakeBudget DEF Runs
<1> QED
  BY <1>3, <1>4, <1>5, <1>8, <1>9, <1>10, LossBudget DEF Next, Handles

\* Retries and redeliveries of a task, in any order and by any number of
\* processes, begin no more attempts than one full series and one more for
\* each death (trail_builder.py and shap_explainer.py, max_retries;
\* celeryconfig.py, task_reject_on_worker_lost).
THEOREM RetriesBounded == Spec => []AttemptsBounded
<1>1. TaskInv /\ BudgetInv => AttemptsBounded
  <2> SUFFICES ASSUME TaskInv, BudgetInv, NEW t \in Tasks
               PROVE  attempts[t] <= (MaxRetries[t[1]] + 1) * (losses + 1)
    BY DEF AttemptsBounded
  <2>1. /\ Budget(t) /\ Allowance(t) \in Nat /\ attempts[t] \in Nat
        /\ Cardinality(Waiting(t)) \in Nat /\ Cardinality(Underway(t)) \in Nat
    BY BudgetParts
  <2>2. attempts[t] <= Allowance(t)
    BY <2>1 DEF Budget
  <2> QED
    BY <2>2 DEF Allowance
<1> QED
  BY <1>1, TaskInvInit, TaskInvNext, OnceInvInit, OnceInvNext, BudgetInvInit, BudgetInvNext,
     PTL DEF Spec
-----------------------------------------------------------------------------
(* The connection pool: no more connections than it has, whoever gives one *)
(* back and when, and everyone where the code can put it.                  *)

\* Whoever can have a connection is one of finitely many.
LEMMA HoldersFinite ==
    ASSUME NEW S, S \subseteq Callers \cup Background
    PROVE  IsFiniteSet(S) /\ Cardinality(S) \in Nat
<1>1. IsFiniteSet(Callers) /\ IsFiniteSet({"shadow", "discovery"})
  <2>1. IsFiniteSet({"shadow"}) /\ IsFiniteSet({"shadow"} \cup {"discovery"})
    BY FS_Singleton, FS_AddElement
  <2>2. {"shadow", "discovery"} = {"shadow"} \cup {"discovery"}
    OBVIOUS
  <2> QED
    BY <2>1, <2>2, PoolAssumption
<1>2. IsFiniteSet({"shadow", "discovery"} \X Callers)
  BY <1>1, FS_Product
<1>3. IsFiniteSet(Callers \cup Background)
  BY <1>1, <1>2, FS_Union DEF Background
<1> QED
  BY <1>3, FS_Subset, FS_CardinalityType

\* A connection that is taken when there is room, or one that is given back.
LEMMA RoomKept ==
    ASSUME out \subseteq Callers \cup Background, Cardinality(out) <= PoolSize,
           NEW x \in Callers \cup Background,
           \/ RoomLeft /\ out' = out \cup {x}
           \/ out' = out \ {x}
           \/ out' = out
    PROVE  out' \subseteq Callers \cup Background /\ Cardinality(out') <= PoolSize
<1>1. IsFiniteSet(out) /\ Cardinality(out) \in Nat /\ PoolSize \in Nat
  BY HoldersFinite, PoolAssumption
<1>2. CASE RoomLeft /\ out' = out \cup {x}
  <2>1. Cardinality(out \cup {x}) = IF x \in out THEN Cardinality(out) ELSE Cardinality(out) + 1
    BY <1>1, FS_AddElement
  <2> QED
    BY <1>1, <1>2, <2>1 DEF RoomLeft
<1>3. CASE out' = out \ {x}
  <2>1. Cardinality(out \ {x}) = IF x \in out THEN Cardinality(out) - 1 ELSE Cardinality(out)
    BY <1>1, FS_RemoveElement
  <2> QED
    BY <1>1, <1>3, <2>1
<1> QED
  BY <1>2, <1>3

\* A step of the handler.
LEMMA HandlerKeepsPool ==
    ASSUME PoolTypeOK, NEW x \in Callers, Accept(x) \/ Serve(x) \/ HandlerRaises(x)
    PROVE  PoolTypeOK'
<1> DEFINE Steps == HoldsLoop \cup {"new", "padding", "raised", "returning", "unwinding",
                                    "closed", "answered"}
<1>1. /\ \/ RoomLeft /\ out' = out \cup {x}
         \/ out' = out \ {x}
         \/ out' = out
      /\ thread' = thread
  BY DEF Accept, Serve, HandlerRaises, CheckOut, CheckOutTimesOut, CommitScore,
         CountVelocity, Pad, Leave, Close, Answer
<1>2. \E to \in Steps : step' = [step EXCEPT ![x] = to]
  BY DEF Accept, Serve, HandlerRaises, CheckOut, CheckOutTimesOut, CommitScore,
         CountVelocity, Pad, Leave, Close, Answer, Goes, HoldsLoop
<1>3. step' \in [Callers -> Steps]
  <2> HIDE DEF Steps
  <2>1. step \in [Callers -> Steps]
    BY DEF PoolTypeOK, Steps
  <2> QED
    BY <1>2, <2>1
<1>4. out' \subseteq Callers \cup Background /\ Cardinality(out') <= PoolSize
  BY <1>1, RoomKept DEF PoolTypeOK
<1> QED
  BY <1>1, <1>3, <1>4 DEF PoolTypeOK

\* A step of a background session.
LEMMA ThreadKeepsPool ==
    ASSUME PoolTypeOK, NEW x \in Background, Launch(x) \/ RunThread(x)
    PROVE  PoolTypeOK'
<1>1. /\ \/ RoomLeft /\ out' = out \cup {x}
         \/ out' = out \ {x}
         \/ out' = out
      /\ step' = step
  BY DEF Launch, RunThread, ThreadChecksOut, ThreadTimesOut, ThreadCloses
<1>2. thread' \in [Background -> {"none", "asks", "holds", "over"}]
  BY DEF PoolTypeOK, Launch, RunThread, ThreadChecksOut, ThreadTimesOut, ThreadCloses
<1>3. out' \subseteq Callers \cup Background /\ Cardinality(out') <= PoolSize
  BY <1>1, RoomKept DEF PoolTypeOK
<1> QED
  BY <1>1, <1>2, <1>3 DEF PoolTypeOK

\* Nobody has a connection before the first request.
LEMMA PoolTypeInit == PoolInit => PoolTypeOK
<1> SUFFICES ASSUME PoolInit PROVE PoolTypeOK
  OBVIOUS
<1>1. Cardinality({}) = 0
  BY FS_EmptySet
<1>2. Cardinality(out) <= PoolSize
  BY <1>1, PoolAssumption DEF PoolInit
<1> QED
  BY <1>2 DEF PoolInit, PoolTypeOK, HoldsLoop

\* The pool never lends more than it has and everyone stays where the code can
\* put it, whatever a handler, a thread, a failure or a timeout does; and the
\* tasks keep their types beside it (postgres_client.py, celery_app.py).
THEOREM PartsTypesCorrect == PartsSpec => []PartsTypeOK
<1>1. PartsInit => TaskInv /\ PoolTypeOK
  BY TaskInvInit, PoolTypeInit DEF PartsInit
<1>2. TaskInv /\ PoolTypeOK /\ [PartsNext]_PartsVars => (TaskInv /\ PoolTypeOK)'
  <2> SUFFICES ASSUME TaskInv, PoolTypeOK, [PartsNext]_PartsVars
               PROVE  TaskInv' /\ PoolTypeOK'
    OBVIOUS
  <2>1. [Next]_vars
    BY DEF PartsNext, PartsVars
  <2>2. PoolNext \/ UNCHANGED poolVars
    BY DEF PartsNext, PartsVars
  <2>3. TaskInv'
    BY <2>1, TaskInvNext
  <2>4. CASE PoolNext
    BY <2>3, <2>4, HandlerKeepsPool, ThreadKeepsPool DEF PoolNext
  <2>5. CASE UNCHANGED poolVars
    BY <2>3, <2>5 DEF poolVars, PoolTypeOK
  <2> QED
    BY <2>2, <2>4, <2>5
<1>3. TaskInv /\ PoolTypeOK => PartsTypeOK
  BY DEF TaskInv, PartsTypeOK
<1> QED
  BY <1>1, <1>2, <1>3, PTL DEF PartsSpec
=============================================================================
