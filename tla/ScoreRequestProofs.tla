------------------------- MODULE ScoreRequestProofs -------------------------
(***************************************************************************)
(* Theorems about ScoreRequest, for every set of requests, transactions,   *)
(* accounts and workers and every bound.  The argument is layered: each    *)
(* layer is an inductive invariant relative to the layers below it.        *)
(***************************************************************************)
EXTENDS ScoreRequest, TLAPS

\* The next key of an upsert exists as long as the upsert is not over.
UpsertInRange ==
    \A r \in Requests :
        pc[r] \in {"new", "upsert"} => upserted[r] < Len(UpsertOrder(r))

\* Steps that have the pipeline's result in hand.
AfterPipeline == {"stage", "audit", "velocity", "dispatch", "padding", "ok"}

Decided == \A r \in Requests : pc[r] \in AfterPipeline => outcome[r] \in Outcomes

TypeInv == TypeOK /\ UpsertInRange /\ Decided

-----------------------------------------------------------------------------
\* The keys of an upsert are accounts and transactions.
LEMMA UpsertOrderType ==
    ASSUME NEW r \in Requests
    PROVE  /\ UpsertOrder(r) \in Seq(Accounts \cup Transactions)
           /\ Len(UpsertOrder(r)) \in Nat \ {0}
           /\ \A i \in 1 .. Len(UpsertOrder(r)) :
                 UpsertOrder(r)[i] \in Accounts \cup Transactions
<1>1. TransactionOf[r] \in Transactions
  BY RequestAssumption
<1>2. PartiesOf[TransactionOf[r]] \in Seq(Accounts)
  BY <1>1, RequestAssumption
<1>3. PartiesOf[TransactionOf[r]] \in Seq(Accounts \cup Transactions)
  BY <1>2
<1>4. UpsertOrder(r) \in Seq(Accounts \cup Transactions)
  BY <1>1, <1>3 DEF UpsertOrder
<1>5. Len(UpsertOrder(r)) = Len(PartiesOf[TransactionOf[r]]) + 1
  BY <1>1, <1>3 DEF UpsertOrder
<1>6. Len(PartiesOf[TransactionOf[r]]) \in Nat
  BY <1>2
<1> QED
  BY <1>4, <1>5, <1>6

\* A decided request has a row of the right type.
LEMMA RowOfType ==
    ASSUME NEW r \in Requests, outcome[r] \in Outcomes
    PROVE  RowOf(r) \in Row
<1>1. outcome[r].action \in Actions
  BY DEF Outcomes, Actions
<1>2. TransactionOf[r] \in Transactions
  BY RequestAssumption
<1> QED
  BY <1>1, <1>2 DEF RowOf, Row

\* It holds at the start.
LEMMA InitTypeInv == Init => TypeInv
<1> SUFFICES ASSUME Init PROVE TypeInv
  OBVIOUS
<1>1. UpsertInRange
  BY UpsertOrderType DEF Init, UpsertInRange
<1>2. Decided
  BY DEF Init, Decided, AfterPipeline
<1>3. TypeOK
  BY RequestAssumption DEF Init, TypeOK, Steps, Kinds
<1> QED
  BY <1>1, <1>2, <1>3 DEF TypeInv

\* A failure that is met stays within the kinds of failures.
LEMMA MeetsType ==
    ASSUME faults \in [Requests -> SUBSET Faults],
           NEW r \in Requests, NEW f \in Faults, Meets(r, f)
    PROVE  faults' \in [Requests -> SUBSET Faults]
  BY DEF Meets

\* Every step keeps the types, the upsert in range and the decisions made.
LEMMA NextTypeInv == TypeInv /\ [Next]_vars => TypeInv'
<1> SUFFICES ASSUME TypeInv, [Next]_vars PROVE TypeInv'
  OBVIOUS
<1> USE DEF TypeInv, TypeOK, UpsertInRange, Decided, AfterPipeline, Goto,
            Steps, OnLoop, Unwinding, Finished, UpsertOrder, database, effects
<1>1. ASSUME NEW r \in Requests, Accept(r) PROVE TypeInv'
  BY <1>1 DEF Accept, session
<1>2. ASSUME NEW r \in Requests, UpsertRow(r) PROVE TypeInv'
  BY <1>2, UpsertOrderType DEF UpsertRow, UpsertKey
<1>3. ASSUME NEW r \in Requests, DeadlockVictim(r) PROVE TypeInv'
  BY <1>3 DEF DeadlockVictim, AbortTransaction, Faults
<1>4. ASSUME NEW r \in Requests, SqlError(r) PROVE TypeInv'
  BY <1>4 DEF SqlError, AbortTransaction, Meets, Faults
<1>5. ASSUME NEW r \in Requests, PipelineRaises(r) PROVE TypeInv'
  BY <1>5 DEF PipelineRaises, Meets, Faults, session
<1>6. ASSUME NEW r \in Requests, RunPipeline(r) PROVE TypeInv'
  BY <1>6 DEF RunPipeline, LiveCommitteeAudit, SubmitShadowTask, Kinds
<1>7. ASSUME NEW r \in Requests, RunPipelineGateError(r) PROVE TypeInv'
  <2>1. faults' \in [Requests -> SUBSET Faults]
    BY <1>7, MeetsType DEF RunPipelineGateError, Faults
  <2>2. CASE /\ outcome' = [outcome EXCEPT ![r] = outcome'[r]]
             /\ outcome'[r] \in Outcomes
             /\ Goto(r, "stage")
    BY <1>7, <2>1, <2>2 DEF RunPipelineGateError, SubmitShadowTask, AbortTransaction
  <2>3. CASE Goto(r, "raised") /\ UNCHANGED <<outcome, shadow>>
    BY <1>7, <2>1, <2>3 DEF RunPipelineGateError, AbortTransaction
  <2> QED
    BY <1>7, <2>2, <2>3 DEF RunPipelineGateError
<1>8. ASSUME NEW r \in Requests, StageRows(r) PROVE TypeInv'
  <2>1. faults' \in [Requests -> SUBSET Faults]
    BY <1>8, MeetsType DEF StageRows, Faults
  <2>2. trailTasks' \subseteq Requests
    BY <1>8 DEF StageRows
  <2>3. staged' \in [Requests -> SUBSET Kinds]
    BY <1>8 DEF StageRows, Kinds
  <2> QED
    BY <1>8, <2>1, <2>2, <2>3 DEF StageRows
<1>9. ASSUME NEW r \in Requests, LogScoreEvent(r) PROVE TypeInv'
  BY <1>9, RowOfType DEF LogScoreEvent, Commit
<1>10. ASSUME NEW r \in Requests, LogScoreEventFails(r) PROVE TypeInv'
  <2>1. faults' \in [Requests -> SUBSET Faults]
    BY <1>10, MeetsType DEF LogScoreEventFails, Faults
  <2> QED
    BY <1>10, <2>1 DEF LogScoreEventFails, Rollback
<1>11. ASSUME NEW r \in Requests, IncrementVelocity(r) PROVE TypeInv'
  BY <1>11 DEF IncrementVelocity, session
<1>12. ASSUME NEW r \in Requests, IncrementVelocityFails(r) PROVE TypeInv'
  BY <1>12 DEF IncrementVelocityFails, Meets, Faults, session
<1>13. ASSUME NEW r \in Requests, Dispatch(r) PROVE TypeInv'
  <2>1. faults' \in [Requests -> SUBSET Faults]
    BY <1>13, MeetsType DEF Dispatch, Faults
  <2>2. shapTasks' \subseteq Requests /\ discovery' \subseteq Requests
    BY <1>13 DEF Dispatch
  <2> QED
    BY <1>13, <2>1, <2>2 DEF Dispatch, session
<1>14. ASSUME NEW r \in Requests, Respond(r) PROVE TypeInv'
  BY <1>14 DEF Respond, session
<1>15. ASSUME NEW r \in Requests, StartClose(r) PROVE TypeInv'
  BY <1>15 DEF StartClose, session
<1>16. ASSUME NEW r \in Requests, CloseSession(r) PROVE TypeInv'
  BY <1>16 DEF CloseSession, Rollback
<1>17. ASSUME NEW r \in Requests, AnswerError(r) PROVE TypeInv'
  BY <1>17 DEF AnswerError, session
<1>18. ASSUME NEW r \in Requests, WriteShadowRow(r) PROVE TypeInv'
  BY <1>18 DEF WriteShadowRow, session
<1>19. ASSUME NEW w \in Workers, Crash(w) PROVE TypeInv'
  BY <1>19, RequestAssumption DEF Crash, Rollback
<1>20. CASE UNCHANGED vars
  BY <1>20 DEF vars, session
<1> QED
  BY <1>1, <1>2, <1>3, <1>4, <1>5, <1>6, <1>7, <1>8, <1>9, <1>10, <1>11, <1>12,
     <1>13, <1>14, <1>15, <1>16, <1>17, <1>18, <1>19, <1>20 DEF Next, RequestStep

\* Whatever the requests, the faults and the crashes, every variable keeps its
\* type (ScoreRequest!TypeOK): the handler of POST /score never commits a row
\* without a decision, nor upserts past the transaction's own row.
THEOREM TypeCorrect == Spec => []TypeOK
<1>1. Spec => []TypeInv
  BY InitTypeInv, NextTypeInv, PTL DEF Spec
<1>2. TypeInv => TypeOK
  BY DEF TypeInv
<1> QED
  BY <1>1, <1>2, PTL
-----------------------------------------------------------------------------
(* What the session has in store, and what the audit trail has recorded.   *)

CommitteeStaged(r) ==
    IF mode = "live" /\ outcome[r].tier = "ensemble" THEN {"committee"} ELSE {}

AlertStaged(r) == IF RaisesAlert(outcome[r]) THEN {"alert"} ELSE {}

\* Up to the commit, a live session holds exactly the rows of its decision.
Staged(r) ==
    /\ pc[r] \in {"new", "upsert", "pipeline"} => staged[r] = {}
    /\ pc[r] = "stage" /\ tx[r] = "open" => staged[r] = CommitteeStaged(r)
    /\ pc[r] = "audit" /\ tx[r] = "open" =>
          staged[r] = CommitteeStaged(r) \cup AlertStaged(r) \cup {"score"}

StagedInv == \A r \in Requests : Staged(r)

\* Steps a request can only be at once its outcome can no longer change.
AfterCommit == {"velocity", "dispatch", "padding", "ok"} \cup Unwinding \cup {"failed", "lost"}

\* A recorded decision is its request's last word.
RecordedFinal ==
    \A row \in table["audit"] :
        /\ row.req \in Requests
        /\ row = RowOf(row.req)
        /\ pc[row.req] \in AfterCommit

\* Past the commit and not failed, a request is recorded; past the velocity
\* step it is counted too.
CommittedRecorded ==
    \A r \in Requests :
        /\ pc[r] \in {"velocity", "dispatch", "padding", "ok"} => RowOf(r) \in table["audit"]
        /\ pc[r] \in {"dispatch", "padding", "ok"} => r \in counted

RecordInv ==
    /\ StagedInv
    /\ RecordedFinal
    /\ CommittedRecorded
    /\ DurableTogether
    /\ EffectsFollowRecord

\* It holds at the start.
LEMMA InitRecordInv == Init => RecordInv
  BY DEF Init, RecordInv, StagedInv, Staged, RecordedFinal, CommittedRecorded,
         DurableTogether, EffectsFollowRecord, Kinds

\* What a step leaves alone of s stays staged.
LEMMA StagedFrame ==
    ASSUME NEW s \in Requests, Staged(s), mode' = mode, pc'[s] = pc[s], tx'[s] = tx[s],
           staged'[s] = staged[s], outcome'[s] = outcome[s]
    PROVE  Staged(s)'
  BY DEF Staged, CommitteeStaged, AlertStaged, RaisesAlert

\* Every step keeps the audit trail, the other tables and the effects in line.
LEMMA NextRecordInv == TypeInv /\ RecordInv /\ [Next]_vars => RecordInv'
<1> SUFFICES ASSUME TypeInv, RecordInv, [Next]_vars PROVE RecordInv'
  OBVIOUS
<1> USE DEF TypeInv, TypeOK, RecordInv, StagedInv, Staged, RecordedFinal, CommittedRecorded,
            DurableTogether, EffectsFollowRecord, AfterCommit, CommitteeStaged,
            AlertStaged, RowOf, Goto, Unwinding, database, effects
<1>1. ASSUME NEW r \in Requests, Accept(r) PROVE RecordInv'
  BY <1>1 DEF Accept, session
<1>2. ASSUME NEW r \in Requests, UpsertRow(r) PROVE RecordInv'
  BY <1>2 DEF UpsertRow
<1>3. ASSUME NEW r \in Requests, DeadlockVictim(r) PROVE RecordInv'
  BY <1>3 DEF DeadlockVictim, AbortTransaction
<1>4. ASSUME NEW r \in Requests, SqlError(r) PROVE RecordInv'
  BY <1>4 DEF SqlError, AbortTransaction
<1>5. ASSUME NEW r \in Requests, PipelineRaises(r) PROVE RecordInv'
  BY <1>5 DEF PipelineRaises, session
<1>6. ASSUME NEW r \in Requests, RunPipeline(r) PROVE RecordInv'
  <2>1. /\ r \notin counted \cup shapTasks \cup discovery
        /\ \A row \in table["audit"] : row.req # r
    BY <1>6 DEF RunPipeline
  <2>2. \A s \in Requests : s # r => outcome'[s] = outcome[s] /\ pc'[s] = pc[s]
    BY <1>6 DEF RunPipeline, SubmitShadowTask
  <2>3. RecordedFinal' /\ CommittedRecorded'
    BY <1>6, <2>1, <2>2 DEF RunPipeline
  <2>4. DurableTogether'
    BY <1>6, <2>1, <2>2 DEF RunPipeline
  <2>5. EffectsFollowRecord'
    BY <1>6, <2>1, <2>2 DEF RunPipeline
  <2>6. staged'[r] = CommitteeStaged(r)' /\ pc'[r] = "stage"
    <3>1. staged[r] = {} /\ pc'[r] = "stage"
      BY <1>6 DEF RunPipeline
    <3>2. PICK o \in Outcomes :
             /\ outcome' = [outcome EXCEPT ![r] = o]
             /\ staged' = IF mode = "live" /\ o.tier = "ensemble"
                          THEN [staged EXCEPT ![r] = @ \cup {"committee"}]
                          ELSE staged
      BY <1>6 DEF RunPipeline, LiveCommitteeAudit
    <3>3. outcome'[r] = o /\ mode' = mode
      BY <1>6, <3>2 DEF RunPipeline
    <3>4. staged'[r] = IF mode = "live" /\ o.tier = "ensemble" THEN {"committee"} ELSE {}
      BY <3>1, <3>2
    <3> QED
      BY <3>1, <3>3, <3>4
  <2>7. \A s \in Requests : s # r => staged'[s] = staged[s] /\ tx'[s] = tx[s] /\ mode' = mode
    BY <1>6 DEF RunPipeline, LiveCommitteeAudit
  <2>8. StagedInv'
    <3>1. ASSUME NEW s \in Requests, s # r PROVE Staged(s)'
      <4>1. /\ Staged(s) /\ mode' = mode /\ pc'[s] = pc[s] /\ tx'[s] = tx[s]
            /\ staged'[s] = staged[s] /\ outcome'[s] = outcome[s]
        BY <2>2, <2>7, <3>1
      <4> QED
        BY ONLY <4>1, StagedFrame
    <3>2. Staged(r)'
      BY <2>6
    <3> HIDE DEF Staged
    <3> QED
      BY <3>1, <3>2
  <2> QED
    BY <2>3, <2>4, <2>5, <2>8
<1>7. ASSUME NEW r \in Requests, RunPipelineGateError(r) PROVE RecordInv'
  <2>1. /\ r \notin counted \cup shapTasks \cup discovery
        /\ \A row \in table["audit"] : row.req # r
    BY <1>7 DEF RunPipelineGateError
  <2>2. \A s \in Requests : s # r => outcome'[s] = outcome[s] /\ pc'[s] = pc[s]
    BY <1>7 DEF RunPipelineGateError, SubmitShadowTask
  <2>3. RecordedFinal' /\ CommittedRecorded'
    BY <1>7, <2>1, <2>2 DEF RunPipelineGateError
  <2>4. DurableTogether'
    BY <1>7, <2>1, <2>2 DEF RunPipelineGateError
  <2>5. EffectsFollowRecord'
    BY <1>7, <2>1, <2>2 DEF RunPipelineGateError
  <2>6. StagedInv'
    BY <1>7, <2>2 DEF RunPipelineGateError, AbortTransaction
  <2> QED
    BY <2>3, <2>4, <2>5, <2>6
<1>8. ASSUME NEW r \in Requests, StageRows(r) PROVE RecordInv'
  <2>1. /\ UNCHANGED <<mode, tx, outcome, table, counted, shapTasks, discovery>>
        /\ pc[r] = "stage"
        /\ pc' = [pc EXCEPT ![r] = "audit"]
        /\ staged' = [staged EXCEPT ![r] = @ \cup {"score"} \cup AlertStaged(r)]
    BY <1>8 DEF StageRows
  <2>2. ASSUME tx[r] = "open"
        PROVE  staged'[r] = (CommitteeStaged(r) \cup AlertStaged(r) \cup {"score"})'
    <3>1. staged[r] = CommitteeStaged(r)
      BY <2>1, <2>2
    <3>2. staged'[r] = staged[r] \cup {"score"} \cup AlertStaged(r)
      BY <2>1
    <3>3. CommitteeStaged(r)' = CommitteeStaged(r) /\ AlertStaged(r)' = AlertStaged(r)
      BY <2>1 DEF RaisesAlert
    <3> HIDE DEF CommitteeStaged, AlertStaged
    <3> QED
      BY <3>1, <3>2, <3>3
  <2>3. \A s \in Requests : s # r => staged'[s] = staged[s] /\ pc'[s] = pc[s]
    BY <2>1
  <2>4. StagedInv'
    <3>1. ASSUME NEW s \in Requests, s # r PROVE Staged(s)'
      BY <2>1, <2>3, <3>1, StagedFrame
    <3>2. pc'[r] = "audit" /\ tx'[r] = tx[r]
      BY <2>1
    <3>3. Staged(r)'
      BY <2>2, <3>2
    <3> HIDE DEF Staged
    <3> QED
      BY <3>1, <3>3
  <2> QED
    BY <2>1, <2>4
<1>9. ASSUME NEW r \in Requests, LogScoreEvent(r) PROVE RecordInv'
  BY <1>9 DEF LogScoreEvent, Commit, Kinds, RaisesAlert
<1>10. ASSUME NEW r \in Requests, LogScoreEventFails(r) PROVE RecordInv'
  BY <1>10 DEF LogScoreEventFails, Rollback
<1>11. ASSUME NEW r \in Requests, IncrementVelocity(r) PROVE RecordInv'
  BY <1>11 DEF IncrementVelocity, session
<1>12. ASSUME NEW r \in Requests, IncrementVelocityFails(r) PROVE RecordInv'
  BY <1>12 DEF IncrementVelocityFails, session
<1>13. ASSUME NEW r \in Requests, Dispatch(r) PROVE RecordInv'
  BY <1>13 DEF Dispatch, session
<1>14. ASSUME NEW r \in Requests, Respond(r) PROVE RecordInv'
  BY <1>14 DEF Respond, session
<1>15. ASSUME NEW r \in Requests, StartClose(r) PROVE RecordInv'
  BY <1>15 DEF StartClose, session
<1>16. ASSUME NEW r \in Requests, CloseSession(r) PROVE RecordInv'
  BY <1>16 DEF CloseSession, Rollback
<1>17. ASSUME NEW r \in Requests, AnswerError(r) PROVE RecordInv'
  BY <1>17 DEF AnswerError, session
<1>18. ASSUME NEW r \in Requests, WriteShadowRow(r) PROVE RecordInv'
  BY <1>18 DEF WriteShadowRow, session
<1>19. ASSUME NEW w \in Workers, Crash(w) PROVE RecordInv'
  BY <1>19 DEF Crash, Rollback, Finished
<1>20. CASE UNCHANGED vars
  BY <1>20 DEF vars, session
<1> QED
  BY <1>1, <1>2, <1>3, <1>4, <1>5, <1>6, <1>7, <1>8, <1>9, <1>10, <1>11, <1>12,
     <1>13, <1>14, <1>15, <1>16, <1>17, <1>18, <1>19, <1>20 DEF Next, RequestStep

\* Both invariants hold throughout.
LEMMA RecordInvariant == Spec => [](TypeInv /\ RecordInv)
<1>1. Init => TypeInv /\ RecordInv
  BY InitTypeInv, InitRecordInv
<1>2. TypeInv /\ RecordInv /\ [Next]_vars => (TypeInv /\ RecordInv)'
  BY NextTypeInv, NextRecordInv
<1> QED
  BY <1>1, <1>2, PTL DEF Spec

\* Wherever an exception or a crash strikes, the committed score, alert and
\* committee rows are the ones the audit trail calls for (log_score_event
\* commits the whole session).
THEOREM DecisionsDurableTogether == Spec => []DurableTogether
<1>1. RecordInv => DurableTogether
  BY DEF RecordInv
<1> QED
  BY <1>1, RecordInvariant, PTL

\* A 200 is only sent for a decision that is in the audit trail and counted in
\* the velocity windows (score_transaction returns after log_score_event and
\* increment_velocity).
THEOREM AnsweredMeansRecorded == Spec => []OkMeansRecorded
<1>1. RecordInv => OkMeansRecorded
  BY DEF RecordInv, CommittedRecorded, OkMeansRecorded
<1> QED
  BY <1>1, RecordInvariant, PTL

\* Velocity, SHAP and discovery only hear of durable decisions (everything
\* after log_score_event in score_transaction).
THEOREM EffectsAfterRecord == Spec => []EffectsFollowRecord
<1>1. RecordInv => EffectsFollowRecord
  BY DEF RecordInv
<1> QED
  BY <1>1, RecordInvariant, PTL
-----------------------------------------------------------------------------
(* The abstract ledger.                                                    *)

\* The initial states are the ledger's, and every step is one of the ledger's
\* or changes nothing the ledger shows.
LEMMA LedgerStep == TypeInv /\ RecordInv /\ [Next]_vars => [Ledger!Next]_(Ledger!ledgerVars)
<1> SUFFICES ASSUME TypeInv, RecordInv, [Next]_vars
             PROVE  [Ledger!Next]_(Ledger!ledgerVars)
  OBVIOUS
<1> DEFINE Reply(s) == IF pc[s] = "ok" THEN "ok"
                       ELSE IF pc[s] \in {"failed", "lost"} THEN "error"
                       ELSE "none"
<1> USE DEF Goto, database, effects, session
<1>1. ASSUME UNCHANGED table,
             \A s \in Requests : Reply(s)' = Reply(s)
      PROVE  UNCHANGED Ledger!ledgerVars
  BY <1>1 DEF Ledger!ledgerVars
<1>2. ASSUME NEW r \in Requests, UNCHANGED table, NEW step, Goto(r, step),
             pc[r] \notin {"ok", "failed", "lost"}, step \notin {"ok", "failed", "lost"}
      PROVE  UNCHANGED Ledger!ledgerVars
  BY <1>1, <1>2 DEF TypeInv, TypeOK
<1>3. ASSUME NEW r \in Requests, LogScoreEvent(r) PROVE Ledger!Record(r)
  <2>1. outcome[r].action \in Actions
    BY <1>3 DEF LogScoreEvent, TypeInv, Decided, AfterPipeline, Outcomes, Actions
  <2>2. table'["audit"] = table["audit"] \cup {RowOf(r)}
    BY <1>3 DEF LogScoreEvent, Commit, Kinds
  <2>3. pc[r] = "audit" /\ \A s \in Requests : Reply(s)' = Reply(s)
    BY <1>3 DEF LogScoreEvent, TypeInv, TypeOK
  <2>4. ~Ledger!Recorded(r)
    BY <2>3 DEF Ledger!Recorded, RecordInv, RecordedFinal, AfterCommit, Unwinding
  <2> QED
    BY <2>1, <2>2, <2>3, <2>4 DEF Ledger!Record, RowOf
<1>4. ASSUME NEW r \in Requests, Respond(r) PROVE Ledger!AnswerOk(r)
  <2>1. pc[r] = "padding" /\ pc' = [pc EXCEPT ![r] = "ok"] /\ table' = table
    BY <1>4 DEF Respond
  <2>2. Ledger!Recorded(r)
    BY <2>1 DEF Ledger!Recorded, RecordInv, CommittedRecorded, RowOf
  <2> QED
    BY <2>1, <2>2 DEF Ledger!AnswerOk, TypeInv, TypeOK
<1>5. ASSUME NEW r \in Requests, AnswerError(r) PROVE Ledger!AnswerError({r})
  BY <1>5 DEF AnswerError, Ledger!AnswerError, TypeInv, TypeOK
<1>6. ASSUME NEW w \in Workers, Crash(w)
      PROVE  \E S \in SUBSET Requests : Ledger!AnswerError(S)
  <2> DEFINE victims == {r \in Requests : worker[r] = w /\ pc[r] \notin {"new"} \cup Finished}
  <2>1. Ledger!AnswerError(victims)
    BY <1>6 DEF Crash, Ledger!AnswerError, Finished, TypeInv, TypeOK
  <2>2. victims \in SUBSET Requests
    OBVIOUS
  <2> HIDE DEF victims
  <2> QED
    BY <2>1, <2>2 DEF Ledger!AnswerError
<1>7. ASSUME NEW r \in Requests, Accept(r) PROVE UNCHANGED Ledger!ledgerVars
  BY <1>2, <1>7 DEF Accept
<1>8. ASSUME NEW r \in Requests, UpsertRow(r) PROVE UNCHANGED Ledger!ledgerVars
  BY <1>2, <1>8 DEF UpsertRow
<1>9. ASSUME NEW r \in Requests, DeadlockVictim(r) PROVE UNCHANGED Ledger!ledgerVars
  BY <1>2, <1>9 DEF DeadlockVictim
<1>10. ASSUME NEW r \in Requests, SqlError(r) PROVE UNCHANGED Ledger!ledgerVars
  BY <1>2, <1>10 DEF SqlError
<1>11. ASSUME NEW r \in Requests, PipelineRaises(r) PROVE UNCHANGED Ledger!ledgerVars
  BY <1>2, <1>11 DEF PipelineRaises
<1>12. ASSUME NEW r \in Requests, RunPipeline(r) PROVE UNCHANGED Ledger!ledgerVars
  BY <1>2, <1>12 DEF RunPipeline
<1>13. ASSUME NEW r \in Requests, RunPipelineGateError(r) PROVE UNCHANGED Ledger!ledgerVars
  BY <1>2, <1>13 DEF RunPipelineGateError
<1>14. ASSUME NEW r \in Requests, StageRows(r) PROVE UNCHANGED Ledger!ledgerVars
  BY <1>2, <1>14 DEF StageRows
<1>15. ASSUME NEW r \in Requests, LogScoreEventFails(r) PROVE UNCHANGED Ledger!ledgerVars
  BY <1>2, <1>15 DEF LogScoreEventFails
<1>16. ASSUME NEW r \in Requests, IncrementVelocity(r) PROVE UNCHANGED Ledger!ledgerVars
  BY <1>2, <1>16 DEF IncrementVelocity
<1>17. ASSUME NEW r \in Requests, IncrementVelocityFails(r) PROVE UNCHANGED Ledger!ledgerVars
  BY <1>2, <1>17 DEF IncrementVelocityFails
<1>18. ASSUME NEW r \in Requests, Dispatch(r) PROVE UNCHANGED Ledger!ledgerVars
  BY <1>2, <1>18 DEF Dispatch
<1>19. ASSUME NEW r \in Requests, StartClose(r) PROVE UNCHANGED Ledger!ledgerVars
  BY <1>2, <1>19 DEF StartClose
<1>20. ASSUME NEW r \in Requests, CloseSession(r) PROVE UNCHANGED Ledger!ledgerVars
  BY <1>2, <1>20 DEF CloseSession
<1>21. ASSUME NEW r \in Requests, WriteShadowRow(r) PROVE UNCHANGED Ledger!ledgerVars
  BY <1>1, <1>21 DEF WriteShadowRow
<1>22. CASE UNCHANGED vars
  BY <1>1, <1>22 DEF vars
<1> QED
  BY <1>3, <1>4, <1>5, <1>6, <1>7, <1>8, <1>9, <1>10, <1>11, <1>12, <1>13, <1>14, <1>15,
     <1>16, <1>17, <1>18, <1>19, <1>20, <1>21, <1>22 DEF Next, RequestStep, Ledger!Next

\* POST /score implements the ledger: per request at most one decision, durable
\* before any 200 and never withdrawn, through every failure and crash.
THEOREM ImplementsLedger == Spec => LedgerSpec
<1>1. Init => Ledger!Init
  BY DEF Init, Ledger!Init, Kinds
<1> QED
  BY <1>1, LedgerStep, RecordInvariant, PTL DEF Spec, LedgerSpec, Ledger!Spec
-----------------------------------------------------------------------------
(* Row locks and parent rows.                                              *)

OneHandlerPerLoop ==
    \A r, s \in Requests :
        pc[r] \in OnLoop /\ pc[s] \in OnLoop /\ worker[r] = worker[s] => r = s

\* Stronger than the property: nothing is held past the commit.
LocksOnLoop ==
    \A r \in Requests :
        held[r] # {} =>
            /\ pc[r] \in {"upsert", "pipeline", "stage", "audit", "raised", "closing"}
            /\ tx[r] = "open"

LockInv == OneHandlerPerLoop /\ LocksOnLoop

\* It holds at the start.
LEMMA InitLockInv == Init => LockInv
  BY DEF Init, LockInv, OneHandlerPerLoop, LocksOnLoop, OnLoop

\* Every step keeps one handler on each loop, and its locks with it.
LEMMA NextLockInv == TypeInv /\ LockInv /\ [Next]_vars => LockInv'
<1> SUFFICES ASSUME TypeInv, LockInv, [Next]_vars PROVE LockInv'
  OBVIOUS
<1> USE DEF TypeInv, TypeOK, LockInv, OneHandlerPerLoop, LocksOnLoop, OnLoop, LoopFree,
            Goto, database, effects
<1>1. ASSUME NEW r \in Requests, Accept(r) PROVE LockInv'
  BY <1>1 DEF Accept, session
<1>2. ASSUME NEW r \in Requests, UpsertRow(r) PROVE LockInv'
  BY <1>2 DEF UpsertRow
<1>3. ASSUME NEW r \in Requests, DeadlockVictim(r) PROVE LockInv'
  BY <1>3 DEF DeadlockVictim, AbortTransaction
<1>4. ASSUME NEW r \in Requests, SqlError(r) PROVE LockInv'
  BY <1>4 DEF SqlError, AbortTransaction
<1>5. ASSUME NEW r \in Requests, PipelineRaises(r) PROVE LockInv'
  BY <1>5 DEF PipelineRaises, session
<1>6. ASSUME NEW r \in Requests, RunPipeline(r) PROVE LockInv'
  BY <1>6 DEF RunPipeline
<1>7. ASSUME NEW r \in Requests, RunPipelineGateError(r) PROVE LockInv'
  BY <1>7 DEF RunPipelineGateError, AbortTransaction
<1>8. ASSUME NEW r \in Requests, StageRows(r) PROVE LockInv'
  BY <1>8 DEF StageRows
<1>9. ASSUME NEW r \in Requests, LogScoreEvent(r) PROVE LockInv'
  BY <1>9 DEF LogScoreEvent, Commit
<1>10. ASSUME NEW r \in Requests, LogScoreEventFails(r) PROVE LockInv'
  BY <1>10 DEF LogScoreEventFails, Rollback
<1>11. ASSUME NEW r \in Requests, IncrementVelocity(r) PROVE LockInv'
  BY <1>11 DEF IncrementVelocity, session
<1>12. ASSUME NEW r \in Requests, IncrementVelocityFails(r) PROVE LockInv'
  BY <1>12 DEF IncrementVelocityFails, session
<1>13. ASSUME NEW r \in Requests, Dispatch(r) PROVE LockInv'
  <2>1. /\ pc[r] = "dispatch"
        /\ pc' = [pc EXCEPT ![r] = "padding"]
        /\ UNCHANGED <<worker, held, tx>>
    BY <1>13 DEF Dispatch, session
  <2> QED
    BY <2>1
<1>14. ASSUME NEW r \in Requests, Respond(r) PROVE LockInv'
  BY <1>14 DEF Respond, session
<1>15. ASSUME NEW r \in Requests, StartClose(r) PROVE LockInv'
  BY <1>15 DEF StartClose, session
<1>16. ASSUME NEW r \in Requests, CloseSession(r) PROVE LockInv'
  BY <1>16 DEF CloseSession, Rollback
<1>17. ASSUME NEW r \in Requests, AnswerError(r) PROVE LockInv'
  BY <1>17 DEF AnswerError, session
<1>18. ASSUME NEW r \in Requests, WriteShadowRow(r) PROVE LockInv'
  BY <1>18 DEF WriteShadowRow, session
<1>19. ASSUME NEW w \in Workers, Crash(w) PROVE LockInv'
  BY <1>19 DEF Crash, Rollback, Finished
<1>20. CASE UNCHANGED vars
  BY <1>20 DEF vars, session
<1> QED
  BY <1>1, <1>2, <1>3, <1>4, <1>5, <1>6, <1>7, <1>8, <1>9, <1>10, <1>11, <1>12,
     <1>13, <1>14, <1>15, <1>16, <1>17, <1>18, <1>19, <1>20 DEF Next, RequestStep

\* Row locks stay with a handler on its loop or with a failed one's session,
\* so a handler that waits for its own worker waits for a session whose cleanup
\* has not run (get_db's finally, which the blocked loop has to start).
THEOREM LocksStayOnLoop == Spec => []LocksNeverCrossAwait
<1>1. Init => TypeInv /\ LockInv
  BY InitTypeInv, InitLockInv
<1>2. TypeInv /\ LockInv /\ [Next]_vars => (TypeInv /\ LockInv)'
  BY NextTypeInv, NextLockInv
<1>3. LockInv => LocksNeverCrossAwait
  <2> SUFFICES ASSUME LockInv PROVE LocksNeverCrossAwait
    OBVIOUS
  <2>1. ASSUME NEW r \in Requests, NEW s \in Requests,
               WaitsFor(r, s), worker[r] = worker[s]
        PROVE  pc[s] \in {"raised", "closing"}
    BY <2>1 DEF LockInv, OneHandlerPerLoop, LocksOnLoop, WaitsFor, OnLoop
  <2> QED
    BY <2>1 DEF LockInv, LocksOnLoop, LocksNeverCrossAwait, OnLoop
<1> QED
  BY <1>1, <1>2, <1>3, PTL DEF Spec
-----------------------------------------------------------------------------
(* The rows a decision refers to.                                          *)

\* Every key of r's upsert is committed or r's own.
HasParents(r, n) == \A i \in 1 .. n : UpsertOrder(r)[i] \in rows \cup held[r]

\* What a request has upserted is there for as long as its transaction lives.
Present(r) ==
    /\ pc[r] = "new" => upserted[r] = 0
    /\ pc[r] = "upsert" => HasParents(r, upserted[r])
    /\ pc[r] \in {"pipeline", "stage", "audit"} /\ tx[r] = "open" =>
          HasParents(r, Len(UpsertOrder(r)))

UpsertedPresent == \A r \in Requests : Present(r)

ParentInv == UpsertedPresent /\ ParentRowsExist

\* It holds at the start.
LEMMA InitParentInv == Init => ParentInv
  BY DEF Init, ParentInv, UpsertedPresent, Present, HasParents, ParentRowsExist, Kinds

\* What a step leaves alone of s keeps its parents: committed keys stay.
LEMMA PresentFrame ==
    ASSUME NEW s \in Requests, Present(s), rows \subseteq rows',
           pc'[s] = pc[s], tx'[s] = tx[s], upserted'[s] = upserted[s], held'[s] = held[s]
    PROVE  Present(s)'
  BY DEF Present, HasParents, UpsertOrder

\* A step that commits nothing keeps the parents of the committed rows.
LEMMA CommittedFrame ==
    ASSUME ParentRowsExist, UNCHANGED <<rows, table, shadow>>
    PROVE  ParentRowsExist'
  BY DEF ParentRowsExist, UpsertOrder

\* One more key present.
LEMMA ParentsGrow ==
    ASSUME NEW r \in Requests, NEW n \in Nat, HasParents(r, n),
           rows' = rows, held[r] \subseteq held'[r],
           UpsertOrder(r)[n + 1] \in rows' \cup held'[r]
    PROVE  HasParents(r, n + 1)'
<1> SUFFICES ASSUME NEW i \in 1 .. n + 1 PROVE UpsertOrder(r)[i] \in rows' \cup held'[r]
  BY DEF HasParents, UpsertOrder
<1>1. CASE i = n + 1
  BY <1>1
<1>2. CASE i \in 1 .. n
  BY <1>2 DEF HasParents
<1> QED
  BY <1>1, <1>2

\* Every step keeps the upserted rows and the parents of the committed ones.
LEMMA NextParentInv == TypeInv /\ ParentInv /\ [Next]_vars => ParentInv'
<1> SUFFICES ASSUME TypeInv, ParentInv, [Next]_vars PROVE ParentInv'
  OBVIOUS
<1> USE DEF TypeInv, TypeOK, ParentInv, UpsertedPresent, Present, HasParents, ParentRowsExist,
            UpsertOrder, Goto, database, effects
<1>1. ASSUME NEW r \in Requests, Accept(r) PROVE ParentInv'
  <2>1. ASSUME NEW s \in Requests, s # r PROVE Present(s)'
    BY <1>1, <2>1, PresentFrame DEF Accept, session
  <2>2. pc'[r] = "upsert" /\ upserted'[r] = 0
    BY <1>1 DEF Accept, session
  <2>3. Present(r)'
    BY <2>2
  <2>4. ParentRowsExist'
    BY <1>1, CommittedFrame DEF Accept
  <2> HIDE DEF Present, ParentRowsExist
  <2> QED
    BY <2>1, <2>3, <2>4
<1>2. ASSUME NEW r \in Requests, UpsertRow(r) PROVE ParentInv'
  <2>1. ASSUME NEW s \in Requests, s # r PROVE Present(s)'
    BY <1>2, <2>1, PresentFrame DEF UpsertRow
  <2>2. PICK n \in Nat : n = upserted[r]
    OBVIOUS
  <2>3. HasParents(r, n) /\ n + 1 <= Len(UpsertOrder(r))
    BY <1>2, <2>2 DEF UpsertRow, UpsertInRange
  <2>4. /\ UpsertOrder(r)[n + 1] \in rows' \cup held'[r]
        /\ rows' = rows /\ held[r] \subseteq held'[r]
    BY <1>2, <2>2 DEF UpsertRow, UpsertKey
  <2>5. HasParents(r, n + 1)'
    BY ONLY <2>3, <2>4, ParentsGrow
  <2>6. /\ upserted'[r] = n + 1
        /\ pc'[r] = IF n + 1 = Len(UpsertOrder(r)) THEN "pipeline" ELSE "upsert"
    BY <1>2, <2>2 DEF UpsertRow
  <2>7. Present(r)'
    <3> HIDE DEF UpsertOrder, HasParents
    <3> QED
      BY <2>5, <2>6
  <2>8. ParentRowsExist'
    BY <1>2, CommittedFrame DEF UpsertRow
  <2> HIDE DEF Present, ParentRowsExist
  <2> QED
    BY <2>1, <2>7, <2>8
<1>3. ASSUME NEW r \in Requests, DeadlockVictim(r) PROVE ParentInv'
  BY <1>3 DEF DeadlockVictim, AbortTransaction
<1>4. ASSUME NEW r \in Requests, SqlError(r) PROVE ParentInv'
  BY <1>4 DEF SqlError, AbortTransaction
<1>5. ASSUME NEW r \in Requests, PipelineRaises(r) PROVE ParentInv'
  BY <1>5 DEF PipelineRaises, session
<1>6. ASSUME NEW r \in Requests, RunPipeline(r) PROVE ParentInv'
  BY <1>6 DEF RunPipeline, SubmitShadowTask
<1>7. ASSUME NEW r \in Requests, RunPipelineGateError(r) PROVE ParentInv'
  <2>1. ASSUME NEW s \in Requests, s # r PROVE Present(s)'
    BY <1>7, <2>1, PresentFrame DEF RunPipelineGateError, AbortTransaction
  <2>2. pc'[r] \in {"stage", "raised"} /\ tx'[r] = "aborted"
    BY <1>7 DEF RunPipelineGateError, AbortTransaction
  <2>3. Present(r)'
    BY <2>2
  <2>4. UNCHANGED <<rows, table>> /\ \A s \in Requests : shadow'[s] \in {shadow[s], "running"}
    BY <1>7 DEF RunPipelineGateError, SubmitShadowTask
  <2>5. ParentRowsExist'
    BY <2>4
  <2> HIDE DEF Present, ParentRowsExist
  <2> QED
    BY <2>1, <2>3, <2>5
<1>8. ASSUME NEW r \in Requests, StageRows(r) PROVE ParentInv'
  BY <1>8 DEF StageRows
<1>9. ASSUME NEW r \in Requests, LogScoreEvent(r) PROVE ParentInv'
  <2>1. rows' = rows \cup held[r]
    BY <1>9 DEF LogScoreEvent, Commit
  <2>2. ASSUME NEW s \in Requests, s # r PROVE Present(s)'
    BY <1>9, <2>1, <2>2, PresentFrame DEF LogScoreEvent, Commit
  <2>3. pc'[r] = "velocity" /\ shadow' = shadow
    BY <1>9 DEF LogScoreEvent
  <2>4. Present(r)'
    BY <2>3
  <2>5. \A i \in 1 .. Len(UpsertOrder(r)) : UpsertOrder(r)[i] \in rows'
    BY <1>9, <2>1 DEF LogScoreEvent
  <2>6. \A k \in Kinds : table'[k] \subseteq table[k] \cup {RowOf(r)}
    BY <1>9 DEF LogScoreEvent, Commit
  <2>7. RowOf(r).req = r
    BY DEF RowOf
  <2>8. ParentRowsExist'
    BY <2>1, <2>3, <2>5, <2>6, <2>7
  <2> HIDE DEF Present, ParentRowsExist
  <2> QED
    BY <2>2, <2>4, <2>8
<1>10. ASSUME NEW r \in Requests, LogScoreEventFails(r) PROVE ParentInv'
  BY <1>10 DEF LogScoreEventFails, Rollback
<1>11. ASSUME NEW r \in Requests, IncrementVelocity(r) PROVE ParentInv'
  BY <1>11 DEF IncrementVelocity, session
<1>12. ASSUME NEW r \in Requests, IncrementVelocityFails(r) PROVE ParentInv'
  BY <1>12 DEF IncrementVelocityFails, session
<1>13. ASSUME NEW r \in Requests, Dispatch(r) PROVE ParentInv'
  BY <1>13 DEF Dispatch, session
<1>14. ASSUME NEW r \in Requests, Respond(r) PROVE ParentInv'
  BY <1>14 DEF Respond, session
<1>15. ASSUME NEW r \in Requests, StartClose(r) PROVE ParentInv'
  BY <1>15 DEF StartClose, session
<1>16. ASSUME NEW r \in Requests, CloseSession(r) PROVE ParentInv'
  BY <1>16 DEF CloseSession, Rollback
<1>17. ASSUME NEW r \in Requests, AnswerError(r) PROVE ParentInv'
  BY <1>17 DEF AnswerError, session
<1>18. ASSUME NEW r \in Requests, WriteShadowRow(r) PROVE ParentInv'
  BY <1>18 DEF WriteShadowRow, session
<1>19. ASSUME NEW w \in Workers, Crash(w) PROVE ParentInv'
  BY <1>19 DEF Crash, Rollback, Finished
<1>20. CASE UNCHANGED vars
  BY <1>20 DEF vars, session
<1> QED
  BY <1>1, <1>2, <1>3, <1>4, <1>5, <1>6, <1>7, <1>8, <1>9, <1>10, <1>11, <1>12,
     <1>13, <1>14, <1>15, <1>16, <1>17, <1>18, <1>19, <1>20 DEF Next, RequestStep

\* No committed row refers to a transaction or an account that is not there,
\* although the rows of one request may be another's parents
\* (_upsert_transaction inserts only what it does not find).
THEOREM ParentsExist == Spec => []ParentRowsExist
<1>1. Init => TypeInv /\ ParentInv
  BY InitTypeInv, InitParentInv
<1>2. TypeInv /\ ParentInv /\ [Next]_vars => (TypeInv /\ ParentInv)'
  BY NextTypeInv, NextParentInv
<1>3. ParentInv => ParentRowsExist
  BY DEF ParentInv
<1> QED
  BY <1>1, <1>2, <1>3, PTL DEF Spec
-----------------------------------------------------------------------------
(* Trail tasks.                                                            *)

\* From the staging on, the trail task of an alert is at the broker or refused.
TrailQueued(r) == r \in trailTasks \/ "broker" \in faults[r]

StagedAlertQueued ==
    \A r \in Requests : pc[r] = "audit" /\ RaisesAlert(outcome[r]) => TrailQueued(r)

AlertsAreOwn == \A row \in table["alert"] : row.req \in Requests

TrailInv == StagedAlertQueued /\ AlertsAreOwn /\ AlertHasTrailTask

\* Tasks and faults are never taken back.
LEMMA TrailGrows ==
    ASSUME TypeInv, [Next]_vars
    PROVE  /\ trailTasks \subseteq trailTasks'
           /\ \A r \in Requests : faults[r] \subseteq faults'[r]
<1> USE DEF TypeInv, TypeOK, effects
<1>1. ASSUME NEW r \in Requests, RequestStep(r)
      PROVE  /\ trailTasks \subseteq trailTasks'
             /\ \A s \in Requests : faults[s] \subseteq faults'[s]
  <2>1. trailTasks \subseteq trailTasks'
    BY <1>1 DEF RequestStep, UpsertRow, DeadlockVictim, SqlError, PipelineRaises, RunPipeline,
                RunPipelineGateError, StageRows, LogScoreEvent, LogScoreEventFails,
                IncrementVelocity, IncrementVelocityFails, Dispatch, Respond, StartClose,
                CloseSession, AnswerError
  <2>2. faults' = faults \/ \E f : faults' = [faults EXCEPT ![r] = @ \cup {f}]
    BY <1>1 DEF RequestStep, UpsertRow, DeadlockVictim, SqlError, PipelineRaises, RunPipeline,
                RunPipelineGateError, StageRows, LogScoreEvent, LogScoreEventFails,
                IncrementVelocity, IncrementVelocityFails, Dispatch, Respond, StartClose,
                CloseSession, AnswerError, Meets
  <2> QED
    BY <2>1, <2>2
<1>2. ASSUME NEW r \in Requests, Accept(r) \/ WriteShadowRow(r)
      PROVE  UNCHANGED <<trailTasks, faults>>
  BY <1>2 DEF Accept, WriteShadowRow
<1>3. ASSUME NEW w \in Workers, Crash(w) PROVE UNCHANGED <<trailTasks, faults>>
  BY <1>3 DEF Crash
<1> QED
  BY <1>1, <1>2, <1>3 DEF Next, vars

\* Every step keeps the alerts' tasks.
LEMMA NextTrailInv == TypeInv /\ RecordInv /\ TrailInv /\ [Next]_vars => TrailInv'
<1> SUFFICES ASSUME TypeInv, RecordInv, TrailInv, [Next]_vars PROVE TrailInv'
  OBVIOUS
<1>1. \A r \in Requests : TrailQueued(r) => TrailQueued(r)'
  BY TrailGrows DEF TrailQueued
<1>2. ASSUME UNCHANGED table,
             \A r \in Requests :
                pc'[r] = "audit" => pc[r] = "audit" /\ outcome'[r] = outcome[r]
      PROVE  TrailInv'
  BY <1>1, <1>2 DEF TrailInv, StagedAlertQueued, AlertsAreOwn, AlertHasTrailTask,
                    TrailQueued, RaisesAlert
<1> USE DEF TypeInv, TypeOK, Goto, database
<1>3. ASSUME NEW r \in Requests, StageRows(r) PROVE TrailInv'
  <2>1. pc' = [pc EXCEPT ![r] = "audit"] /\ outcome' = outcome /\ table' = table
    BY <1>3 DEF StageRows
  <2>2. RaisesAlert(outcome[r]) => TrailQueued(r)'
    BY <1>3 DEF StageRows, Meets, TrailQueued
  <2>3. StagedAlertQueued'
    BY <1>1, <2>1, <2>2 DEF TrailInv, StagedAlertQueued, RaisesAlert
  <2>4. AlertsAreOwn' /\ AlertHasTrailTask'
    BY <1>1, <2>1 DEF TrailInv, AlertsAreOwn, AlertHasTrailTask, TrailQueued
  <2> QED
    BY <2>3, <2>4 DEF TrailInv
<1>4. ASSUME NEW r \in Requests, LogScoreEvent(r) PROVE TrailInv'
  <2>1. /\ pc' = [pc EXCEPT ![r] = "velocity"] /\ outcome' = outcome
        /\ pc[r] = "audit" /\ tx[r] = "open"
        /\ table'["alert"] = IF "alert" \in staged[r]
                              THEN table["alert"] \cup {RowOf(r)} ELSE table["alert"]
    BY <1>4 DEF LogScoreEvent, Commit, Kinds
  <2>2. "alert" \in staged[r] => RaisesAlert(outcome[r])
    BY <2>1 DEF RecordInv, StagedInv, Staged, CommitteeStaged, AlertStaged
  <2>3. "alert" \in staged[r] => TrailQueued(r)'
    BY <1>1, <2>1, <2>2 DEF TrailInv, StagedAlertQueued
  <2>4. StagedAlertQueued'
    BY <1>1, <2>1 DEF TrailInv, StagedAlertQueued, RaisesAlert
  <2>5. AlertsAreOwn' /\ AlertHasTrailTask'
    BY <1>1, <2>1, <2>3 DEF TrailInv, AlertsAreOwn, AlertHasTrailTask, TrailQueued, RowOf
  <2> QED
    BY <2>4, <2>5 DEF TrailInv
<1>5. ASSUME NEW r \in Requests, Accept(r) PROVE TrailInv'
  BY <1>2, <1>5 DEF Accept
<1>6. ASSUME NEW r \in Requests, UpsertRow(r) PROVE TrailInv'
  BY <1>2, <1>6 DEF UpsertRow
<1>7. ASSUME NEW r \in Requests, DeadlockVictim(r) PROVE TrailInv'
  BY <1>2, <1>7 DEF DeadlockVictim
<1>8. ASSUME NEW r \in Requests, SqlError(r) PROVE TrailInv'
  BY <1>2, <1>8 DEF SqlError
<1>9. ASSUME NEW r \in Requests, PipelineRaises(r) PROVE TrailInv'
  BY <1>2, <1>9 DEF PipelineRaises
<1>10. ASSUME NEW r \in Requests, RunPipeline(r) PROVE TrailInv'
  BY <1>2, <1>10 DEF RunPipeline
<1>11. ASSUME NEW r \in Requests, RunPipelineGateError(r) PROVE TrailInv'
  BY <1>2, <1>11 DEF RunPipelineGateError
<1>12. ASSUME NEW r \in Requests, LogScoreEventFails(r) PROVE TrailInv'
  BY <1>2, <1>12 DEF LogScoreEventFails
<1>13. ASSUME NEW r \in Requests, IncrementVelocity(r) PROVE TrailInv'
  BY <1>2, <1>13 DEF IncrementVelocity
<1>14. ASSUME NEW r \in Requests, IncrementVelocityFails(r) PROVE TrailInv'
  BY <1>2, <1>14 DEF IncrementVelocityFails
<1>15. ASSUME NEW r \in Requests, Dispatch(r) PROVE TrailInv'
  BY <1>2, <1>15 DEF Dispatch
<1>16. ASSUME NEW r \in Requests, Respond(r) PROVE TrailInv'
  BY <1>2, <1>16 DEF Respond
<1>17. ASSUME NEW r \in Requests, StartClose(r) PROVE TrailInv'
  BY <1>2, <1>17 DEF StartClose
<1>18. ASSUME NEW r \in Requests, CloseSession(r) PROVE TrailInv'
  BY <1>2, <1>18 DEF CloseSession
<1>19. ASSUME NEW r \in Requests, AnswerError(r) PROVE TrailInv'
  BY <1>2, <1>19 DEF AnswerError
<1>20. ASSUME NEW r \in Requests, WriteShadowRow(r) PROVE TrailInv'
  BY <1>2, <1>20 DEF WriteShadowRow
<1>21. ASSUME NEW w \in Workers, Crash(w) PROVE TrailInv'
  BY <1>2, <1>21 DEF Crash
<1>22. CASE UNCHANGED vars
  BY <1>2, <1>22 DEF vars
<1> QED
  BY <1>3, <1>4, <1>5, <1>6, <1>7, <1>8, <1>9, <1>10, <1>11, <1>12, <1>13,
     <1>14, <1>15, <1>16, <1>17, <1>18, <1>19, <1>20, <1>21, <1>22 DEF Next, RequestStep

\* Every committed alert has a trail task that reached the broker, unless the
\* broker refused it (score_transaction queues it before the commit).
THEOREM AlertsHaveTrailTasks == Spec => []AlertHasTrailTask
<1>1. Init => TrailInv
  BY DEF Init, TrailInv, StagedAlertQueued, AlertsAreOwn, AlertHasTrailTask, Kinds
<1>2. Spec => []TrailInv
  BY <1>1, RecordInvariant, NextTrailInv, PTL DEF Spec
<1>3. TrailInv => AlertHasTrailTask
  BY DEF TrailInv
<1> QED
  BY <1>2, <1>3, PTL
=============================================================================
