-------------------------- MODULE CaseReviewProofs --------------------------
(***************************************************************************)
(* Theorems about CaseReview, for every set of alerts, requests and        *)
(* workers and every bound.                                                *)
(***************************************************************************)
EXTENDS CaseReview, TLAPS

-----------------------------------------------------------------------------
(* Type correctness.  A review is about a feedback that made a candidate,  *)
(* and a request at work has a subject and an intent.                      *)

FeedbackTyped(f) ==
    /\ subject[f] \in Alerts \cup {None}
    /\ intent[f] \in Verdicts \cup {None}
    /\ pc[f] \in OnLoop => subject[f] \in Alerts /\ intent[f] \in Verdicts

ReviewTyped(d) ==
    /\ subject[d] \in Feedbacks \cup {None}
    /\ intent[d] \in Decisions \cup {None}
    /\ pc[d] \in OnLoop => /\ subject[d] \in Candidates
                           /\ intent[d] \in Decisions
                           /\ worker[d] \in Workers

TypeInv ==
    /\ TypeOK
    /\ subject \in [Requests -> Alerts \cup Feedbacks \cup {None}]
    /\ intent \in [Requests -> Verdicts \cup Decisions \cup {None}]
    /\ \A q \in Requests : worker[q] # None <=> pc[q] \in OnLoop
    /\ \A f \in Feedbacks : FeedbackTyped(f)
    /\ \A d \in Reviews : ReviewTyped(d)

\* It holds at the start.
LEMMA InitTypeInv == Init => TypeInv
<1> SUFFICES ASSUME Init PROVE TypeInv
  OBVIOUS
<1> USE CaseAssumption DEF Init, Requests
<1>1. \A f \in Feedbacks : FeedbackTyped(f)
  BY DEF FeedbackTyped, OnLoop
<1>2. \A d \in Reviews : ReviewTyped(d)
  BY DEF ReviewTyped, OnLoop
<1>3. pc \in [Requests -> Steps] /\ seen \in [Feedbacks -> AlertStatuses]
  BY DEF Steps, AlertStatuses
<1>4. status \in [Alerts -> AlertStatuses] /\ log \in Seq(Feedbacks)
  BY DEF AlertStatuses
<1>5. table \in [Tables -> SUBSET Feedbacks] /\ staged \in [Feedbacks -> SUBSET Tables]
  OBVIOUS
<1>6. faults \in 0 .. MaxFaults /\ crashes \in 0 .. MaxCrashes
  OBVIOUS
<1>7. TypeOK
  BY <1>1, <1>2, <1>3, <1>4, <1>5, <1>6 DEF TypeOK, FeedbackTyped, ReviewTyped
<1>8. \A q \in Requests : worker[q] # None <=> pc[q] \in OnLoop
  BY DEF OnLoop
<1> QED
  BY <1>1, <1>2, <1>7, <1>8 DEF TypeInv

\* Every step keeps it.
LEMMA StepTypeInv == TypeInv /\ [Next]_vars => TypeInv'
<1> SUFFICES ASSUME TypeInv, [Next]_vars PROVE TypeInv'
  OBVIOUS
<1> USE CaseAssumption DEF TypeInv, TypeOK, FeedbackTyped, ReviewTyped, Requests, Candidates,
                           Steps, OnLoop, Finished, AlertStatuses, CandidateStatuses,
                           request, session, database, vaults, outside
<1>1. ASSUME NEW f \in Feedbacks, LoadAlert(f) PROVE TypeInv'
  BY <1>1 DEF LoadAlert, Accept
<1>2. ASSUME NEW f \in Feedbacks, RouteFraud(f) PROVE TypeInv'
  BY <1>2 DEF RouteFraud, Goto, Tables
<1>3. ASSUME NEW f \in Feedbacks, RouteClean(f) PROVE TypeInv'
  BY <1>3 DEF RouteClean, Goto, Tables
<1>4. ASSUME NEW f \in Feedbacks, RoutingFails(f) PROVE TypeInv'
  BY <1>4 DEF RoutingFails, Goto, Fails, Rollback
<1>5. ASSUME NEW f \in Feedbacks, RoutingAuditFails(f) PROVE TypeInv'
  BY <1>5 DEF RoutingAuditFails, Answer, Fails, Rollback
<1>6. ASSUME NEW f \in Feedbacks, Announce(f) PROVE TypeInv'
  BY <1>6 DEF Announce, Goto, Fails
<1>7. ASSUME NEW f \in Feedbacks, RecordFeedback(f) PROVE TypeInv'
  BY <1>7 DEF RecordFeedback, Answer, CommitRouting, StatusOf
<1>8. ASSUME NEW f \in Feedbacks, RecordFeedbackFails(f) PROVE TypeInv'
  BY <1>8 DEF RecordFeedbackFails, Answer, Fails, Rollback
<1>9. ASSUME NEW d \in Reviews, LoadCandidate(d) PROVE TypeInv'
  BY <1>9 DEF LoadCandidate, Accept, Meet, InProgress
<1>10. ASSUME NEW d \in Reviews, RefuseReview(d) PROVE TypeInv'
  BY <1>10 DEF RefuseReview, Answer
<1>11. ASSUME NEW d \in Reviews, NullFeatureRaises(d) PROVE TypeInv'
  BY <1>11 DEF NullFeatureRaises, Answer
<1>12. ASSUME NEW d \in Reviews, InjectPrototype(d) PROVE TypeInv'
  BY <1>12 DEF InjectPrototype, Goto
<1>13. ASSUME NEW d \in Reviews, PersistFails(d) PROVE TypeInv'
  BY <1>13 DEF PersistFails, Answer, Fails
<1>14. ASSUME NEW d \in Reviews, MarkReviewed(d) PROVE TypeInv'
  BY <1>14 DEF MarkReviewed, Answer, Marking, Verdict
<1>15. ASSUME NEW d \in Reviews, MarkReviewedFails(d) PROVE TypeInv'
  BY <1>15 DEF MarkReviewedFails, Answer, Fails
<1>16. ASSUME NEW w \in Workers, Crash(w) PROVE TypeInv'
  BY <1>16 DEF Crash, Rollback
<1>17. CASE UNCHANGED vars
  BY <1>17 DEF vars
<1> QED
  BY <1>1, <1>2, <1>3, <1>4, <1>5, <1>6, <1>7, <1>8, <1>9, <1>10, <1>11, <1>12, <1>13, <1>14, <1>15, <1>16, <1>17
     DEF Next, Feedback, Review

\* Requests, database and vaults keep their types, and no review ever works on
\* a candidate that does not exist (submit_feedback and the developer queue).
THEOREM TypeCorrect == Spec => []TypeOK
<1>1. TypeInv => TypeOK
  BY DEF TypeInv
<1> QED
  BY <1>1, InitTypeInv, StepTypeInv, PTL DEF Spec

-----------------------------------------------------------------------------
(* Routing.  What a feedback has staged depends on its step and on whether *)
(* its transaction is alive; what it has in the tables, on being logged.   *)

\* The tables a verdict is routed to.
Routes(verdict) ==
    IF verdict = "fraud" THEN {"candidates", "curated", "routing"}
                         ELSE {"curated", "registry", "routing"}

FeedbackInv(f) ==
    /\ pc[f] \in {"new", "loaded"} => tx[f] = "open" /\ staged[f] = {}
    /\ pc[f] \in {"routed", "announced"} =>
          staged[f] = IF tx[f] = "open" THEN Routes(intent[f]) ELSE {}
    /\ f \in Logged <=> pc[f] = "ok"
    /\ \A t \in Tables : f \in table[t] <=> f \in Logged /\ t \in Routes(intent[f])
    /\ candidate[f] # None <=> f \in table["candidates"]
    /\ f \in Logged => intent[f] \in Verdicts

RoutingInv == \A f \in Feedbacks : FeedbackInv(f)

\* Recording a feedback adds it to the log and to nothing else.
LEMMA LoggedAppend ==
    ASSUME log \in Seq(Feedbacks), NEW f \in Feedbacks, log' = Append(log, f)
    PROVE  Logged' = Logged \cup {f}
<1>1. Len(log') = Len(log) + 1 /\ Len(log) \in Nat
  OBVIOUS
<1>2. \A i \in 1 .. Len(log) : log'[i] = log[i]
  OBVIOUS
<1>3. log'[Len(log) + 1] = f
  OBVIOUS
<1> QED
  BY <1>1, <1>2, <1>3 DEF Logged

\* What has been logged is read off the log alone.
LEMMA LoggedSame == log' = log => Logged' = Logged
<1> QED
  BY DEF Logged

\* It holds at the start.
LEMMA InitRoutingInv == Init => RoutingInv
<1> SUFFICES ASSUME Init, NEW f \in Feedbacks PROVE FeedbackInv(f)
  BY DEF RoutingInv
<1>1. Logged = {}
  BY DEF Init, Logged
<1> QED
  BY <1>1, CaseAssumption DEF Init, FeedbackInv, Requests, Tables

\* Every step keeps it.
LEMMA StepRoutingInv == TypeInv /\ RoutingInv /\ [Next]_vars => RoutingInv'
<1> SUFFICES ASSUME TypeInv, RoutingInv, [Next]_vars PROVE RoutingInv'
  OBVIOUS
<1> USE CaseAssumption DEF TypeInv, TypeOK, Requests, request, session, database, vaults, outside,
                           RoutingInv, FeedbackInv, Routes
<1>1. ASSUME NEW f \in Feedbacks, LoadAlert(f) PROVE RoutingInv'
  BY <1>1, LoggedSame DEF LoadAlert, Accept
<1>2. ASSUME NEW f \in Feedbacks, RouteFraud(f) PROVE RoutingInv'
  BY <1>2, LoggedSame DEF RouteFraud, Goto
<1>3. ASSUME NEW f \in Feedbacks, RouteClean(f) PROVE RoutingInv'
  BY <1>3, LoggedSame DEF RouteClean, Goto
<1>4. ASSUME NEW f \in Feedbacks, RoutingFails(f) PROVE RoutingInv'
  BY <1>4, LoggedSame DEF RoutingFails, Goto, Fails, Rollback
<1>5. ASSUME NEW f \in Feedbacks, RoutingAuditFails(f) PROVE RoutingInv'
  BY <1>5, LoggedSame DEF RoutingAuditFails, Answer, Fails, Rollback
<1>6. ASSUME NEW f \in Feedbacks, Announce(f) PROVE RoutingInv'
  BY <1>6, LoggedSame DEF Announce, Goto, Fails
<1>7. ASSUME NEW f \in Feedbacks, RecordFeedback(f) PROVE RoutingInv'
  <2>1. Logged' = Logged \cup {f}
    BY <1>7, LoggedAppend DEF RecordFeedback
  <2>2. staged[f] = Routes(intent[f]) /\ f \notin Logged
    BY <1>7 DEF RecordFeedback
  <2>3. intent[f] \in Verdicts
    BY <1>7 DEF RecordFeedback, FeedbackTyped, OnLoop
  <2>4. ASSUME NEW g \in Feedbacks PROVE FeedbackInv(g)'
    <3>1. CASE g = f
      BY <1>7, <2>1, <2>2, <2>3, <3>1 DEF RecordFeedback, Answer, CommitRouting, CandidateStatuses,
         Tables, Routes
    <3>2. CASE g # f
      <4>1. /\ g \in Logged' <=> g \in Logged
            /\ pc'[g] = pc[g] /\ staged'[g] = staged[g] /\ candidate'[g] = candidate[g]
            /\ intent' = intent /\ tx' = tx
        BY <1>7, <2>1, <3>2 DEF RecordFeedback, Answer, CommitRouting
      <4>2. \A t \in Tables : g \in table'[t] <=> g \in table[t]
        BY <1>7, <3>2 DEF RecordFeedback, CommitRouting
      <4>3. "candidates" \in Tables
        BY DEF Tables
      <4> QED
        BY <4>1, <4>2, <4>3
    <3> QED
      BY <3>1, <3>2
  <2> QED
    BY <2>4
<1>8. ASSUME NEW f \in Feedbacks, RecordFeedbackFails(f) PROVE RoutingInv'
  BY <1>8, LoggedSame DEF RecordFeedbackFails, Answer, Fails, Rollback
<1>9. ASSUME NEW d \in Reviews, LoadCandidate(d) PROVE RoutingInv'
  BY <1>9, LoggedSame DEF LoadCandidate, Accept, Meet, InProgress
<1>10. ASSUME NEW d \in Reviews, RefuseReview(d) PROVE RoutingInv'
  BY <1>10, LoggedSame DEF RefuseReview, Answer
<1>11. ASSUME NEW d \in Reviews, NullFeatureRaises(d) PROVE RoutingInv'
  BY <1>11, LoggedSame DEF NullFeatureRaises, Answer
<1>12. ASSUME NEW d \in Reviews, InjectPrototype(d) PROVE RoutingInv'
  BY <1>12, LoggedSame DEF InjectPrototype, Goto
<1>13. ASSUME NEW d \in Reviews, PersistFails(d) PROVE RoutingInv'
  BY <1>13, LoggedSame DEF PersistFails, Answer, Fails
<1>14. ASSUME NEW d \in Reviews, MarkReviewed(d) PROVE RoutingInv'
  <2>1. subject[d] \in Candidates
    BY <1>14 DEF MarkReviewed, Marking, ReviewTyped, OnLoop
  <2>2. Verdict(intent[d]) # None
    BY DEF Verdict, CandidateStatuses
  <2>3. \A f \in Feedbacks : candidate'[f] # None <=> candidate[f] # None
    BY <1>14, <2>1, <2>2 DEF MarkReviewed, Candidates
  <2> QED
    BY <1>14, <2>3, LoggedSame DEF MarkReviewed, Answer
<1>15. ASSUME NEW d \in Reviews, MarkReviewedFails(d) PROVE RoutingInv'
  BY <1>15, LoggedSame DEF MarkReviewedFails, Answer, Fails
<1>16. ASSUME NEW w \in Workers, Crash(w) PROVE RoutingInv'
  BY <1>16, LoggedSame DEF Crash, Rollback, OnLoop
<1>17. CASE UNCHANGED vars
  BY <1>17, LoggedSame DEF vars
<1> QED
  BY <1>1, <1>2, <1>3, <1>4, <1>5, <1>6, <1>7, <1>8, <1>9,
     <1>10, <1>11, <1>12, <1>13, <1>14, <1>15, <1>16, <1>17
     DEF Next, Feedback, Review

\* No recorded verdict lacks a row of its routing, and no row of a routing lacks
\* its recorded verdict, although routing errors are swallowed.
THEOREM VerdictsRoutedTogether == Spec => []RoutedTogether
<1>1. TypeInv /\ RoutingInv => RoutedTogether
  <2> SUFFICES ASSUME TypeInv, RoutingInv PROVE RoutedTogether
    OBVIOUS
  <2>1. Logged \subseteq Feedbacks /\ table \in [Tables -> SUBSET Feedbacks]
    BY DEF TypeInv, TypeOK, Logged
  <2>2. \A f \in Feedbacks :
           /\ f \in table["routing"] <=> f \in Logged
           /\ f \in table["curated"] <=> f \in Logged
           /\ f \in table["candidates"] <=> f \in Logged /\ intent[f] = "fraud"
           /\ f \in Candidates <=> f \in Logged /\ intent[f] = "fraud"
           /\ f \in table["registry"] <=> f \in Logged /\ intent[f] = "clean"
    BY DEF RoutingInv, FeedbackInv, Routes, Tables, Verdicts, Candidates
  <2>3. table["routing"] = Logged /\ table["curated"] = Logged
    BY <2>1, <2>2 DEF Tables
  <2>4. /\ table["candidates"] = {f \in Logged : intent[f] = "fraud"}
        /\ table["registry"] = {f \in Logged : intent[f] = "clean"}
    BY <2>1, <2>2 DEF Tables
  <2>5. Candidates = {f \in Logged : intent[f] = "fraud"}
    BY <2>1, <2>2 DEF Candidates
  <2> QED
    BY <2>3, <2>4, <2>5 DEF RoutedTogether
<1> QED
  BY <1>1, InitTypeInv, StepTypeInv, InitRoutingInv, StepRoutingInv, PTL DEF Spec

-----------------------------------------------------------------------------
(* What no step undoes.                                                    *)

\* A review that has started keeps its candidate and its decision.
LEMMA ReviewsStay ==
    ASSUME TypeInv, [Next]_vars, NEW e \in Reviews, pc[e] # "new"
    PROVE  pc'[e] # "new" /\ subject'[e] = subject[e] /\ intent'[e] = intent[e]
<1> USE CaseAssumption DEF TypeInv, TypeOK, Requests, request
<1>1. ASSUME NEW f \in Feedbacks, LoadAlert(f) PROVE pc'[e] # "new" /\ subject'[e] = subject[e] /\ intent'[e] = intent[e]
  BY <1>1 DEF LoadAlert, Accept
<1>2. ASSUME NEW f \in Feedbacks, RouteFraud(f) PROVE pc'[e] # "new" /\ subject'[e] = subject[e] /\ intent'[e] = intent[e]
  BY <1>2 DEF RouteFraud, Goto
<1>3. ASSUME NEW f \in Feedbacks, RouteClean(f) PROVE pc'[e] # "new" /\ subject'[e] = subject[e] /\ intent'[e] = intent[e]
  BY <1>3 DEF RouteClean, Goto
<1>4. ASSUME NEW f \in Feedbacks, RoutingFails(f) PROVE pc'[e] # "new" /\ subject'[e] = subject[e] /\ intent'[e] = intent[e]
  BY <1>4 DEF RoutingFails, Goto, Fails, Rollback
<1>5. ASSUME NEW f \in Feedbacks, RoutingAuditFails(f) PROVE pc'[e] # "new" /\ subject'[e] = subject[e] /\ intent'[e] = intent[e]
  BY <1>5 DEF RoutingAuditFails, Answer, Fails, Rollback
<1>6. ASSUME NEW f \in Feedbacks, Announce(f) PROVE pc'[e] # "new" /\ subject'[e] = subject[e] /\ intent'[e] = intent[e]
  BY <1>6 DEF Announce, Goto, Fails
<1>7. ASSUME NEW f \in Feedbacks, RecordFeedback(f) PROVE pc'[e] # "new" /\ subject'[e] = subject[e] /\ intent'[e] = intent[e]
  BY <1>7 DEF RecordFeedback, Answer, CommitRouting
<1>8. ASSUME NEW f \in Feedbacks, RecordFeedbackFails(f) PROVE pc'[e] # "new" /\ subject'[e] = subject[e] /\ intent'[e] = intent[e]
  BY <1>8 DEF RecordFeedbackFails, Answer, Fails, Rollback
<1>9. ASSUME NEW d \in Reviews, LoadCandidate(d) PROVE pc'[e] # "new" /\ subject'[e] = subject[e] /\ intent'[e] = intent[e]
  BY <1>9 DEF LoadCandidate, Accept, Meet, InProgress
<1>10. ASSUME NEW d \in Reviews, RefuseReview(d) PROVE pc'[e] # "new" /\ subject'[e] = subject[e] /\ intent'[e] = intent[e]
  BY <1>10 DEF RefuseReview, Answer
<1>11. ASSUME NEW d \in Reviews, NullFeatureRaises(d) PROVE pc'[e] # "new" /\ subject'[e] = subject[e] /\ intent'[e] = intent[e]
  BY <1>11 DEF NullFeatureRaises, Answer
<1>12. ASSUME NEW d \in Reviews, InjectPrototype(d) PROVE pc'[e] # "new" /\ subject'[e] = subject[e] /\ intent'[e] = intent[e]
  BY <1>12 DEF InjectPrototype, Goto
<1>13. ASSUME NEW d \in Reviews, PersistFails(d) PROVE pc'[e] # "new" /\ subject'[e] = subject[e] /\ intent'[e] = intent[e]
  BY <1>13 DEF PersistFails, Answer, Fails
<1>14. ASSUME NEW d \in Reviews, MarkReviewed(d) PROVE pc'[e] # "new" /\ subject'[e] = subject[e] /\ intent'[e] = intent[e]
  BY <1>14 DEF MarkReviewed, Answer, Marking, Verdict
<1>15. ASSUME NEW d \in Reviews, MarkReviewedFails(d) PROVE pc'[e] # "new" /\ subject'[e] = subject[e] /\ intent'[e] = intent[e]
  BY <1>15 DEF MarkReviewedFails, Answer, Fails
<1>16. ASSUME NEW w \in Workers, Crash(w) PROVE pc'[e] # "new" /\ subject'[e] = subject[e] /\ intent'[e] = intent[e]
  BY <1>16 DEF Crash
<1>17. CASE UNCHANGED vars
  BY <1>17 DEF vars
<1> QED
  BY <1>1, <1>2, <1>3, <1>4, <1>5, <1>6, <1>7, <1>8, <1>9,
     <1>10, <1>11, <1>12, <1>13, <1>14, <1>15, <1>16, <1>17
     DEF Next, Feedback, Review

\* A candidate is never removed.
LEMMA CandidatesStay ==
    ASSUME TypeInv, [Next]_vars
    PROVE  Candidates \subseteq Candidates'
<1> USE CaseAssumption DEF TypeInv, TypeOK, Candidates, CandidateStatuses, database
<1>1. ASSUME NEW f \in Feedbacks, RecordFeedback(f) PROVE Candidates \subseteq Candidates'
  BY <1>1 DEF RecordFeedback, CommitRouting
<1>2. ASSUME NEW d \in Reviews, MarkReviewed(d) PROVE Candidates \subseteq Candidates'
  BY <1>2 DEF MarkReviewed, Verdict
<1>3. CASE UNCHANGED candidate
  BY <1>3
<1>4. \/ \E f \in Feedbacks : RecordFeedback(f)
      \/ \E d \in Reviews : MarkReviewed(d)
      \/ UNCHANGED candidate
  BY DEF Next, Feedback, Review, vars, LoadAlert, RouteFraud, RouteClean, RoutingFails,
         RoutingAuditFails, Announce, RecordFeedbackFails, LoadCandidate, RefuseReview,
         NullFeatureRaises, InjectPrototype, PersistFails, MarkReviewedFails, Crash
<1> QED
  BY <1>1, <1>2, <1>3, <1>4

-----------------------------------------------------------------------------
(* Vaults.                                                                 *)

ChosenForInjection(c) == \E d \in insertions : subject[d] = c /\ intent[d] = "inject"

\* What may lie in a vault.
Legitimate(c) == c \in Candidates /\ ChosenForInjection(c)

VaultInv ==
    /\ \A w \in Workers : \A c \in vault[w] : Legitimate(c)
    /\ \A c \in file : Legitimate(c)
    /\ \A d \in insertions : pc[d] # "new"

\* It holds at the start.
LEMMA InitVaultInv == Init => VaultInv
<1> QED
  BY DEF Init, VaultInv

\* Every step keeps it.
LEMMA StepVaultInv == TypeInv /\ VaultInv /\ [Next]_vars => VaultInv'
<1> SUFFICES ASSUME TypeInv, VaultInv, [Next]_vars PROVE VaultInv'
  OBVIOUS
<1>1. insertions \subseteq Reviews /\ vault \in [Workers -> SUBSET Feedbacks]
  BY DEF TypeInv, TypeOK
<1>2. \A d \in insertions :
         pc'[d] # "new" /\ subject'[d] = subject[d] /\ intent'[d] = intent[d]
  BY <1>1, ReviewsStay DEF VaultInv
<1>3. ASSUME insertions \subseteq insertions', NEW c, Legitimate(c) PROVE Legitimate(c)'
  BY <1>2, <1>3, CandidatesStay DEF Legitimate, ChosenForInjection
<1>4. ASSUME NEW d \in Reviews, InjectPrototype(d) \/ PersistFails(d) PROVE VaultInv'
  <2>1. /\ insertions' = insertions \cup {d}
        /\ subject[d] \in Candidates /\ worker[d] \in Workers /\ intent[d] = "inject"
    BY <1>4 DEF InjectPrototype, PersistFails, TypeInv, ReviewTyped, OnLoop
  <2>2. subject' = subject /\ intent' = intent /\ pc'[d] # "new"
    BY <1>4 DEF InjectPrototype, PersistFails, Goto, Answer, TypeInv, TypeOK, Requests
  <2>3. Legitimate(subject[d])'
    BY <2>1, <2>2, CandidatesStay DEF Legitimate, ChosenForInjection
  <2>4. vault' = [vault EXCEPT ![worker[d]] = @ \cup {subject[d]}]
    BY <1>4 DEF InjectPrototype, PersistFails
  <2>5. ASSUME NEW w \in Workers, NEW c \in vault'[w] PROVE Legitimate(c)'
    <3>1. CASE c \in vault[w]
      BY <1>3, <2>1, <3>1 DEF VaultInv
    <3>2. CASE c \notin vault[w]
      <4>1. c = subject[d]
        BY <1>1, <2>1, <2>4, <3>2
      <4> QED
        BY <2>2, <2>3, <4>1
    <3> QED
      BY <3>1, <3>2
  <2>6. file' = file \/ file' = vault'[worker[d]]
    BY <1>4 DEF InjectPrototype, PersistFails
  <2>7. \A c \in file' : Legitimate(c)'
    BY <1>3, <2>1, <2>5, <2>6 DEF VaultInv
  <2> QED
    BY <1>2, <2>1, <2>2, <2>5, <2>7 DEF VaultInv
<1>5. ASSUME NEW w \in Workers, Crash(w) PROVE VaultInv'
  BY <1>1, <1>2, <1>3, <1>5 DEF VaultInv, Crash
<1>6. CASE UNCHANGED vaults
  BY <1>2, <1>3, <1>6 DEF VaultInv, vaults
<1>7. \/ \E d \in Reviews : InjectPrototype(d) \/ PersistFails(d)
      \/ \E w \in Workers : Crash(w)
      \/ UNCHANGED vaults
  BY DEF Next, Feedback, Review, vars, LoadAlert, RouteFraud, RouteClean, RoutingFails,
         RoutingAuditFails, Announce, RecordFeedback, RecordFeedbackFails, LoadCandidate,
         RefuseReview, NullFeatureRaises, MarkReviewed, MarkReviewedFails
<1> QED
  BY <1>4, <1>5, <1>6, <1>7

\* Every prototype any worker or file ever holds is a recorded confirmed fraud
\* that a developer chose to inject: crashes and overlaps add nothing else.
THEOREM VaultsHoldConfirmedFraud == Spec => []VaultHoldsConfirmedFraud
<1>1. TypeInv /\ RoutingInv /\ VaultInv => VaultHoldsConfirmedFraud
  <2> SUFFICES ASSUME TypeInv, RoutingInv, VaultInv,
                      NEW c \in (UNION {vault[w] : w \in Workers}) \cup file
               PROVE  /\ c \in Logged /\ intent[c] = "fraud"
                      /\ ChosenForInjection(c)
    BY DEF VaultHoldsConfirmedFraud, ChosenForInjection
  <2>1. c \in Candidates /\ ChosenForInjection(c)
    <3>1. Legitimate(c)
      BY DEF VaultInv
    <3> QED
      BY <3>1 DEF Legitimate
  <2>2. c \in Feedbacks /\ FeedbackInv(c) /\ c \in table["candidates"]
    BY <2>1 DEF Candidates, RoutingInv, FeedbackInv
  <2>3. c \in Logged /\ "candidates" \in Routes(intent[c])
    BY <2>2 DEF FeedbackInv, Tables
  <2> QED
    BY <2>1, <2>3 DEF Routes
<1> QED
  BY <1>1, InitTypeInv, StepTypeInv, InitRoutingInv, StepRoutingInv, InitVaultInv, StepVaultInv,
     PTL DEF Spec

-----------------------------------------------------------------------------
(* Reviews.  An answered review is in the audit trail, and two reviews of a *)
(* candidate that both got past the status check have met.                 *)

Audited(c) == {d \in reviewLog : subject[d] = c}

AuditInv ==
    /\ \A d \in Reviews : pc[d] = "ok" <=> d \in reviewLog
    /\ \A d \in reviewLog : subject[d] \in Candidates
    /\ \A c \in Candidates :
          /\ Audited(c) = {} => candidate[c] = "PENDING_REVIEW"
          /\ Audited(c) # {} => \E d \in Audited(c) : candidate[c] = Verdict(intent[d])

\* Past the status check: at work, or answered.
Admitted(d) == pc[d] \in OnLoop \cup {"ok"}

RivalInv ==
    \A d, e \in Reviews :
        d # e /\ subject[d] = subject[e] /\ Admitted(d) /\ Admitted(e) => e \in rivals[d]

\* It holds at the start.
LEMMA InitAuditInv == Init => AuditInv
<1> QED
  BY DEF Init, AuditInv, Candidates, Requests

\* It holds at the start.
LEMMA InitRivalInv == Init => RivalInv
<1> QED
  BY DEF Init, RivalInv, Admitted, OnLoop, Requests

\* Every step keeps it.
LEMMA StepAuditInv == TypeInv /\ RoutingInv /\ AuditInv /\ [Next]_vars => AuditInv'
<1> SUFFICES ASSUME TypeInv, RoutingInv, AuditInv, [Next]_vars PROVE AuditInv'
  OBVIOUS
<1>1. reviewLog \subseteq Reviews /\ candidate \in [Feedbacks -> CandidateStatuses \cup {None}]
  BY DEF TypeInv, TypeOK
<1>2. \A d \in reviewLog : pc[d] = "ok"
  BY <1>1 DEF AuditInv
<1>3. \A d \in reviewLog : subject'[d] = subject[d] /\ intent'[d] = intent[d]
  BY <1>1, <1>2, ReviewsStay
<1>4. ASSUME reviewLog' = reviewLog, NEW c PROVE Audited(c)' = Audited(c)
  BY <1>3, <1>4 DEF Audited
<1>5. Candidates \subseteq Candidates'
  BY CandidatesStay
<1>6. ASSUME NEW f \in Feedbacks, RecordFeedback(f) PROVE AuditInv'
  <2>1. candidate[f] = None
    BY <1>6 DEF RecordFeedback, RoutingInv, FeedbackInv, Tables
  <2>2. Audited(f) = {} /\ f \notin Candidates
    BY <2>1 DEF Candidates, Audited, AuditInv
  <2>3. /\ reviewLog' = reviewLog
        /\ \A d \in Reviews : pc'[d] = pc[d]
    BY <1>6, CaseAssumption DEF RecordFeedback, Answer, TypeInv, TypeOK, Requests
  <2>4. \A c \in Candidates' : \/ c \in Candidates /\ candidate'[c] = candidate[c]
                               \/ c = f /\ candidate'[c] = "PENDING_REVIEW"
    BY <1>1, <1>6, <2>1 DEF RecordFeedback, CommitRouting, Candidates
  <2> QED
    BY <1>1, <1>3, <1>4, <1>5, <2>2, <2>3, <2>4 DEF AuditInv, Audited
<1>7. ASSUME NEW d \in Reviews, MarkReviewed(d) PROVE AuditInv'
  <2>1. subject[d] \in Candidates /\ pc[d] # "ok"
    BY <1>7 DEF MarkReviewed, Marking, TypeInv, ReviewTyped, OnLoop
  <2>2. /\ candidate' = [candidate EXCEPT ![subject[d]] = Verdict(intent[d])]
        /\ reviewLog' = reviewLog \cup {d}
        /\ UNCHANGED <<subject, intent>>
        /\ \A e \in Reviews : pc'[e] = IF e = d THEN "ok" ELSE pc[e]
    BY <1>7 DEF MarkReviewed, Answer, TypeInv, TypeOK, Requests
  <2>3. Candidates' = Candidates
    BY <1>1, <2>1, <2>2, CaseAssumption DEF Candidates, Verdict, CandidateStatuses
  <2>4. d \in Audited(subject[d])' /\ candidate'[subject[d]] = Verdict(intent[d])
    BY <1>1, <2>1, <2>2 DEF Candidates, Audited
  <2>5. \A c \in Candidates \ {subject[d]} :
           Audited(c)' = Audited(c) /\ candidate'[c] = candidate[c]
    BY <1>1, <2>2 DEF Candidates, Audited
  <2>6. \A c \in Candidates : /\ Audited(c)' = {} => candidate'[c] = "PENDING_REVIEW"
                              /\ Audited(c)' # {} =>
                                    \E e \in Audited(c)' : candidate'[c] = Verdict(intent[e])
    <3> SUFFICES ASSUME NEW c \in Candidates
                 PROVE  /\ Audited(c)' = {} => candidate'[c] = "PENDING_REVIEW"
                        /\ Audited(c)' # {} =>
                              \E e \in Audited(c)' : candidate'[c] = Verdict(intent[e])
      OBVIOUS
    <3>1. CASE c = subject[d]
      BY <1>1, <2>1, <2>2, <3>1 DEF Audited, Candidates
    <3>2. CASE c # subject[d]
      BY <2>5, <3>2 DEF AuditInv
    <3> QED
      BY <3>1, <3>2
  <2> QED
    BY <1>1, <2>1, <2>2, <2>3, <2>6 DEF AuditInv
<1>8. ASSUME UNCHANGED <<candidate, reviewLog>>,
             \A d \in Reviews : pc'[d] = "ok" <=> pc[d] = "ok"
      PROVE  AuditInv'
  <2>1. Candidates' = Candidates
    BY <1>8 DEF Candidates
  <2> QED
    BY <1>1, <1>3, <1>4, <1>8, <2>1 DEF AuditInv, Audited
<1>9. ASSUME NEW f \in Feedbacks, LoadAlert(f) PROVE AuditInv'
  BY <1>9, <1>8, CaseAssumption DEF LoadAlert, Accept, TypeInv, TypeOK, Requests, database
<1>10. ASSUME NEW f \in Feedbacks, RouteFraud(f) PROVE AuditInv'
  BY <1>10, <1>8, CaseAssumption DEF RouteFraud, Goto, TypeInv, TypeOK, Requests, database
<1>11. ASSUME NEW f \in Feedbacks, RouteClean(f) PROVE AuditInv'
  BY <1>11, <1>8, CaseAssumption DEF RouteClean, Goto, TypeInv, TypeOK, Requests, database
<1>12. ASSUME NEW f \in Feedbacks, RoutingFails(f) PROVE AuditInv'
  BY <1>12, <1>8, CaseAssumption DEF RoutingFails, Goto, TypeInv, TypeOK, Requests, database
<1>13. ASSUME NEW f \in Feedbacks, RoutingAuditFails(f) PROVE AuditInv'
  BY <1>13, <1>8, CaseAssumption DEF RoutingAuditFails, Answer, TypeInv, TypeOK, Requests, database
<1>14. ASSUME NEW f \in Feedbacks, Announce(f) PROVE AuditInv'
  BY <1>14, <1>8, CaseAssumption DEF Announce, Goto, TypeInv, TypeOK, Requests, database
<1>15. ASSUME NEW f \in Feedbacks, RecordFeedbackFails(f) PROVE AuditInv'
  BY <1>15, <1>8, CaseAssumption DEF RecordFeedbackFails, Answer, TypeInv, TypeOK, Requests, database
<1>16. ASSUME NEW d \in Reviews, LoadCandidate(d) PROVE AuditInv'
  BY <1>16, <1>8, CaseAssumption DEF LoadCandidate, Accept, TypeInv, TypeOK, Requests, database
<1>17. ASSUME NEW d \in Reviews, RefuseReview(d) PROVE AuditInv'
  BY <1>17, <1>8, CaseAssumption DEF RefuseReview, Answer, TypeInv, TypeOK, Requests, database
<1>18. ASSUME NEW d \in Reviews, NullFeatureRaises(d) PROVE AuditInv'
  BY <1>18, <1>8, CaseAssumption DEF NullFeatureRaises, Answer, TypeInv, TypeOK, Requests, database
<1>19. ASSUME NEW d \in Reviews, InjectPrototype(d) PROVE AuditInv'
  BY <1>19, <1>8, CaseAssumption DEF InjectPrototype, Goto, TypeInv, TypeOK, Requests, database
<1>20. ASSUME NEW d \in Reviews, PersistFails(d) PROVE AuditInv'
  BY <1>20, <1>8, CaseAssumption DEF PersistFails, Answer, TypeInv, TypeOK, Requests, database
<1>21. ASSUME NEW d \in Reviews, MarkReviewedFails(d) PROVE AuditInv'
  BY <1>21, <1>8, CaseAssumption DEF MarkReviewedFails, Marking, Answer, TypeInv, TypeOK, Requests, database
<1>22. ASSUME NEW w \in Workers, Crash(w) PROVE AuditInv'
  BY <1>22, <1>8, CaseAssumption DEF Crash, TypeInv, TypeOK, Requests, OnLoop, database
<1>23. CASE UNCHANGED vars
  BY <1>23, <1>8 DEF vars, request, database
<1> QED
  BY <1>6, <1>7, <1>8, <1>9, <1>10, <1>11, <1>12, <1>13, <1>14,
     <1>15, <1>16, <1>17, <1>18, <1>19, <1>20, <1>21, <1>22, <1>23
     DEF Next, Feedback, Review

\* Every step keeps it.
LEMMA StepRivalInv == TypeInv /\ AuditInv /\ RivalInv /\ [Next]_vars => RivalInv'
<1> SUFFICES ASSUME TypeInv, AuditInv, RivalInv, [Next]_vars PROVE RivalInv'
  OBVIOUS
<1> USE CaseAssumption DEF TypeInv, TypeOK, Requests, request, session, database, vaults, outside,
                           Admitted, OnLoop
<1>1. ASSUME NEW f \in Feedbacks, LoadAlert(f) PROVE RivalInv'
  BY <1>1 DEF LoadAlert, Accept, RivalInv
<1>2. ASSUME NEW f \in Feedbacks, RouteFraud(f) PROVE RivalInv'
  BY <1>2 DEF RouteFraud, Goto, RivalInv
<1>3. ASSUME NEW f \in Feedbacks, RouteClean(f) PROVE RivalInv'
  BY <1>3 DEF RouteClean, Goto, RivalInv
<1>4. ASSUME NEW f \in Feedbacks, RoutingFails(f) PROVE RivalInv'
  BY <1>4 DEF RoutingFails, Goto, Fails, Rollback, RivalInv
<1>5. ASSUME NEW f \in Feedbacks, RoutingAuditFails(f) PROVE RivalInv'
  BY <1>5 DEF RoutingAuditFails, Answer, Fails, Rollback, RivalInv
<1>6. ASSUME NEW f \in Feedbacks, Announce(f) PROVE RivalInv'
  BY <1>6 DEF Announce, Goto, Fails, RivalInv
<1>7. ASSUME NEW f \in Feedbacks, RecordFeedback(f) PROVE RivalInv'
  BY <1>7 DEF RecordFeedback, Answer, CommitRouting, RivalInv
<1>8. ASSUME NEW f \in Feedbacks, RecordFeedbackFails(f) PROVE RivalInv'
  BY <1>8 DEF RecordFeedbackFails, Answer, Fails, Rollback, RivalInv
<1>9. ASSUME NEW d \in Reviews, LoadCandidate(d) PROVE RivalInv'
  <2> SUFFICES ASSUME NEW x \in Reviews, NEW y \in Reviews, x # y,
                      subject'[x] = subject'[y], Admitted(x)', Admitted(y)'
               PROVE  y \in rivals'[x]
    BY DEF RivalInv
  <2>1. PICK c \in Candidates : /\ candidate[c] = "PENDING_REVIEW"
                                /\ subject' = [subject EXCEPT ![d] = c]
                                /\ Meet(d, c)
    BY <1>9 DEF LoadCandidate, Accept
  <2>2. pc[d] = "new" /\ pc' = [pc EXCEPT ![d] = "loaded"]
    BY <1>9 DEF LoadCandidate, Accept
  <2>3. ASSUME NEW e \in Reviews, e # d, subject[e] = c, Admitted(e)
        PROVE  e \in InProgress(c)
    <3>1. CASE pc[e] = "ok"
      <4>1. \E r \in Audited(c) : candidate[c] = Verdict(intent[r])
        BY <2>3, <3>1 DEF AuditInv, Audited
      <4> QED
        BY <2>1, <4>1 DEF Verdict
    <3>2. CASE pc[e] \in OnLoop
      BY <2>3, <3>2 DEF InProgress
    <3> QED
      BY <2>3, <3>1, <3>2
  <2>4. CASE x = d
    BY <2>1, <2>2, <2>3, <2>4 DEF Meet
  <2>5. CASE y = d
    BY <2>1, <2>2, <2>3, <2>5 DEF Meet
  <2>6. CASE x # d /\ y # d
    BY <2>1, <2>2, <2>6 DEF Meet, RivalInv
  <2> QED
    BY <2>4, <2>5, <2>6
<1>10. ASSUME NEW d \in Reviews, RefuseReview(d) PROVE RivalInv'
  BY <1>10 DEF RefuseReview, Answer, RivalInv
<1>11. ASSUME NEW d \in Reviews, NullFeatureRaises(d) PROVE RivalInv'
  BY <1>11 DEF NullFeatureRaises, Answer, RivalInv
<1>12. ASSUME NEW d \in Reviews, InjectPrototype(d) PROVE RivalInv'
  BY <1>12 DEF InjectPrototype, Goto, RivalInv
<1>13. ASSUME NEW d \in Reviews, PersistFails(d) PROVE RivalInv'
  BY <1>13 DEF PersistFails, Answer, Fails, RivalInv
<1>14. ASSUME NEW d \in Reviews, MarkReviewed(d) PROVE RivalInv'
  BY <1>14 DEF MarkReviewed, Answer, Marking, Verdict, RivalInv
<1>15. ASSUME NEW d \in Reviews, MarkReviewedFails(d) PROVE RivalInv'
  BY <1>15 DEF MarkReviewedFails, Answer, Fails, RivalInv
<1>16. ASSUME NEW w \in Workers, Crash(w) PROVE RivalInv'
  BY <1>16 DEF Crash, Rollback, RivalInv
<1>17. CASE UNCHANGED vars
  BY <1>17 DEF vars, RivalInv
<1> QED
  BY <1>1, <1>2, <1>3, <1>4, <1>5, <1>6, <1>7, <1>8, <1>9,
     <1>10, <1>11, <1>12, <1>13, <1>14, <1>15, <1>16, <1>17
     DEF Next, Feedback, Review

\* A candidate leaves the queue with an audit row or not at all, and stands
\* where an audited review has put it.
THEOREM AuditTrailExplainsStatus == Spec => []AuditExplainsStatus
<1>1. AuditInv => AuditExplainsStatus
  BY DEF AuditInv, Audited, AuditExplainsStatus
<1> QED
  BY <1>1, InitTypeInv, StepTypeInv, InitRoutingInv, StepRoutingInv, InitAuditInv, StepAuditInv,
     PTL DEF Spec

\* Two answered reviews of a candidate, one of which injected it, have
\* overlapped: reviews that follow each other never decide twice.
THEOREM ReviewsDecideOnce == Spec => []SerialReviewsDecideOnce
<1>1. TypeOK /\ RivalInv => SerialReviewsDecideOnce
  BY DEF TypeOK, RivalInv, Admitted, SerialReviewsDecideOnce
<1>2. TypeInv => TypeOK
  BY DEF TypeInv
<1> QED
  BY <1>1, <1>2, InitTypeInv, StepTypeInv, InitRoutingInv, StepRoutingInv, InitAuditInv,
     StepAuditInv, InitRivalInv, StepRivalInv, PTL DEF Spec

-----------------------------------------------------------------------------
(* The status of an alert, read off the log.                               *)

\* Where the feedbacks on an alert stand in the log.
Positions(a) == {i \in 1 .. Len(log) : subject[log[i]] = a}

\* The feedback at position i is the last on the alert and explains its status.
Explains(i, a) ==
    /\ \A j \in Positions(a) : j <= i
    /\ \/ status[a] = StatusOf(intent[log[i]])
       \/ seen[log[i]] = StatusOf(intent[log[i]])

AlertInv(a) ==
    /\ Positions(a) = {} => status[a] = "OPEN"
    /\ Positions(a) # {} => \E i \in Positions(a) : Explains(i, a)

StatusInv == \A a \in Alerts : AlertInv(a)

\* It holds at the start.
LEMMA InitStatusInv == Init => StatusInv
<1> SUFFICES ASSUME Init, NEW a \in Alerts PROVE AlertInv(a)
  BY DEF StatusInv
<1>1. Positions(a) = {}
  BY DEF Init, Positions
<1> QED
  BY <1>1 DEF Init, AlertInv

\* A step that records nothing leaves logged feedbacks as they are.
LEMMA LoggedStay ==
    ASSUME TypeInv, RoutingInv, log' = log, status' = status,
           \/ UNCHANGED <<subject, intent, seen>>
           \/ \E q \in Requests :
                 /\ pc[q] = "new"
                 /\ \A p \in Requests \ {q} : subject'[p] = subject[p] /\ intent'[p] = intent[p]
                 /\ \A p \in Feedbacks \ {q} : seen'[p] = seen[p],
           StatusInv
    PROVE  StatusInv'
<1> SUFFICES ASSUME NEW a \in Alerts PROVE AlertInv(a)'
  BY DEF StatusInv
<1>1. AlertInv(a)
  BY DEF StatusInv
<1>2. log \in Seq(Feedbacks)
  BY DEF TypeInv, TypeOK
<1>3. ASSUME NEW i \in 1 .. Len(log)
      PROVE  /\ subject'[log[i]] = subject[log[i]]
             /\ intent'[log[i]] = intent[log[i]]
             /\ seen'[log[i]] = seen[log[i]]
  <2>1. log[i] \in Feedbacks /\ log[i] \in Logged
    BY <1>2 DEF Logged
  <2>2. pc[log[i]] = "ok" /\ log[i] \in Requests
    BY <2>1 DEF RoutingInv, FeedbackInv, Requests
  <2> QED
    BY <2>1, <2>2
<1>4. Positions(a)' = Positions(a)
  BY <1>3 DEF Positions
<1>5. \A i \in Positions(a) : Explains(i, a) => Explains(i, a)'
  BY <1>3, <1>4 DEF Explains, Positions
<1> QED
  BY <1>1, <1>4, <1>5 DEF AlertInv

\* Every step keeps it.
LEMMA StepStatusInv == TypeInv /\ RoutingInv /\ StatusInv /\ [Next]_vars => StatusInv'
<1> SUFFICES ASSUME TypeInv, RoutingInv, StatusInv, [Next]_vars PROVE StatusInv'
  OBVIOUS
<1>1. ASSUME NEW f \in Feedbacks, RecordFeedback(f) PROVE StatusInv'
  <2> SUFFICES ASSUME NEW a \in Alerts PROVE AlertInv(a)'
    BY DEF StatusInv
  <2>1. /\ log \in Seq(Feedbacks) /\ status \in [Alerts -> AlertStatuses]
        /\ subject[f] \in Alerts
    BY <1>1 DEF RecordFeedback, TypeInv, TypeOK, FeedbackTyped, OnLoop
  <2>2. /\ log' = Append(log, f)
        /\ status' = IF seen[f] = StatusOf(intent[f]) THEN status
                     ELSE [status EXCEPT ![subject[f]] = StatusOf(intent[f])]
        /\ UNCHANGED <<subject, intent, seen>>
    BY <1>1 DEF RecordFeedback
  <2>3. /\ Len(log') = Len(log) + 1 /\ Len(log) \in Nat
        /\ log'[Len(log) + 1] = f
        /\ \A i \in 1 .. Len(log) : log'[i] = log[i]
    BY <2>1, <2>2
  <2>4. CASE a = subject[f]
    <3>1. PICK n \in Nat : n = Len(log) + 1
      BY <2>3
    <3>2. n \in Positions(a)' /\ \A j \in Positions(a)' : j <= n
      BY <2>2, <2>3, <2>4, <3>1 DEF Positions
    <3>3. status'[a] = StatusOf(intent[f]) \/ seen[f] = StatusOf(intent[f])
      BY <2>1, <2>2, <2>4
    <3>4. Explains(n, a)'
      BY <2>2, <2>3, <3>1, <3>2, <3>3 DEF Explains
    <3> QED
      BY <3>2, <3>4 DEF AlertInv
  <2>5. CASE a # subject[f]
    <3>1. Positions(a)' = Positions(a)
      BY <2>2, <2>3, <2>5 DEF Positions
    <3>2. status'[a] = status[a]
      BY <2>1, <2>2, <2>5
    <3>3. \A i \in Positions(a) : Explains(i, a) => Explains(i, a)'
      BY <2>2, <2>3, <3>1, <3>2 DEF Explains, Positions
    <3> QED
      BY <3>1, <3>2, <3>3 DEF AlertInv, StatusInv
  <2> QED
    BY <2>4, <2>5
<1>2. ASSUME NEW f \in Feedbacks, LoadAlert(f) PROVE StatusInv'
  <2>1. /\ pc[f] = "new" /\ f \in Requests
        /\ \A p \in Requests \ {f} : subject'[p] = subject[p] /\ intent'[p] = intent[p]
        /\ \A p \in Feedbacks \ {f} : seen'[p] = seen[p]
        /\ log' = log /\ status' = status
    BY <1>2 DEF LoadAlert, Accept, TypeInv, TypeOK, Requests, database
  <2> QED
    BY <2>1, LoggedStay
<1>3. ASSUME NEW d \in Reviews, LoadCandidate(d) PROVE StatusInv'
  <2>1. /\ pc[d] = "new" /\ d \in Requests
        /\ \A p \in Requests \ {d} : subject'[p] = subject[p] /\ intent'[p] = intent[p]
        /\ \A p \in Feedbacks \ {d} : seen'[p] = seen[p]
        /\ log' = log /\ status' = status
    BY <1>3 DEF LoadCandidate, Accept, TypeInv, TypeOK, Requests, database
  <2> QED
    BY <2>1, LoggedStay
<1>4. CASE UNCHANGED <<log, status, subject, intent, seen>>
  BY <1>4, LoggedStay
<1>5. ASSUME NEW f \in Feedbacks, Feedback(f)
      PROVE  \/ RecordFeedback(f) \/ LoadAlert(f)
             \/ UNCHANGED <<log, status, subject, intent, seen>>
  BY <1>5 DEF Feedback, RouteFraud, RouteClean, RoutingFails, RoutingAuditFails, Announce,
              RecordFeedbackFails, database
<1>6. ASSUME NEW d \in Reviews, Review(d)
      PROVE  LoadCandidate(d) \/ UNCHANGED <<log, status, subject, intent, seen>>
  BY <1>6 DEF Review, RefuseReview, NullFeatureRaises, InjectPrototype, PersistFails,
              MarkReviewed, MarkReviewedFails, database
<1>7. ASSUME NEW w \in Workers, Crash(w)
      PROVE  UNCHANGED <<log, status, subject, intent, seen>>
  BY <1>7 DEF Crash, database
<1>8. CASE UNCHANGED vars
  BY <1>4, <1>8 DEF vars, request, database
<1> QED
  BY <1>1, <1>2, <1>3, <1>4, <1>5, <1>6, <1>7, <1>8 DEF Next

\* The last feedback in the log decides an alert's status, or had loaded the
\* status it asked for, whatever overlaps, fails or crashes (feedback.py).
THEOREM StatusesFollowFeedback == Spec => []StatusFollowsFeedback
<1>1. StatusInv => StatusFollowsFeedback
  BY DEF StatusInv, AlertInv, Explains, Positions, StatusFollowsFeedback
<1> QED
  BY <1>1, InitTypeInv, StepTypeInv, InitRoutingInv, StepRoutingInv, InitStatusInv,
     StepStatusInv, PTL DEF Spec
=============================================================================
