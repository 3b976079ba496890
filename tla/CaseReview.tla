----------------------------- MODULE CaseReview -----------------------------
(***************************************************************************)
(* What happens to an alert once people look at it.  An investigator sends *)
(* a verdict (POST /feedback, app/api/v1/feedback.py), which is routed to  *)
(* the curated data set and, for a fraud, to the developer queue; there a  *)
(* developer injects the candidate into Scorer C's vault or rejects it     *)
(* (app/api/v1/developer_queue.py).                                        *)
(*                                                                         *)
(* The handlers contain no await: a worker runs one of them at a time, and *)
(* those of different workers interleave between SQL statements.  A vault  *)
(* is a set here; PrototypeVault models its two arrays and two files.      *)
(***************************************************************************)
EXTENDS Naturals, Sequences, FiniteSets

CONSTANTS
    Alerts,         \* alerts a scored transaction has raised
    FingerprintOf,  \* [Alerts -> Fingerprints]: centroid fingerprint of its features
    Fingerprints,
    Sparse,         \* alerts with a null among their features
    Feedbacks,      \* POST /feedback requests; a repetition is a request of its own
    Reviews,        \* POST .../inject and .../reject requests
    Workers,        \* uvicorn worker processes
    None,           \* stands for a value that is not there yet
    MaxFaults,      \* bound on failures of the database, disk and outside services
    MaxCrashes      \* bound on worker crashes

VARIABLES
    pc,          \* pc[q]: the step of the handler of q
    worker,      \* worker[q]: the process that is running the handler of q
    subject,     \* subject[q]: a feedback's alert, a review's candidate
    intent,      \* intent[q]: a feedback's verdict, a review's decision
    seen,        \* seen[f]: the alert status f loaded
    tx,          \* tx[f]: "open" or "aborted", the transaction of f
    staged,      \* staged[f]: the tables f has inserted into and not committed
    status,      \* alerts.status
    log,         \* feedback_log and its FEEDBACK audit rows, in commit order
    table,       \* table[t]: the feedbacks that have a row in t
    candidate,   \* candidate[f]: the status of the candidate that f created
    reviewLog,   \* reviews that have their audit row
    vault,       \* vault[w]: the candidates in the memory of w
    file,        \* the candidates in the vault's files
    insertions,  \* reviews that put a prototype into some vault (history)
    rivals,      \* rivals[d]: reviews in progress on the candidate of d (history)
    sealed,      \* feedbacks whose evidence was sealed
    notified,    \* feedbacks the red team heard of
    faults,      \* failures so far
    crashes      \* worker crashes so far

request == <<pc, worker, subject, intent, seen>>
session == <<tx, staged>>
database == <<status, log, table, candidate, reviewLog>>
vaults == <<vault, file, insertions>>
outside == <<sealed, notified>>
vars == <<request, session, database, vaults, rivals, outside, faults, crashes>>

Requests == Feedbacks \cup Reviews

-----------------------------------------------------------------------------
Verdicts == {"fraud", "clean"}

Decisions == {"inject", "reject"}

StatusOf(verdict) == IF verdict = "fraud" THEN "CONFIRMED_FRAUD" ELSE "FALSE_POSITIVE"

AlertStatuses == {"OPEN", "CONFIRMED_FRAUD", "FALSE_POSITIVE"}

CandidateStatuses == {"PENDING_REVIEW", "INJECTED", "REJECTED"}

ASSUME CaseAssumption ==
    /\ FingerprintOf \in [Alerts -> Fingerprints]
    /\ Sparse \subseteq Alerts
    /\ Feedbacks \cap Reviews = {}
    /\ None \notin Alerts \cup Feedbacks \cup Workers \cup CandidateStatuses
    /\ MaxFaults \in Nat
    /\ MaxCrashes \in Nat

\* What a decision makes of a candidate.
Verdict(decision) == IF decision = "inject" THEN "INJECTED" ELSE "REJECTED"

Tables == {"curated", "candidates", "routing", "registry"}

Candidates == {f \in Feedbacks : candidate[f] # None}

OnLoop == {"loaded", "routed", "announced", "injected"}

Finished == {"ok", "refused", "failed", "lost"}

Steps == {"new"} \cup OnLoop \cup Finished

LoopFree(w) == \A q \in Requests : worker[q] # w

Goto(q, step) ==
    /\ pc' = [pc EXCEPT ![q] = step]
    /\ UNCHANGED worker

\* The handler is over, and its worker is free.
Answer(q, result) ==
    /\ pc' = [pc EXCEPT ![q] = result]
    /\ worker' = [worker EXCEPT ![q] = None]

\* A request reaches a worker that is free to run its handler.
Accept(q, thing, purpose) ==
    /\ pc[q] = "new"
    /\ pc' = [pc EXCEPT ![q] = "loaded"]
    /\ \E w \in Workers : LoopFree(w) /\ worker' = [worker EXCEPT ![q] = w]
    /\ subject' = [subject EXCEPT ![q] = thing]
    /\ intent' = [intent EXCEPT ![q] = purpose]

Fails == faults < MaxFaults /\ faults' = faults + 1

Rollback(Q) ==
    /\ tx' = [f \in Feedbacks |-> IF f \in Q THEN "aborted" ELSE tx[f]]
    /\ staged' = [f \in Feedbacks |-> IF f \in Q THEN {} ELSE staged[f]]
-----------------------------------------------------------------------------
(* submit_feedback.                                                        *)

LoadAlert(f) ==
    /\ \E a \in Alerts, v \in Verdicts :
          /\ Accept(f, a, v)
          /\ seen' = [seen EXCEPT ![f] = status[a]]
    /\ UNCHANGED <<session, database, vaults, rivals, outside, faults, crashes>>

\* route_confirmed_fraud: two inserts and a flushed audit row.
RouteFraud(f) ==
    /\ pc[f] = "loaded"
    /\ intent[f] = "fraud"
    /\ staged' = [staged EXCEPT ![f] = {"candidates", "curated", "routing"}]
    /\ Goto(f, "routed")
    /\ UNCHANGED <<subject, intent, seen, tx, database, vaults, rivals, outside,
                   faults, crashes>>

\* An uncommitted row of the registry makes the next insert of its key wait.
RegistryRowFree(f) ==
    \A g \in Feedbacks \ {f} :
        "registry" \in staged[g] => FingerprintOf[subject[g]] # FingerprintOf[subject[f]]

\* Variant of RouteClean: a false positive, too, becomes a candidate.
RouteCleanAsCandidate(f) ==
    /\ pc[f] = "loaded"
    /\ intent[f] = "clean"
    /\ staged' = [staged EXCEPT ![f] = {"candidates", "curated", "registry", "routing"}]
    /\ Goto(f, "routed")
    /\ UNCHANGED <<subject, intent, seen, tx, database, vaults, rivals, outside,
                   faults, crashes>>

\* route_false_positive: an insert, an upsert of the fingerprint, an audit row.
RouteClean(f) ==
    /\ pc[f] = "loaded"
    /\ intent[f] = "clean"
    /\ RegistryRowFree(f)
    /\ staged' = [staged EXCEPT ![f] = {"curated", "registry", "routing"}]
    /\ Goto(f, "routed")
    /\ UNCHANGED <<subject, intent, seen, tx, database, vaults, rivals, outside,
                   faults, crashes>>

\* Variant of RoutingFails: the failed statements run in a savepoint.
RoutingFailsInSavepoint(f) ==
    /\ pc[f] = "loaded"
    /\ Fails
    /\ Goto(f, "routed")
    /\ UNCHANGED <<subject, intent, seen, session, database, vaults, rivals, outside,
                   crashes>>

\* An insert fails.  The handler logs it and goes on, in a transaction that
\* PostgreSQL has already given up.
RoutingFails(f) ==
    /\ pc[f] = "loaded"
    /\ Fails
    /\ Rollback({f})
    /\ Goto(f, "routed")
    /\ UNCHANGED <<subject, intent, seen, database, vaults, rivals, outside, crashes>>

\* The routing audit row cannot be written (AuditWriteError), or the alert's
\* score row cannot be read: the request ends.
RoutingAuditFails(f) ==
    /\ pc[f] = "loaded"
    /\ Fails
    /\ Rollback({f})
    /\ Answer(f, "failed")
    /\ UNCHANGED <<subject, intent, seen, database, vaults, rivals, outside, crashes>>

\* seal_evidence, and for a fraud notify_confirmed_fraud, both before anything
\* is committed; a failure of either is only logged.
Announce(f) ==
    LET told == IF intent[f] = "fraud" THEN notified \cup {f} ELSE notified
    IN  /\ pc[f] = "routed"
        /\ \/ sealed' = sealed \cup {f} /\ notified' = told /\ UNCHANGED faults
           \/ UNCHANGED sealed /\ notified' = told /\ Fails
           \/ sealed' = sealed \cup {f} /\ UNCHANGED notified /\ intent[f] = "fraud" /\ Fails
        /\ Goto(f, "announced")
        /\ UNCHANGED <<subject, intent, seen, session, database, vaults, rivals, crashes>>

\* The rows f has staged become durable.
CommitRouting(f) ==
    /\ table' = [t \in Tables |-> IF t \in staged[f] THEN table[t] \cup {f} ELSE table[t]]
    /\ candidate' = IF "candidates" \in staged[f]
                    THEN [candidate EXCEPT ![f] = "PENDING_REVIEW"]
                    ELSE candidate
    /\ staged' = [staged EXCEPT ![f] = {}]

\* Variant of RecordFeedback: only an alert that f saw open gets its status.
RecordFeedbackOpenOnly(f) ==
    /\ pc[f] = "announced"
    /\ tx[f] = "open"
    /\ status' = IF seen[f] = "OPEN"
                 THEN [status EXCEPT ![subject[f]] = StatusOf(intent[f])]
                 ELSE status
    /\ log' = Append(log, f)
    /\ CommitRouting(f)
    /\ Answer(f, "ok")
    /\ UNCHANGED <<subject, intent, seen, tx, reviewLog, vaults, rivals, outside,
                   faults, crashes>>

\* Variant of RecordFeedback: the candidate's status is left to the server
\* default of migration 006, which stores its quotes.
RecordFeedbackQuoted(f) ==
    /\ pc[f] = "announced"
    /\ tx[f] = "open"
    /\ status' = IF seen[f] = StatusOf(intent[f])
                 THEN status
                 ELSE [status EXCEPT ![subject[f]] = StatusOf(intent[f])]
    /\ log' = Append(log, f)
    /\ table' = [t \in Tables |-> IF t \in staged[f] THEN table[t] \cup {f} ELSE table[t]]
    /\ candidate' = IF "candidates" \in staged[f]
                    THEN [candidate EXCEPT ![f] = "'PENDING_REVIEW'"]
                    ELSE candidate
    /\ staged' = [staged EXCEPT ![f] = {}]
    /\ Answer(f, "ok")
    /\ UNCHANGED <<subject, intent, seen, tx, reviewLog, vaults, rivals, outside,
                   faults, crashes>>

\* alert.status, FeedbackLog and the FEEDBACK audit row, committed with the
\* routed rows by log_feedback_event.  The ORM emits the UPDATE only if the
\* verdict differs from the status that was loaded.
RecordFeedback(f) ==
    /\ pc[f] = "announced"
    /\ tx[f] = "open"
    /\ status' = IF seen[f] = StatusOf(intent[f])
                 THEN status
                 ELSE [status EXCEPT ![subject[f]] = StatusOf(intent[f])]
    /\ log' = Append(log, f)
    /\ CommitRouting(f)
    /\ Answer(f, "ok")
    /\ UNCHANGED <<subject, intent, seen, tx, reviewLog, vaults, rivals, outside,
                   faults, crashes>>

RecordFeedbackFails(f) ==
    /\ pc[f] = "announced"
    /\ IF tx[f] = "aborted" THEN UNCHANGED faults ELSE Fails
    /\ Rollback({f})
    /\ Answer(f, "failed")
    /\ UNCHANGED <<subject, intent, seen, database, vaults, rivals, outside, crashes>>
-----------------------------------------------------------------------------
(* inject_prototype_candidate and reject_prototype_candidate.              *)

InProgress(c) == {d \in Reviews : pc[d] \in OnLoop /\ subject[d] = c}

Meet(d, c) ==
    rivals' = [e \in Reviews |-> IF e = d THEN InProgress(c)
                                ELSE IF e \in InProgress(c) THEN rivals[e] \cup {d}
                                ELSE rivals[e]]

\* Variant of LoadCandidate: the status is not looked at.
LoadCandidateUnchecked(d) ==
    /\ \E c \in Candidates, k \in Decisions : Accept(d, c, k) /\ Meet(d, c)
    /\ UNCHANGED <<seen, session, database, vaults, outside, faults, crashes>>

\* Only a candidate that is pending at this moment goes any further.
LoadCandidate(d) ==
    /\ \E c \in Candidates, k \in Decisions :
          /\ candidate[c] = "PENDING_REVIEW"
          /\ Accept(d, c, k)
          /\ Meet(d, c)
    /\ UNCHANGED <<seen, session, database, vaults, outside, faults, crashes>>

RefuseReview(d) ==
    /\ pc[d] = "new"
    /\ \E w \in Workers : LoopFree(w)
    /\ \E c \in Candidates : candidate[c] # "PENDING_REVIEW"
    /\ Answer(d, "refused")
    /\ UNCHANGED <<subject, intent, seen, session, database, vaults, rivals, outside, faults,
                   crashes>>

\* float() of a null feature raises before the vault is reached.
NullFeatureRaises(d) ==
    /\ pc[d] = "loaded"
    /\ intent[d] = "inject"
    /\ subject[subject[d]] \in Sparse
    /\ Answer(d, "failed")
    /\ UNCHANGED <<subject, intent, seen, session, database, vaults, rivals, outside,
                   faults, crashes>>

\* The vault of this worker, and its files, before the database hears of it.
InjectPrototype(d) ==
    /\ pc[d] = "loaded"
    /\ intent[d] = "inject"
    /\ subject[subject[d]] \notin Sparse
    /\ vault' = [vault EXCEPT ![worker[d]] = @ \cup {subject[d]}]
    /\ insertions' = insertions \cup {d}
    /\ file' = vault'[worker[d]]
    /\ Goto(d, "injected")
    /\ UNCHANGED <<subject, intent, seen, session, database, rivals, outside, faults,
                   crashes>>

\* The files cannot be written: the request is refused, the prototype stays
\* in the memory of this worker.
PersistFails(d) ==
    /\ pc[d] = "loaded"
    /\ intent[d] = "inject"
    /\ subject[subject[d]] \notin Sparse
    /\ Fails
    /\ vault' = [vault EXCEPT ![worker[d]] = @ \cup {subject[d]}]
    /\ insertions' = insertions \cup {d}
    /\ Answer(d, "refused")
    /\ UNCHANGED <<subject, intent, seen, session, database, file, rivals, outside,
                   crashes>>

\* A rejection, or an injection the vault has accepted, is about to be marked.
Marking(d) ==
    \/ pc[d] = "loaded" /\ intent[d] = "reject"
    \/ pc[d] = "injected"

\* Variant of MarkReviewed: the audit row's failure is not noticed.
MarkReviewedUnaudited(d) ==
    /\ Marking(d)
    /\ candidate' = [candidate EXCEPT ![subject[d]] = Verdict(intent[d])]
    /\ reviewLog' \in {reviewLog, reviewLog \cup {d}}
    /\ Answer(d, "ok")
    /\ UNCHANGED <<subject, intent, seen, session, status, log, table, vaults, rivals,
                   outside, faults, crashes>>

\* The UPDATE names the candidate by id and not by status; the audit row is
\* committed with it.
MarkReviewed(d) ==
    /\ Marking(d)
    /\ candidate' = [candidate EXCEPT ![subject[d]] = Verdict(intent[d])]
    /\ reviewLog' = reviewLog \cup {d}
    /\ Answer(d, "ok")
    /\ UNCHANGED <<subject, intent, seen, session, status, log, table, vaults, rivals,
                   outside, faults, crashes>>

\* The UPDATE fails, or the audit row's flush: _write_inject_audit swallows
\* the latter, and the session then refuses to commit.
MarkReviewedFails(d) ==
    /\ Marking(d)
    /\ Fails
    /\ Answer(d, "failed")
    /\ UNCHANGED <<subject, intent, seen, session, database, vaults, rivals, outside,
                   crashes>>
-----------------------------------------------------------------------------
\* A worker dies; its successor loads the files.
Crash(w) ==
    LET victims == {q \in Requests : worker[q] = w}
    IN  /\ crashes < MaxCrashes
        /\ crashes' = crashes + 1
        /\ pc' = [q \in Requests |-> IF q \in victims THEN "lost" ELSE pc[q]]
        /\ worker' = [q \in Requests |-> IF q \in victims THEN None ELSE worker[q]]
        /\ Rollback(victims)
        /\ vault' = [vault EXCEPT ![w] = file]
        /\ UNCHANGED <<subject, intent, seen, database, file, insertions, rivals, outside,
                       faults>>

Init ==
    /\ pc = [q \in Requests |-> "new"]
    /\ worker = [q \in Requests |-> None]
    /\ subject = [q \in Requests |-> None]
    /\ intent = [q \in Requests |-> None]
    /\ seen = [f \in Feedbacks |-> "OPEN"]
    /\ tx = [f \in Feedbacks |-> "open"]
    /\ staged = [f \in Feedbacks |-> {}]
    /\ status = [a \in Alerts |-> "OPEN"]
    /\ log = <<>>
    /\ table = [t \in Tables |-> {}]
    /\ candidate = [f \in Feedbacks |-> None]
    /\ reviewLog = {}
    /\ vault = [w \in Workers |-> {}]
    /\ file = {}
    /\ insertions = {}
    /\ rivals = [d \in Reviews |-> {}]
    /\ sealed = {}
    /\ notified = {}
    /\ faults = 0
    /\ crashes = 0

Feedback(f) ==
    \/ LoadAlert(f) \/ RouteFraud(f) \/ RouteClean(f)
    \/ RoutingFails(f) \/ RoutingAuditFails(f) \/ Announce(f)
    \/ RecordFeedback(f) \/ RecordFeedbackFails(f)

Review(d) ==
    \/ LoadCandidate(d) \/ RefuseReview(d) \/ NullFeatureRaises(d) \/ InjectPrototype(d) \/ PersistFails(d)
    \/ MarkReviewed(d) \/ MarkReviewedFails(d)

Next ==
    \/ \E f \in Feedbacks : Feedback(f)
    \/ \E d \in Reviews : Review(d)
    \/ \E w \in Workers : Crash(w)

Spec == Init /\ [][Next]_vars
-----------------------------------------------------------------------------
(* Properties.                                                             *)

Logged == {log[i] : i \in 1 .. Len(log)}

TypeOK ==
    /\ pc \in [Requests -> Steps]
    /\ worker \in [Requests -> Workers \cup {None}]
    /\ \A f \in Feedbacks :
          subject[f] \in Alerts \cup {None} /\ intent[f] \in Verdicts \cup {None}
    /\ \A d \in Reviews :
          subject[d] \in Feedbacks \cup {None} /\ intent[d] \in Decisions \cup {None}
    /\ seen \in [Feedbacks -> AlertStatuses]
    /\ tx \in [Feedbacks -> {"open", "aborted"}]
    /\ staged \in [Feedbacks -> SUBSET Tables]
    /\ status \in [Alerts -> AlertStatuses]
    /\ log \in Seq(Feedbacks)
    /\ table \in [Tables -> SUBSET Feedbacks]
    /\ candidate \in [Feedbacks -> CandidateStatuses \cup {None}]
    /\ reviewLog \subseteq Reviews
    /\ vault \in [Workers -> SUBSET Feedbacks]
    /\ file \subseteq Feedbacks
    /\ insertions \subseteq Reviews
    /\ rivals \in [Reviews -> SUBSET Reviews]
    /\ sealed \subseteq Feedbacks /\ notified \subseteq Feedbacks
    /\ faults \in 0 .. MaxFaults
    /\ crashes \in 0 .. MaxCrashes

\* A verdict is recorded with everything it was routed to, or not at all:
\* although submit_feedback swallows a routing error and goes on, the failed
\* transaction takes the verdict with it ("feedback cannot be silently
\* dropped", feedback_router.py).
RoutedTogether ==
    LET Of(v) == {f \in Logged : intent[f] = v}
    IN  /\ table["routing"] = Logged /\ table["curated"] = Logged
        /\ table["candidates"] = Of("fraud") /\ Candidates = Of("fraud")
        /\ table["registry"] = Of("clean")

\* The last recorded feedback of an alert decides its status, unless that
\* feedback had loaded a status equal to its verdict: the UPDATE it then does
\* not send is missing if another verdict was recorded in between.
StatusFollowsFeedback ==
    \A a \in Alerts :
        LET mine == {i \in 1 .. Len(log) : subject[log[i]] = a}
        IN  IF mine = {}
            THEN status[a] = "OPEN"
            ELSE \E i \in mine :
                    /\ \A j \in mine : j <= i
                    /\ \/ status[a] = StatusOf(intent[log[i]])
                       \/ seen[log[i]] = StatusOf(intent[log[i]])

\* Whatever crashes and overlaps, the prototypes of a worker and of the files
\* are candidates of recorded confirmed-fraud verdicts that a developer chose
\* to inject: nothing benign and nothing unreviewed is ever put among the frauds.
VaultHoldsConfirmedFraud ==
    \A c \in (UNION {vault[w] : w \in Workers}) \cup file :
        /\ c \in Logged /\ intent[c] = "fraud"
        /\ \E d \in insertions : subject[d] = c /\ intent[d] = "inject"

\* A candidate has left the queue exactly if a committed audit row says so,
\* and it stands where one of its audited reviews has put it.
AuditExplainsStatus ==
    \A c \in Candidates :
        LET audited == {d \in reviewLog : subject[d] = c}
        IN  IF audited = {}
            THEN candidate[c] = "PENDING_REVIEW"
            ELSE \E d \in audited : candidate[c] = Verdict(intent[d])

\* A candidate is injected a second time, or after its rejection, only if the
\* two reviews overlapped or the injection was never marked.
SerialReviewsDecideOnce ==
    \A d \in insertions : \A e \in Reviews \ {d} :
        subject[e] = subject[d] /\ pc[d] = "ok" /\ pc[e] = "ok" => e \in rivals[d]
-----------------------------------------------------------------------------
(* What the repository says of these endpoints and they do not do.         *)

\* Only a pending candidate is injected ("Non-PENDING_REVIEW candidates cannot
\* be re-injected", tests/test_committee/test_developer_queue.py).
OnlyPendingInjected ==
    [][\A d \in insertions' \ insertions : candidate[subject[d]] = "PENDING_REVIEW"]_vars
=============================================================================
