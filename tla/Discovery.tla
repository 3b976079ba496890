------------------------------ MODULE Discovery ------------------------------
(***************************************************************************)
(* The discovery pipeline: payments that passed and look unlike any other  *)
(* are handed by POST /score to a thread (app/api/v1/score.py,             *)
(* app/detection/novelty/discovery_ensemble.py), which counts their        *)
(* pattern, drops what an investigator has called benign, queues the rest  *)
(* for a developer and tells the red team of what comes too often          *)
(* (discovery_router.py); the developer reviews (app/api/v1/novelty.py).   *)
(*                                                                         *)
(* A payment is [features, score, anomaly]; features are [pattern, exact], *)
(* where exact features have at most two decimals; anomaly is what the     *)
(* isolation forest says, None if it fails.  Scores are in units of        *)
(* 1/10000, as the handler rounds them.                                    *)
(***************************************************************************)
EXTENDS Integers

CONSTANTS
    Threads,      \* threads of the handler's executor
    Payments,     \* payments that pass
    Patterns,     \* patterns of features
    Earlier,      \* payments whose row an earlier router left in the queue
    Detectors,    \* the detectors that loaded when the process started
    Escalation,   \* ESCALATION_THRESHOLD
    ColumnWidth,  \* of novelty_queue.novelty_fingerprint
    CountCap,     \* occurrences are counted up to here
    MaxFaults,    \* bound on failures of Redis, PostgreSQL and the red team
    None

VARIABLES
    at,         \* at[t]: the step of thread t
    serving,    \* serving[t]: the payment it routes
    count,      \* count[t]: occurrences it read
    occurred,   \* occurred[f]: the counter of a fingerprint in Redis
    benign,     \* fingerprints registered with label 0
    status,     \* status[p]: the status of the payment's row, None without a row
    told,       \* fingerprints the red team knows of
    seen,       \* payments handed to a thread (history)
    faults      \* failures so far

vars == <<at, serving, count, occurred, benign, status, told, seen, faults>>

LogThreshold == 3800

\* Without the isolation forest there is no discovery; the others have no say.
Available == "isolation_forest" \in Detectors

\* The most negative scores are the most unlike.
Novel(p) == Available /\ p.anomaly # None /\ p.anomaly < -2000

HexDigits == 64

\* The router rounds the ten largest features to two decimals, the feedback
\* router to three: the hashes agree for exact features alone.
RouterPrint(features) == [pattern |-> features.pattern, exact |-> TRUE]

RegistryPrint(features) == features

Prints == [pattern : Patterns, exact : BOOLEAN]

Statuses == {"PENDING_REVIEW", "REVIEWED_NORMAL", "REVIEWED_NEW_FRAUD", "NEW_GATE_ADDED"}

Fails == faults < MaxFaults /\ faults' = faults + 1

PrintOf(t) == RouterPrint(serving[t].features)

Ends(t) ==
    /\ at' = [at EXCEPT ![t] = "idle"]
    /\ serving' = [serving EXCEPT ![t] = None]
    /\ count' = [count EXCEPT ![t] = 0]

Goes(t, step) ==
    /\ at' = [at EXCEPT ![t] = step]
    /\ UNCHANGED <<serving, count>>
-----------------------------------------------------------------------------
Init ==
    /\ at = [t \in Threads |-> "idle"]
    /\ serving = [t \in Threads |-> None]
    /\ count = [t \in Threads |-> 0]
    /\ occurred = [f \in Prints |-> 0]
    /\ benign = {}
    /\ status = [p \in Payments |-> IF p \in Earlier THEN "PENDING_REVIEW" ELSE None]
    /\ told = {}
    /\ seen = {}
    /\ faults = 0

\* The handler finds a payment that passed novel and hands it over.  The
\* router itself looks at the rounded score, which can reach the threshold
\* although the payment passed.
HandOver(t, p) ==
    /\ at[t] = "idle" /\ p \notin seen /\ Novel(p)
    /\ seen' = seen \cup {p}
    /\ IF p.score >= LogThreshold
       THEN UNCHANGED <<at, serving, count>>
       ELSE /\ at' = [at EXCEPT ![t] = "count"]
            /\ serving' = [serving EXCEPT ![t] = p]
            /\ UNCHANGED count
    /\ UNCHANGED <<occurred, benign, status, told, faults>>

\* INCR and EXPIRE in one transaction, before anything else is known.
CountPattern(t) ==
    /\ at[t] = "count"
    /\ LET n == occurred[PrintOf(t)] + 1
       IN  /\ n <= CountCap
           /\ occurred' = [occurred EXCEPT ![PrintOf(t)] = n]
           /\ count' = [count EXCEPT ![t] = n]
    /\ at' = [at EXCEPT ![t] = "look up"]
    /\ UNCHANGED <<serving, benign, status, told, seen, faults>>

LookUp(t) ==
    /\ at[t] = "look up"
    /\ IF PrintOf(t) \in benign THEN Ends(t) ELSE Goes(t, "insert")
    /\ UNCHANGED <<occurred, benign, status, told, seen, faults>>

\* The row is inserted unless the payment has one, and committed; PostgreSQL
\* refuses a fingerprint that is wider than its column.
Insert(t) ==
    /\ at[t] = "insert"
    /\ IF HexDigits > ColumnWidth
       THEN Ends(t) /\ UNCHANGED status
       ELSE /\ status' = [status EXCEPT ![serving[t]] =
                              IF @ = None THEN "PENDING_REVIEW" ELSE @]
            /\ IF count[t] >= Escalation THEN Goes(t, "escalate") ELSE Ends(t)
    /\ UNCHANGED <<occurred, benign, told, seen, faults>>

Escalate(t) ==
    /\ at[t] = "escalate"
    /\ told' = told \cup {PrintOf(t)}
    /\ Ends(t)
    /\ UNCHANGED <<occurred, benign, status, seen, faults>>

\* Any of them may raise: the router logs it and is done.
RoutingFails(t) ==
    /\ at[t] # "idle"
    /\ Fails
    /\ Ends(t)
    /\ UNCHANGED <<occurred, benign, status, told, seen>>

\* Seven days without the pattern.
Expires(f) ==
    /\ occurred[f] > 0
    /\ occurred' = [occurred EXCEPT ![f] = 0]
    /\ UNCHANGED <<at, serving, count, benign, status, told, seen, faults>>

\* An investigator calls an alert with these features a false positive.
FalsePositive(features) ==
    /\ benign' = benign \cup {RegistryPrint(features)}
    /\ UNCHANGED <<at, serving, count, occurred, status, told, seen, faults>>

\* PATCH /novelty/{id}/review: whatever the row says by now.
Review(p, to) ==
    /\ status[p] # None
    /\ status' = [status EXCEPT ![p] = to]
    /\ UNCHANGED <<at, serving, count, occurred, benign, told, seen, faults>>

Next ==
    \/ \E t \in Threads :
          \/ \E p \in Payments : HandOver(t, p)
          \/ CountPattern(t) \/ LookUp(t) \/ Insert(t) \/ Escalate(t) \/ RoutingFails(t)
    \/ \E f \in Prints : Expires(f) \/ FalsePositive(f)
    \/ \E p \in Payments, to \in Statuses \ {"PENDING_REVIEW"} : Review(p, to)

Spec == Init /\ [][Next]_vars
-----------------------------------------------------------------------------
\* What README.md and the docstring of route_discovery say: a payment handed
\* over with a score below the threshold is, when its thread is done and
\* nothing has failed, in the developers' queue, unless its pattern is known
\* to be benign.
FindingQueued ==
    \A p \in seen :
        \/ p.score >= LogThreshold \/ faults > 0
        \/ \E t \in Threads : serving[t] = p
        \/ RouterPrint(p.features) \in benign
        \/ status[p] # None
=============================================================================
