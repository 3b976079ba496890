----------------------------- MODULE ScoreLedger -----------------------------
(***************************************************************************)
(* What POST /score promises its caller, whatever the detection pipeline   *)
(* decides and whatever fails on the way: a decision enters the immutable  *)
(* ledger (model_audit) once per request and never leaves it, and a        *)
(* request is answered 200 only when its decision is already there.  An    *)
(* error answer promises nothing: the decision may or may not be recorded. *)
(***************************************************************************)
CONSTANTS
    Requests,       \* HTTP requests, a retry being a request of its own
    Transactions,   \* the transactions they carry
    TransactionOf,  \* [Requests -> Transactions]
    Actions         \* the actions a decision can prescribe

VARIABLES
    ledger,         \* the decisions recorded so far
    reply           \* what each caller has been told

ledgerVars == <<ledger, reply>>

Decision == [req : Requests, txn : Transactions, action : Actions]

Recorded(r) == \E d \in ledger : d.req = r

Init ==
    /\ ledger = {}
    /\ reply = [r \in Requests |-> "none"]

\* The decision becomes durable, in one step, before anyone hears of it.
Record(r) ==
    /\ reply[r] = "none"
    /\ ~Recorded(r)
    /\ \E a \in Actions :
          ledger' = ledger \cup {[req |-> r, txn |-> TransactionOf[r], action |-> a]}
    /\ UNCHANGED reply

AnswerOk(r) ==
    /\ reply[r] = "none"
    /\ Recorded(r)
    /\ reply' = [reply EXCEPT ![r] = "ok"]
    /\ UNCHANGED ledger

\* One request fails, or a process dies with all the requests it was serving.
AnswerError(S) ==
    /\ \A r \in S : reply[r] = "none"
    /\ reply' = [r \in Requests |-> IF r \in S THEN "error" ELSE reply[r]]
    /\ UNCHANGED ledger

Next ==
    \/ \E r \in Requests : Record(r) \/ AnswerOk(r)
    \/ \E S \in SUBSET Requests : AnswerError(S)

Spec == Init /\ [][Next]_ledgerVars
=============================================================================
