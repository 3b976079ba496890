--------------------------- MODULE VelocityWindows ---------------------------
(***************************************************************************)
(* The sliding windows of one account in Redis (app/utils/redis_client.py):*)
(* sorted sets of payments scored by their time, trimmed by whoever reads  *)
(* them, and given a new expiry by every payment.  The hour has two keys,  *)
(* for the count and for the volume, which a payment joins together: one   *)
(* stands for both here.                                                   *)
(*                                                                         *)
(* A caller reads its clock first and its MULTI is executed later; several *)
(* processes do so at once.                                                *)
(***************************************************************************)
EXTENDS Integers, FiniteSets, FiniteSetsExt

CONSTANTS
    Payments,   \* calls of increment_velocity for the account
    AmountOf,   \* [Payments -> Nat]
    Readers,    \* calls of velocity_1h, velocity_24h and velocity_volume_1h
    Keys,       \* the keys
    Length,     \* [Keys -> Nat]: how far back a window counts
    Expiry,     \* [Keys -> Nat]: time to live that a payment gives the key
    Lag,        \* longest time between reading the clock and the execution
    LastTime    \* bound on the clock

VARIABLES
    time,       \* the clock, in a unit of the instance's choice
    payment,    \* payment[p]: "new", "stamped" or "recorded"
    paidAt,     \* paidAt[p]: the time it was stamped with
    zset,       \* zset[k]: the payments in k
    expires,    \* expires[k]: when Redis drops k
    reader,     \* reader[q]: "new", "stamped" or "answered"
    window,     \* window[q]: the window q asks for
    askedAt,    \* askedAt[q]: the time q computes its cutoff from
    answer,     \* answer[q]: the count and the volume q was told
    exact       \* exact[q]: what was true at some time from askedAt on (history)

windowVars == <<time, payment, paidAt, zset, expires, reader, window, askedAt,
                answer, exact>>

ASSUME WindowAssumption ==
    /\ IsFiniteSet(Payments) /\ Keys # {}
    /\ AmountOf \in [Payments -> Nat]
    /\ Length \in [Keys -> Nat \ {0}]
    /\ Expiry \in [Keys -> Nat]
    /\ Lag \in Nat
    /\ LastTime \in Nat
    /\ \A k \in Keys : Lag < Length[k] /\ Length[k] + Lag <= Expiry[k]

Total(P) == MapThenSumSet(LAMBDA p : AmountOf[p], P)

Recorded == {p \in Payments : payment[p] = "recorded"}

\* The payments a window of k ought to hold at t.
Within(k, t) == {p \in Recorded : paidAt[p] > t - Length[k]}

\* A call that has read its clock is executed within Lag.
InTime == \A t \in {paidAt[p] : p \in {x \in Payments : payment[x] = "stamped"}}
                  \cup {askedAt[q] : q \in {x \in Readers : reader[x] = "stamped"}} :
              time < t + Lag

\* Time passes, and Redis drops the keys whose time has come.
Pass ==
    /\ time < LastTime
    /\ InTime
    /\ time' = time + 1
    /\ zset' = [k \in Keys |-> IF time' >= expires[k] THEN {} ELSE zset[k]]
    /\ UNCHANGED <<payment, paidAt, expires, reader, window, askedAt, answer, exact>>

StampPayment(p) ==
    /\ payment[p] = "new"
    /\ payment' = [payment EXCEPT ![p] = "stamped"]
    /\ paidAt' = [paidAt EXCEPT ![p] = time]
    /\ UNCHANGED <<time, zset, expires, reader, window, askedAt, answer, exact>>

\* Variant of Increment: an expiry is set for a new key only.
IncrementExpireOnce(p) ==
    /\ payment[p] = "stamped"
    /\ payment' = [payment EXCEPT ![p] = "recorded"]
    /\ zset' = [k \in Keys |-> zset[k] \cup {p}]
    /\ expires' = [k \in Keys |->
                      IF zset[k] = {} THEN time + Expiry[k] ELSE expires[k]]
    /\ UNCHANGED <<time, paidAt, reader, window, askedAt, answer, exact>>

\* Variant of Increment: the payment counts before it is made.
IncrementUnstamped(p) ==
    /\ payment[p] = "stamped"
    /\ payment' = payment
    /\ zset' = [k \in Keys |-> zset[k] \cup {p}]
    /\ expires' = [k \in Keys |-> time + Expiry[k]]
    /\ UNCHANGED <<time, paidAt, reader, window, askedAt, answer, exact>>

\* One MULTI: the member goes into every window, and each window's expiry
\* starts again.
Increment(p) ==
    /\ payment[p] = "stamped"
    /\ payment' = [payment EXCEPT ![p] = "recorded"]
    /\ zset' = [k \in Keys |-> zset[k] \cup {p}]
    /\ expires' = [k \in Keys |-> time + Expiry[k]]
    /\ UNCHANGED <<time, paidAt, reader, window, askedAt, answer, exact>>

StampReader(q) ==
    /\ reader[q] = "new"
    /\ \E k \in Keys : window' = [window EXCEPT ![q] = k]
    /\ reader' = [reader EXCEPT ![q] = "stamped"]
    /\ askedAt' = [askedAt EXCEPT ![q] = time]
    /\ UNCHANGED <<time, payment, paidAt, zset, expires, answer, exact>>

\* The count takes every member left; the volume only those up to the clock
\* the reader has read, so a payment stamped later is not in it.
Reply(q, left) ==
    [count |-> Cardinality(left),
     volume |-> Total({p \in left : paidAt[p] <= askedAt[q]})]

Truth(q, t) ==
    [count |-> Cardinality(Within(window[q], t)),
     volume |-> Total({p \in Within(window[q], t) : paidAt[p] <= askedAt[q]})]

\* Variant of Trimmed: the fixed window of before, counted from its start.
TrimmedAll(q) ==
    {p \in zset[window[q]] : paidAt[p] > askedAt[q]}

\* What zremrangebyscore(0, cutoff) leaves: the cutoff itself goes.
Trimmed(q) ==
    {p \in zset[window[q]] : paidAt[p] > askedAt[q] - Length[window[q]]}

Read(q) ==
    /\ reader[q] = "stamped"
    /\ reader' = [reader EXCEPT ![q] = "answered"]
    /\ zset' = [zset EXCEPT ![window[q]] = Trimmed(q)]
    /\ answer' = [answer EXCEPT ![q] = Reply(q, Trimmed(q))]
    /\ exact' = [exact EXCEPT ![q] = {Truth(q, t) : t \in askedAt[q]..time}]
    /\ UNCHANGED <<time, payment, paidAt, expires, window, askedAt>>

WindowInit ==
    /\ time = 0
    /\ payment = [p \in Payments |-> "new"]
    /\ paidAt = [p \in Payments |-> 0]
    /\ zset = [k \in Keys |-> {}]
    /\ expires = [k \in Keys |-> 0]
    /\ reader = [q \in Readers |-> "new"]
    /\ window = [q \in Readers |-> CHOOSE k \in Keys : TRUE]
    /\ askedAt = [q \in Readers |-> 0]
    /\ answer = [q \in Readers |-> [count |-> 0, volume |-> 0]]
    /\ exact = [q \in Readers |-> {[count |-> 0, volume |-> 0]}]

WindowNext ==
    \/ Pass
    \/ \E p \in Payments : StampPayment(p) \/ Increment(p)
    \/ \E q \in Readers : StampReader(q) \/ Read(q)

WindowSpec == WindowInit /\ [][WindowNext]_windowVars
-----------------------------------------------------------------------------
Answers == [count : Nat, volume : Nat]

WindowTypeOK ==
    /\ time \in 0..LastTime
    /\ payment \in [Payments -> {"new", "stamped", "recorded"}]
    /\ paidAt \in [Payments -> 0..LastTime]
    /\ zset \in [Keys -> SUBSET Payments]
    /\ expires \in [Keys -> Nat]
    /\ reader \in [Readers -> {"new", "stamped", "answered"}]
    /\ window \in [Readers -> Keys]
    /\ askedAt \in [Readers -> 0..LastTime]
    /\ \A q \in Readers : answer[q] \in Answers
    /\ \A k \in Keys : zset[k] \subseteq Recorded

\* Neither a reader's trimming nor the expiry of a key loses a payment that
\* still counts, whatever the order of stamps and executions
\* (redis_client.py:22, "true sliding window").
WindowComplete == \A k \in Keys : Within(k, time) \subseteq zset[k]

\* A reader is told what was true at some time between reading its clock and
\* its execution, although others trim the same key meanwhile.
AnswerTimely == \A q \in Readers : answer[q] \in exact[q]
=============================================================================
