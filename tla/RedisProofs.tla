---------------------------- MODULE RedisProofs ----------------------------
(***************************************************************************)
(* What is proved of the two parts of Redis that expire: WindowComplete    *)
(* and AnswerTimely for every set of payments, readers and keys, and every *)
(* length, expiry and lag that WindowAssumption admits; StalenessHonest    *)
(* and EmbeddingBacked for every set of accounts and patching jobs, and    *)
(* every lifetime and limit that CacheAssumption admits; and the types of  *)
(* both for every behaviour of either.                                     *)
(***************************************************************************)
EXTENDS MCRedis, FiniteSetTheorems, WellFoundedInduction, TLAPS

\* The sums of the model are folds that take any element next.
AnyOf(s) == CHOOSE x \in s : TRUE

SumFold == INSTANCE FoldLemmas WITH op <- +, pick <- AnyOf

-----------------------------------------------------------------------------
(* The sliding windows: the invariant.                                     *)

\* Where a reader that has not asked points.
FirstKey == CHOOSE k \in Keys : TRUE

\* The types the argument needs: times are numbers, sets and windows are of
\* the right kind.
WindowTypes ==
    /\ time \in Nat
    /\ payment \in [Payments -> {"new", "stamped", "recorded"}]
    /\ paidAt \in [Payments -> Nat]
    /\ zset \in [Keys -> SUBSET Payments]
    /\ expires \in [Keys -> Nat]
    /\ reader \in [Readers -> {"new", "stamped", "answered"}]
    /\ askedAt \in [Readers -> Nat]
    /\ window \in [Readers -> Keys \cup {FirstKey}]
    /\ \A q \in Readers : reader[q] = "stamped" => window[q] \in Keys

\* Clocks that were read are not ahead.
ClocksRead ==
    /\ \A p \in Payments : payment[p] # "new" => paidAt[p] <= time
    /\ \A q \in Readers : reader[q] = "stamped" => askedAt[q] <= time

\* A key lives until the last of its payments has left the window.
ExpiresLate ==
    \A p \in Recorded, k \in Keys : paidAt[p] + Length[k] <= expires[k]

WindowInv == WindowTypes /\ ClocksRead /\ ExpiresLate /\ WindowComplete

\* The initial state satisfies the inductive invariant.
LEMMA WindowInvInit == WindowInit => WindowInv
<1> SUFFICES ASSUME WindowInit PROVE WindowInv
  OBVIOUS
<1>1. WindowTypes
  BY DEF WindowInit, WindowTypes, FirstKey
<1>2. Recorded = {}
  BY DEF WindowInit, Recorded
<1>3. ClocksRead /\ ExpiresLate /\ WindowComplete
  BY <1>2 DEF WindowInit, ClocksRead, ExpiresLate, WindowComplete, Within
<1> QED
  BY <1>1, <1>3 DEF WindowInv

\* Every step preserves it.
LEMMA WindowInvNext == WindowInv /\ [WindowNext]_windowVars => WindowInv'
<1> SUFFICES ASSUME WindowInv, [WindowNext]_windowVars PROVE WindowInv'
  OBVIOUS
<1> USE DEF WindowInv
<1>0. /\ Length \in [Keys -> Nat \ {0}] /\ Expiry \in [Keys -> Nat] /\ Lag \in Nat
      /\ \A k \in Keys : Length[k] + Lag <= Expiry[k]
  BY WindowAssumption
<1>1. CASE Pass
  <2>1. WindowTypes' /\ ClocksRead' /\ ExpiresLate'
    BY <1>1 DEF Pass, WindowTypes, ClocksRead, ExpiresLate, Recorded
  <2>2. ASSUME NEW k \in Keys, NEW p \in Within(k, time)'
        PROVE  p \in zset[k]'
    <3>1. /\ p \in Recorded /\ p \in Payments
          /\ paidAt[p] \in Nat /\ time \in Nat /\ Length[k] \in Nat
          /\ paidAt[p] > time + 1 - Length[k]
      BY <1>0, <1>1, <2>2 DEF Pass, Within, Recorded, WindowTypes
    <3>2. p \in zset[k]
      BY <3>1 DEF WindowComplete, Within
    <3>3. expires[k] \in Nat /\ time + 1 < expires[k]
      BY <3>1 DEF ExpiresLate, WindowTypes
    <3> QED
      BY <1>1, <3>2, <3>3, <3>1 DEF Pass
  <2> QED
    BY <2>1, <2>2 DEF WindowComplete
<1>2. ASSUME NEW p \in Payments, StampPayment(p) PROVE WindowInv'
  <2>1. WindowTypes' /\ ClocksRead'
    BY <1>2 DEF StampPayment, WindowTypes, ClocksRead
  <2>2. Recorded' = Recorded /\ \A r \in Recorded : paidAt'[r] = paidAt[r]
    BY <1>2 DEF StampPayment, WindowTypes, Recorded
  <2>3. time' = time /\ zset' = zset /\ expires' = expires
    BY <1>2 DEF StampPayment
  <2>4. ExpiresLate'
    BY <2>2, <2>3 DEF ExpiresLate
  <2>5. WindowComplete'
    BY <2>2, <2>3 DEF WindowComplete, Within
  <2> QED
    BY <2>1, <2>4, <2>5
<1>3. ASSUME NEW p \in Payments, Increment(p) PROVE WindowInv'
  <2>1. WindowTypes' /\ ClocksRead'
    BY <1>0, <1>3 DEF Increment, WindowTypes, ClocksRead
  <2>2. Recorded' = Recorded \cup {p}
    BY <1>3 DEF Increment, WindowTypes, Recorded
  <2>3. ExpiresLate'
    <3> SUFFICES ASSUME NEW r \in Recorded', NEW k \in Keys
                 PROVE  paidAt'[r] + Length[k] <= expires'[k]
      BY DEF ExpiresLate
    <3>1. r \in Payments /\ payment[r] # "new"
      BY <1>3, <2>2 DEF Increment, Recorded
    <3>2. paidAt[r] \in Nat /\ time \in Nat /\ paidAt[r] <= time
      BY <3>1 DEF WindowTypes, ClocksRead
    <3>3. Length[k] \in Nat /\ Expiry[k] \in Nat /\ Length[k] <= Expiry[k]
      BY <1>0
    <3>4. paidAt' = paidAt /\ expires'[k] = time + Expiry[k]
      BY <1>3 DEF Increment
    <3> QED
      BY <3>2, <3>3, <3>4
  <2>4. WindowComplete'
    BY <1>3, <2>2 DEF Increment, WindowComplete, Within
  <2> QED
    BY <2>1, <2>3, <2>4
<1>4. ASSUME NEW q \in Readers, StampReader(q) PROVE WindowInv'
  <2>1. WindowTypes'
    <3>1. PICK k \in Keys : window' = [window EXCEPT ![q] = k]
      BY <1>4 DEF StampReader
    <3>2. /\ window' \in [Readers -> Keys \cup {FirstKey}]
          /\ window'[q] \in Keys
          /\ \A r \in Readers : r # q => window'[r] = window[r] /\ reader'[r] = reader[r]
      BY <1>4, <3>1 DEF StampReader, WindowTypes
    <3>3. \A r \in Readers : reader'[r] = "stamped" => window'[r] \in Keys
      BY <3>2 DEF WindowTypes
    <3> QED
      BY <1>4, <3>2, <3>3 DEF StampReader, WindowTypes
  <2>2. ClocksRead'
    BY <1>4 DEF StampReader, WindowTypes, ClocksRead
  <2>3. ExpiresLate' /\ WindowComplete'
    BY <1>4 DEF StampReader, ExpiresLate, WindowComplete, Within, Recorded
  <2> QED
    BY <2>1, <2>2, <2>3
<1>5. ASSUME NEW q \in Readers, Read(q) PROVE WindowInv'
  <2> DEFINE k0 == window[q]
  <2>0. k0 \in Keys /\ askedAt[q] \in Nat /\ askedAt[q] <= time
    BY <1>5 DEF Read, WindowTypes, ClocksRead
  <2>1. WindowTypes' /\ ClocksRead'
    BY <1>5, <2>0 DEF Read, Trimmed, WindowTypes, ClocksRead
  <2>2. ExpiresLate'
    BY <1>5 DEF Read, ExpiresLate, Recorded
  <2>3. ASSUME NEW k \in Keys, NEW p \in Within(k, time)'
        PROVE  p \in zset[k]'
    <3>1. /\ p \in Recorded /\ p \in Payments /\ p \in zset[k]
          /\ paidAt[p] > time - Length[k]
      BY <1>5, <2>3 DEF Read, Within, Recorded, WindowComplete
    <3>2. paidAt[p] \in Nat /\ time \in Nat /\ Length[k] \in Nat
      BY <1>0, <3>1 DEF WindowTypes
    <3>3. k = k0 => p \in Trimmed(q)
      BY <2>0, <3>1, <3>2 DEF Trimmed
    <3> QED
      BY <1>5, <3>1, <3>3 DEF Read, WindowTypes
  <2> QED
    BY <2>1, <2>2, <2>3 DEF WindowComplete
<1>6. CASE UNCHANGED windowVars
  BY <1>6 DEF windowVars, WindowTypes, ClocksRead, ExpiresLate, WindowComplete,
              Within, Recorded
<1> QED
  BY <1>1, <1>2, <1>3, <1>4, <1>5, <1>6 DEF WindowNext

\* No reader's trimming and no expiry loses a payment that still counts
\* (redis_client.py:22): a payment's key outlives it, and a cutoff computed
\* from an earlier clock is an earlier cutoff.
THEOREM WindowIsComplete == WindowSpec => []WindowComplete
<1>1. WindowInv => WindowComplete
  BY DEF WindowInv
<1> QED
  BY WindowInvInit, WindowInvNext, <1>1, PTL DEF WindowSpec
-----------------------------------------------------------------------------
(* What a reader is told.  Trimming and expiry take the oldest payments    *)
(* first, and no payment arrives that is older than one of those: so what  *)
(* a key holds is what a window of some recent time ought to.              *)

\* A payment under way is no older than the lag.
Fresh == \A p \in Payments : payment[p] = "stamped" => time <= paidAt[p] + Lag

\* What is gone is older than what is left.
OldestGone ==
    \A k \in Keys : /\ zset[k] \subseteq Recorded
                    /\ \A p \in Recorded \ zset[k], r \in zset[k] : paidAt[p] < paidAt[r]

Asked == DOMAIN answer = Readers /\ DOMAIN exact = Readers

ReaderInv == Fresh /\ OldestGone /\ Asked /\ AnswerTimely

\* It holds at the start.
LEMMA ReaderInvInit == WindowInit => ReaderInv
BY DEF WindowInit, ReaderInv, Fresh, OldestGone, Recorded, Asked, AnswerTimely

\* A trimmed key holds exactly a window, of a time the reader may name.
LEMMA TrimmedIsWithin ==
    ASSUME WindowInv, OldestGone, NEW q \in Readers, reader[q] = "stamped"
    PROVE  \E t \in askedAt[q] .. time : Trimmed(q) = Within(window[q], t)
<1>0. PICK k \in Keys : k = window[q]
  BY DEF WindowInv, WindowTypes
<1> DEFINE begin == askedAt[q]
           T == {t \in begin .. time : Within(k, t) \subseteq zset[k]}
<1>1. /\ begin \in Nat /\ time \in Nat /\ begin <= time /\ Length[k] \in Nat
      /\ \A p \in Recorded : paidAt[p] \in Nat
      /\ zset[k] \subseteq Recorded
  BY WindowAssumption DEF WindowInv, WindowTypes, ClocksRead, OldestGone, Recorded
<1>2. T \subseteq Nat /\ time \in T
  <2>1. Within(k, time) \subseteq zset[k]
    BY DEF WindowInv, WindowComplete
  <2>2. time \in begin .. time
    BY <1>1
  <2> QED
    BY <1>1, <2>1, <2>2
<1>3. PICK t \in T : \A u \in T : t <= u
  BY <1>2, SumFold!LeastExists
<1>4. t \in begin .. time /\ Within(k, t) \subseteq zset[k]
  BY <1>3
<1>5. Within(k, t) \subseteq Trimmed(q)
  BY <1>0, <1>1, <1>4 DEF Within, Trimmed
<1>6. Trimmed(q) \subseteq Within(k, t)
  <2>1. CASE t = begin
    BY <1>0, <1>1, <2>1 DEF Within, Trimmed
  <2>2. CASE t # begin
    <3>1. t - 1 \in begin .. time /\ ~(t <= t - 1)
      BY <1>1, <1>4, <2>2
    <3>2. ~(Within(k, t - 1) \subseteq zset[k])
      BY <1>3, <3>1
    <3>3. PICK p \in Recorded : p \notin zset[k] /\ paidAt[p] > (t - 1) - Length[k]
      BY <3>2 DEF Within
    <3>4. \A r \in zset[k] : paidAt[p] < paidAt[r]
      BY <3>3 DEF OldestGone
    <3>5. \A r \in zset[k] : paidAt[r] > t - Length[k]
      BY <1>1, <1>4, <3>3, <3>4
    <3> QED
      BY <1>0, <1>1, <3>5 DEF Within, Trimmed
  <2> QED
    BY <2>1, <2>2
<1>7. Trimmed(q) = Within(k, t)
  BY <1>5, <1>6
<1>8. Trimmed(q) = Within(window[q], t)
  BY <1>0, <1>7, Zenon
<1> QED
  BY <1>4, <1>8

\* Every step preserves it.
LEMMA ReaderInvNext == WindowInv /\ ReaderInv /\ [WindowNext]_windowVars => ReaderInv'
<1> SUFFICES ASSUME WindowInv, ReaderInv, [WindowNext]_windowVars PROVE ReaderInv'
  OBVIOUS
<1> USE DEF ReaderInv
<1>0. /\ WindowTypes /\ ClocksRead /\ WindowComplete /\ ExpiresLate
      /\ Length \in [Keys -> Nat] /\ Expiry \in [Keys -> Nat] /\ Lag \in Nat
      /\ \A k \in Keys : Lag < Length[k]
  BY WindowAssumption DEF WindowInv
<1>1. CASE Pass
  <2>1. /\ time \in Nat /\ time' = time + 1 /\ InTime
        /\ UNCHANGED <<payment, paidAt, answer, exact>>
        /\ \A k \in Keys : zset'[k] \in {{}, zset[k]}
        /\ Recorded' = Recorded
    BY <1>0, <1>1 DEF Pass, WindowTypes, Recorded
  <2>2. Fresh'
    <3> SUFFICES ASSUME NEW p \in Payments, payment[p] = "stamped"
                 PROVE  time + 1 <= paidAt[p] + Lag
      BY <2>1 DEF Fresh
    <3>1. time < paidAt[p] + Lag /\ paidAt[p] \in Nat
      BY <1>0, <2>1 DEF InTime, WindowTypes
    <3> QED
      BY <1>0, <2>1, <3>1
  <2>3. OldestGone'
    BY <2>1 DEF OldestGone
  <2> QED
    BY <2>1, <2>2, <2>3 DEF Asked, AnswerTimely
<1>2. ASSUME NEW p \in Payments, StampPayment(p) PROVE ReaderInv'
  <2>1. Recorded' = Recorded /\ \A r \in Recorded : paidAt'[r] = paidAt[r]
    BY <1>0, <1>2 DEF StampPayment, WindowTypes, Recorded
  <2>2. Fresh'
    BY <1>0, <1>2 DEF StampPayment, WindowTypes, Fresh
  <2>3. OldestGone'
    BY <1>2, <2>1 DEF StampPayment, OldestGone
  <2> QED
    BY <1>2, <2>2, <2>3 DEF StampPayment, Asked, AnswerTimely
<1>3. ASSUME NEW p \in Payments, Increment(p) PROVE ReaderInv'
  <2>1. /\ Recorded' = Recorded \cup {p} /\ paidAt' = paidAt /\ time' = time
        /\ \A k \in Keys : zset'[k] = zset[k] \cup {p}
        /\ UNCHANGED <<answer, exact>>
    BY <1>0, <1>3 DEF Increment, WindowTypes, Recorded
  <2>2. Fresh'
    BY <1>0, <1>3 DEF Increment, WindowTypes, Fresh
  <2>3. ASSUME NEW k \in Keys, NEW s \in Recorded \ zset[k] PROVE paidAt[s] < paidAt[p]
    <3>1. /\ paidAt[s] \in Nat /\ paidAt[p] \in Nat /\ time \in Nat
          /\ Length[k] \in Nat /\ Lag < Length[k]
      BY <1>0 DEF WindowTypes, Recorded
    <3>2. ~(paidAt[s] > time - Length[k])
      BY <1>0, <2>3 DEF WindowComplete, Within
    <3>3. time <= paidAt[p] + Lag
      BY <1>3 DEF Increment, Fresh
    <3> QED
      BY <1>0, <3>1, <3>2, <3>3
  <2>4. OldestGone'
    BY <2>1, <2>3 DEF OldestGone
  <2> QED
    BY <2>1, <2>2, <2>4 DEF Asked, AnswerTimely
<1>4. ASSUME NEW q \in Readers, StampReader(q) PROVE ReaderInv'
  BY <1>4 DEF StampReader, Fresh, OldestGone, Recorded, Asked, AnswerTimely
<1>5. ASSUME NEW q \in Readers, Read(q) PROVE ReaderInv'
  <2>0. PICK k \in Keys : k = window[q]
    BY <1>0, <1>5 DEF Read, WindowTypes
  <2>1. Fresh'
    BY <1>5 DEF Read, Fresh
  <2>2. /\ Recorded' = Recorded /\ paidAt' = paidAt
        /\ zset' = [zset EXCEPT ![k] = Trimmed(q)]
        /\ zset \in [Keys -> SUBSET Payments]
        /\ askedAt[q] \in Nat /\ Length[k] \in Nat
        /\ \A p \in Payments : paidAt[p] \in Nat
    BY <1>0, <1>5, <2>0 DEF Read, Recorded, WindowTypes
  <2>3. OldestGone'
    <3> SUFFICES ASSUME NEW j \in Keys
                 PROVE  /\ zset'[j] \subseteq Recorded
                        /\ \A p \in Recorded \ zset'[j], r \in zset'[j] : paidAt[p] < paidAt[r]
      BY <2>2 DEF OldestGone
    <3>1. CASE j = k
      <4>1. /\ zset'[j] = {p \in zset[k] : paidAt[p] > askedAt[q] - Length[k]}
            /\ zset[k] \subseteq Recorded /\ Recorded \subseteq Payments
        BY <2>0, <2>2, <3>1 DEF Trimmed, OldestGone, Recorded
      <4>2. ASSUME NEW p \in Recorded \ zset'[j], NEW r \in zset'[j]
            PROVE  paidAt[p] < paidAt[r]
        <5>1. r \in zset[k] /\ paidAt[r] > askedAt[q] - Length[k]
          BY <4>1
        <5>2. CASE p \in zset[k]
          BY <2>2, <4>1, <5>1, <5>2
        <5>3. CASE p \notin zset[k]
          BY <5>1, <5>3 DEF OldestGone
        <5> QED
          BY <5>2, <5>3
      <4> QED
        BY <4>1, <4>2
    <3>2. CASE j # k
      BY <2>2, <3>2 DEF OldestGone
    <3> QED
      BY <3>1, <3>2
  <2>4. PICK t \in askedAt[q] .. time : Trimmed(q) = Within(window[q], t)
    BY <1>5, TrimmedIsWithin DEF Read
  <2>5. Reply(q, Trimmed(q)) = Truth(q, t)
    BY <2>4 DEF Reply, Truth
  <2>6. Reply(q, Trimmed(q)) \in {Truth(q, u) : u \in askedAt[q] .. time}
    BY <2>4, <2>5
  <2>7. Asked' /\ AnswerTimely'
    BY <1>5, <2>6 DEF Read, Asked, AnswerTimely
  <2> QED
    BY <2>1, <2>3, <2>7
<1>6. CASE UNCHANGED windowVars
  BY <1>6 DEF windowVars, Fresh, OldestGone, Recorded, Asked, AnswerTimely
<1> QED
  BY <1>1, <1>2, <1>3, <1>4, <1>5, <1>6 DEF WindowNext

\* A reader is told a count and a volume that were true at one time between
\* reading its clock and its MULTI, however others trim and pay meanwhile
\* (redis_client.py, velocity_1h and velocity_volume_1h).
THEOREM AnswersAreTimely == WindowSpec => []AnswerTimely
<1>1. ReaderInv => AnswerTimely
  BY DEF ReaderInv
<1> QED
  BY WindowInvInit, WindowInvNext, ReaderInvInit, ReaderInvNext, <1>1, PTL DEF WindowSpec
-----------------------------------------------------------------------------
(* The feature cache: the invariant.                                       *)

Times == Nat \cup {None}

HashTypes ==
    /\ clock \in Nat
    /\ feat \in [Accounts -> [Fields -> Times]]
    /\ stamp \in [Accounts -> Times]
    /\ dies \in [Accounts -> Times]

\* The batch is within its limit, and its time is that of its writing.
NightlyInv ==
    /\ nightly = [stage |-> nightly.stage, began |-> nightly.began,
                  stamp |-> nightly.stamp, todo |-> nightly.todo, read |-> nightly.read]
    /\ Running(nightly) => /\ nightly.began \in Nat /\ nightly.todo \subseteq Accounts
                           /\ nightly.began <= clock /\ clock <= nightly.began + RunLimit
    /\ nightly.stage = "writing" => /\ nightly.stamp \in Nat
                                    /\ nightly.began <= nightly.stamp
                                    /\ nightly.stamp <= clock

\* So are the patching jobs.
PatchInv ==
    /\ patch \in [Patchers -> [stage : {"idle", "check", "put"}, began : Nat,
                               todo : SUBSET Accounts, at : Accounts \cup {None}]]
    /\ \A j \in Patchers : Running(patch[j]) =>
          patch[j].began <= clock /\ clock <= patch[j].began + RunLimit

\* A hash with a time is complete, its fields are no older than the time by
\* more than a job, and it lives a lifetime from its writing.
HashInv(a) ==
    IF stamp[a] = None THEN feat[a]["core"] = None
    ELSE /\ \A f \in Fields : feat[a][f] # None /\ stamp[a] <= feat[a][f] + RunLimit
         /\ stamp[a] <= clock /\ feat[a]["core"] <= clock
         /\ dies[a] # None /\ clock < dies[a]
         /\ feat[a]["core"] + Lifetime <= dies[a]
         /\ dies[a] <= feat[a]["core"] + Lifetime + RunLimit
         /\ Running(nightly) => feat[a]["core"] <= nightly.began

Backs(a, t) == feat[a]["core"] # None /\ t <= feat[a]["core"]

\* A batch that read its own hash back still has it, or a later one.
ReadInv(a) ==
    nightly.stage = "saving" /\ a \in DOMAIN nightly.read
        /\ nightly.read[a] = nightly.began => Backs(a, nightly.began)

\* What the batch embedded from its own hash dies before the hash can.
EmbeddingInv(a) ==
    emb[a].by = "nightly" /\ emb[a].core = emb[a].batch =>
        /\ emb[a].core \in Nat /\ Backs(a, emb[a].core)
        /\ emb[a].dies \in Nat
        /\ emb[a].dies <= emb[a].core + EmbLifetime + RunLimit

CacheInv ==
    /\ HashTypes /\ NightlyInv /\ PatchInv
    /\ \A a \in Accounts : HashInv(a) /\ ReadInv(a) /\ EmbeddingInv(a)

\* It holds at the start.
LEMMA CacheInvInit == CacheInit => CacheInv
<1> SUFFICES ASSUME CacheInit PROVE CacheInv
  OBVIOUS
<1> USE CacheAssumption DEF CacheInit
<1>1. HashTypes
  BY DEF HashTypes, Times, NoHash
<1>2. NightlyInv
  BY DEF NightlyInv, NoBatch, Running
<1>3. PatchInv
  BY DEF PatchInv, NoPatch, Running
<1>4. ASSUME NEW a \in Accounts PROVE HashInv(a) /\ ReadInv(a) /\ EmbeddingInv(a)
  BY DEF HashInv, ReadInv, EmbeddingInv, NoHash, NoBatch, NoEmbedding, Fields
<1> QED
  BY <1>1, <1>2, <1>3, <1>4 DEF CacheInv
-----------------------------------------------------------------------------
(* The steps.                                                              *)

\* The facts that hold of the lifetimes.
LEMMA Lifetimes ==
    /\ Lifetime \in Nat /\ EmbLifetime \in Nat /\ RunLimit \in Nat
    /\ 0 < EmbLifetime /\ 0 < RunLimit /\ EmbLifetime + RunLimit <= Lifetime
    /\ None \notin Int /\ "core" \in Fields /\ "core" \notin Patchers /\ Patchers \subseteq Fields
BY CacheAssumption DEF Fields

\* What is left alone when hashes, embeddings and the batch are.
LEMMA AccountStays ==
    ASSUME CacheInv, NEW a \in Accounts,
           UNCHANGED <<clock, feat, stamp, dies, emb, nightly>>
    PROVE  HashInv(a)' /\ ReadInv(a)' /\ EmbeddingInv(a)'
BY DEF CacheInv, HashInv, ReadInv, EmbeddingInv, Backs

\* Time passes: nothing that is needed expires.
LEMMA HourKeeps == CacheInv /\ Hour => CacheInv'
<1> SUFFICES ASSUME CacheInv, Hour PROVE CacheInv'
  OBVIOUS
<1> USE DEF CacheInv
<1>0. /\ clock \in Nat /\ clock' = clock + 1 /\ WithinLimits
      /\ UNCHANGED <<nightly, patch>>
      /\ feat \in [Accounts -> [Fields -> Times]]
      /\ stamp \in [Accounts -> Times] /\ dies \in [Accounts -> Times]
  BY DEF Hour, HashTypes
<1>1. ASSUME NEW a \in Accounts
      PROVE  \/ /\ dies[a] # None /\ dies[a] <= clock + 1
                /\ feat'[a] = NoHash /\ stamp'[a] = None /\ dies'[a] = None
             \/ /\ ~(dies[a] # None /\ dies[a] <= clock + 1)
                /\ feat'[a] = feat[a] /\ stamp'[a] = stamp[a] /\ dies'[a] = dies[a]
  BY DEF Hour
<1>2. HashTypes'
  <2>1. NoHash \in [Fields -> Times] /\ None \in Times
    BY DEF NoHash, Times
  <2>2. /\ feat' \in [Accounts -> [Fields -> Times]]
        /\ stamp' \in [Accounts -> Times] /\ dies' \in [Accounts -> Times]
    BY <1>0, <2>1 DEF Hour
  <2> QED
    BY <1>0, <2>2 DEF HashTypes
<1>3. NightlyInv'
  BY <1>0, Lifetimes DEF NightlyInv, WithinLimits
<1>4. PatchInv'
  BY <1>0, Lifetimes DEF PatchInv, WithinLimits
<1>5. ASSUME NEW a \in Accounts PROVE HashInv(a)' /\ ReadInv(a)' /\ EmbeddingInv(a)'
  <2>0. /\ HashInv(a) /\ ReadInv(a) /\ EmbeddingInv(a)
        /\ stamp[a] \in Times /\ dies[a] \in Times
        /\ \A f \in Fields : feat[a][f] \in Times
    BY <1>0
  <2>1. HashInv(a)'
    BY <1>0, <1>1, <2>0, Lifetimes DEF HashInv, NoHash, Times
  <2>2. ASSUME NEW t \in Nat, Backs(a, t), clock + 1 < t + Lifetime
        PROVE  Backs(a, t)'
    <3>1. stamp[a] # None /\ dies[a] \in Nat /\ feat[a]["core"] \in Nat
      BY <2>0, <2>2, Lifetimes DEF Backs, HashInv, Times
    <3>2. dies[a] > clock + 1
      BY <1>0, <2>0, <2>2, <3>1, Lifetimes DEF Backs, HashInv
    <3> QED
      BY <1>0, <1>1, <2>2, <3>1, <3>2 DEF Backs
  <2>3. ReadInv(a)'
    <3> SUFFICES ASSUME nightly.stage = "saving", a \in DOMAIN nightly.read,
                        nightly.read[a] = nightly.began
                 PROVE  Backs(a, nightly.began)'
      BY <1>0 DEF ReadInv
    <3>1. /\ nightly.began \in Nat /\ clock + 1 <= nightly.began + RunLimit
          /\ Backs(a, nightly.began)
      BY <1>0, <2>0, Lifetimes DEF NightlyInv, WithinLimits, Running, ReadInv
    <3>2. PICK t \in Nat : t = nightly.began
      BY <3>1
    <3>3. clock + 1 < t + Lifetime
      BY <1>0, <3>1, <3>2, Lifetimes
    <3>4. Backs(a, t)'
      BY <2>2, <3>1, <3>2, <3>3 DEF Backs
    <3> QED
      BY <1>0, <3>2, <3>4 DEF Backs
  <2>4. EmbeddingInv(a)'
    <3>1. CASE emb[a].dies <= clock + 1
      <4>1. emb'[a] = NoEmbedding
        BY <1>0, <3>1 DEF Hour
      <4> QED
        BY <4>1 DEF EmbeddingInv, NoEmbedding
    <3>2. CASE ~(emb[a].dies <= clock + 1)
      <4>1. emb'[a] = emb[a]
        BY <1>0, <3>2 DEF Hour
      <4> SUFFICES ASSUME emb[a].by = "nightly", emb[a].core = emb[a].batch
                   PROVE  Backs(a, emb[a].core)'
        BY <2>0, <4>1 DEF EmbeddingInv, Backs
      <4>2. PICK t \in Nat : t = emb[a].core
        BY <2>0 DEF EmbeddingInv
      <4>3. Backs(a, t) /\ clock + 1 < t + Lifetime
        BY <1>0, <2>0, <3>2, <4>2, Lifetimes DEF EmbeddingInv, Backs
      <4>4. Backs(a, t)'
        BY <2>2, <4>3
      <4> QED
        BY <4>1, <4>2, <4>4 DEF Backs
    <3> QED
      BY <3>1, <3>2
  <2> QED
    BY <2>1, <2>3, <2>4
<1> QED
  BY <1>2, <1>3, <1>4, <1>5

\* The steps of the batch that leave hashes and embeddings alone.
LEMMA BatchKeeps ==
    ASSUME CacheInv,
           StartNightly \/ Computed \/ AccountsWritten \/ ReadBack \/ NightlyStops
             \/ \E a \in Accounts : WriteAccountFails(a)
    PROVE  CacheInv'
<1> USE DEF CacheInv
<1>0. /\ UNCHANGED <<clock, feat, stamp, dies, emb, patch>>
      /\ clock \in Nat /\ feat \in [Accounts -> [Fields -> Times]]
  BY DEF StartNightly, Computed, AccountsWritten, ReadBack, NightlyStops, WriteAccountFails,
         HashTypes
<1>1. HashTypes' /\ PatchInv'
  BY <1>0 DEF HashTypes, PatchInv
<1>2. NightlyInv'
  <2>1. CASE StartNightly
    BY <1>0, <2>1, Lifetimes DEF StartNightly, NightlyInv, Running
  <2>2. CASE Computed
    <3>1. /\ Running(nightly) /\ nightly.began \in Nat /\ nightly.todo \subseteq Accounts
          /\ nightly.began <= clock /\ clock <= nightly.began + RunLimit
      BY <2>2 DEF Computed, NightlyInv, Running
    <3>2. nightly' = [stage |-> "writing", began |-> nightly.began, stamp |-> clock,
                      todo |-> nightly.todo, read |-> nightly.read]
      BY <2>2 DEF Computed, NightlyInv
    <3> QED
      BY <1>0, <3>1, <3>2 DEF NightlyInv, Running
  <2>3. CASE AccountsWritten
    BY <1>0, <2>3 DEF AccountsWritten, NightlyInv, Running
  <2>4. CASE ReadBack
    BY <1>0, <2>4 DEF ReadBack, NightlyInv, Running
  <2>5. CASE NightlyStops
    BY <1>0, <2>5 DEF NightlyStops, NightlyInv, NoBatch, Running
  <2>6. CASE \E a \in Accounts : WriteAccountFails(a)
    BY <1>0, <2>6 DEF WriteAccountFails, NightlyInv, Running
  <2> QED
    BY <2>1, <2>2, <2>3, <2>4, <2>5, <2>6
<1>3. ASSUME NEW a \in Accounts PROVE HashInv(a)' /\ ReadInv(a)' /\ EmbeddingInv(a)'
  <2>0. \/ nightly' = NoBatch
        \/ nightly'.began = clock /\ nightly'.stage # "saving"
        \/ /\ Running(nightly) /\ nightly'.began = nightly.began
           /\ ReadBack \/ nightly'.stage # "saving"
    <3>1. CASE StartNightly
      BY <3>1 DEF StartNightly
    <3>2. CASE Computed \/ AccountsWritten
      BY <3>2 DEF Computed, AccountsWritten, NightlyInv, Running
    <3>3. CASE ReadBack
      BY <3>3 DEF ReadBack, NightlyInv, Running
    <3>4. CASE NightlyStops
      BY <3>4 DEF NightlyStops
    <3>5. CASE \E b \in Accounts : WriteAccountFails(b)
      BY <3>5 DEF WriteAccountFails, NightlyInv, Running
    <3> QED
      BY <3>1, <3>2, <3>3, <3>4, <3>5
  <2>1. \/ ~Running(nightly)' \/ nightly'.began = clock
        \/ Running(nightly) /\ nightly'.began = nightly.began
    BY <2>0 DEF NoBatch, Running
  <2>2. HashInv(a)'
    BY <1>0, <2>1 DEF HashInv
  <2>3. EmbeddingInv(a)'
    BY <1>0 DEF EmbeddingInv, Backs
  <2>4. ReadInv(a)'
    <3>1. CASE ReadBack
      <4>1. PICK nodes \in SUBSET Accounts :
               nightly' = [nightly EXCEPT !.stage = "saving", !.read = ReadHashes(nodes)]
        BY <3>1 DEF ReadBack
      <4>2. nightly'.read = ReadHashes(nodes) /\ nightly'.began = nightly.began
        BY <4>1 DEF NightlyInv
      <4>3. nightly.began \in Nat
        BY <3>1 DEF ReadBack, NightlyInv, Running
      <4>4. ASSUME a \in DOMAIN nightly'.read, nightly'.read[a] = nightly.began
            PROVE  feat[a]["core"] = nightly.began
        BY <4>2, <4>4 DEF ReadHashes
      <4> QED
        BY <1>0, <4>2, <4>3, <4>4, Lifetimes DEF ReadInv, Backs
    <3>2. CASE ~ReadBack
      <4>1. nightly'.stage # "saving"
        BY <2>0, <3>2 DEF NoBatch
      <4> QED
        BY <4>1 DEF ReadInv
    <3> QED
      BY <3>1, <3>2
  <2> QED
    BY <2>2, <2>3, <2>4
<1> QED
  BY <1>1, <1>2, <1>3

\* A hash is written whole, with its time and its expiry.
LEMMA WriteKeeps ==
    ASSUME CacheInv, NEW b \in Accounts, WriteAccount(b)
    PROVE  CacheInv'
<1> USE DEF CacheInv
<1>0. /\ clock \in Nat /\ nightly.began \in Nat /\ nightly.stamp \in Nat
      /\ nightly.began <= nightly.stamp /\ nightly.stamp <= clock
      /\ clock <= nightly.began + RunLimit
      /\ Running(nightly) /\ nightly.stage = "writing"
      /\ feat \in [Accounts -> [Fields -> Times]]
      /\ stamp \in [Accounts -> Times] /\ dies \in [Accounts -> Times]
  BY DEF WriteAccount, HashTypes, NightlyInv, Running
<1>1. /\ feat' = [feat EXCEPT ![b] = [f \in Fields |-> nightly.began]]
      /\ stamp' = [stamp EXCEPT ![b] = nightly.stamp]
      /\ dies' = [dies EXCEPT ![b] = clock + Lifetime]
      /\ nightly' = [nightly EXCEPT !.todo = @ \ {b}]
      /\ UNCHANGED <<clock, emb, patch>>
  BY DEF WriteAccount
<1>2. HashTypes'
  <2>1. [f \in Fields |-> nightly.began] \in [Fields -> Times] /\ clock + Lifetime \in Times
        /\ nightly.stamp \in Times
    BY <1>0, Lifetimes DEF Times
  <2> QED
    BY <1>0, <1>1, <2>1 DEF HashTypes
<1>3. /\ nightly'.stage = "writing" /\ nightly'.began = nightly.began
      /\ NightlyInv' /\ PatchInv'
  BY <1>0, <1>1 DEF NightlyInv, PatchInv, Running
<1>4. ASSUME NEW a \in Accounts PROVE HashInv(a)' /\ ReadInv(a)' /\ EmbeddingInv(a)'
  <2>1. ReadInv(a)'
    BY <1>3 DEF ReadInv
  <2>2. CASE a = b
    <3>1. /\ feat'[a] = [f \in Fields |-> nightly.began]
          /\ stamp'[a] = nightly.stamp /\ dies'[a] = clock + Lifetime
      BY <1>0, <1>1, <2>2
    <3>2. HashInv(a)'
      BY <1>0, <1>1, <1>3, <3>1, Lifetimes DEF HashInv
    <3>3. EmbeddingInv(a)'
      <4>1. ASSUME emb[a].by = "nightly", emb[a].core = emb[a].batch
            PROVE  emb[a].core <= nightly.began
        <5>1. /\ emb[a].core \in Nat /\ emb[a].core <= feat[a]["core"]
              /\ feat[a]["core"] # None /\ feat[a]["core"] \in Times
          BY <1>0, <4>1, Lifetimes DEF EmbeddingInv, Backs
        <5>2. feat[a]["core"] <= nightly.began
          BY <1>0, <5>1 DEF HashInv
        <5> QED
          BY <1>0, <5>1, <5>2 DEF Times
      <4> QED
        BY <1>0, <1>1, <3>1, <4>1, Lifetimes DEF EmbeddingInv, Backs
    <3> QED
      BY <2>1, <3>2, <3>3
  <2>3. CASE a # b
    <3>1. feat'[a] = feat[a] /\ stamp'[a] = stamp[a] /\ dies'[a] = dies[a]
      BY <1>0, <1>1, <2>3
    <3> QED
      BY <1>0, <1>1, <1>3, <2>1, <3>1 DEF HashInv, EmbeddingInv, Backs
  <2> QED
    BY <2>2, <2>3
<1> QED
  BY <1>2, <1>3, <1>4

\* The batch ends with the embeddings of what it had read.
LEMMA SaveKeeps == CacheInv /\ SaveEmbeddings => CacheInv'
<1> SUFFICES ASSUME CacheInv, SaveEmbeddings PROVE CacheInv'
  OBVIOUS
<1> USE DEF CacheInv
<1>0. /\ clock \in Nat /\ nightly.began \in Nat /\ clock <= nightly.began + RunLimit
      /\ nightly.stage = "saving" /\ nightly' = NoBatch
      /\ emb' = Embedded(nightly.read, "nightly", nightly.began)
      /\ UNCHANGED <<clock, feat, stamp, dies, patch>>
  BY DEF SaveEmbeddings, HashTypes, NightlyInv, Running
<1>1. HashTypes' /\ PatchInv'
  BY <1>0 DEF HashTypes, PatchInv
<1>2. NightlyInv' /\ ~Running(nightly)'
  BY <1>0 DEF NightlyInv, NoBatch, Running
<1>3. ASSUME NEW a \in Accounts PROVE HashInv(a)' /\ ReadInv(a)' /\ EmbeddingInv(a)'
  <2>1. HashInv(a)'
    BY <1>0, <1>2 DEF HashInv
  <2>2. ReadInv(a)'
    BY <1>0 DEF ReadInv, NoBatch
  <2>3. EmbeddingInv(a)'
    <3>1. CASE a \in DOMAIN nightly.read
      <4>1. emb'[a] = [by |-> "nightly", batch |-> nightly.began, core |-> nightly.read[a],
                       dies |-> clock + EmbLifetime]
        BY <1>0, <3>1 DEF Embedded
      <4>2. nightly.read[a] = nightly.began => Backs(a, nightly.began)
        BY <1>0, <3>1 DEF ReadInv
      <4> QED
        BY <1>0, <4>1, <4>2, Lifetimes DEF EmbeddingInv, Backs
    <3>2. CASE a \notin DOMAIN nightly.read
      <4>1. emb'[a] = emb[a]
        BY <1>0, <3>2 DEF Embedded
      <4> QED
        BY <1>0, <4>1 DEF EmbeddingInv, Backs
    <3> QED
      BY <3>1, <3>2
  <2> QED
    BY <2>1, <2>2, <2>3
<1> QED
  BY <1>1, <1>2, <1>3

\* A job that is done with an account is idle or goes on as before.
LEMMA DoneKeeps ==
    ASSUME PatchInv, NEW j \in Patchers, NEW a
    PROVE  /\ Done(patch[j], a) \in [stage : {"idle", "check", "put"}, began : Nat,
                                   todo : SUBSET Accounts, at : Accounts \cup {None}]
           /\ Running(Done(patch[j], a)) => Done(patch[j], a).began = patch[j].began
<1>1. patch[j] \in [stage : {"idle", "check", "put"}, began : Nat,
                   todo : SUBSET Accounts, at : Accounts \cup {None}]
  BY DEF PatchInv
<1>2. CASE patch[j].todo = {a}
  BY <1>2 DEF Done, NoPatch, Running
<1>3. CASE patch[j].todo # {a}
  BY <1>1, <1>3 DEF Done
<1> QED
  BY <1>2, <1>3

\* A job that starts, looks or stops changes nothing but itself.
LEMMA PatcherKeeps ==
    ASSUME CacheInv, NEW j \in Patchers,
           StartPatch(j) \/ PatchStops(j) \/ \E a \in Accounts : CheckAccount(j, a)
    PROVE  CacheInv'
<1> USE DEF CacheInv
<1>1. UNCHANGED <<clock, feat, stamp, dies, emb, nightly>> /\ clock \in Nat
  BY DEF StartPatch, PatchStops, CheckAccount, HashTypes
<1>2. HashTypes' /\ NightlyInv'
  BY <1>1 DEF HashTypes, NightlyInv
<1>3. PatchInv'
  <2>1. CASE StartPatch(j)
    BY <1>1, <2>1, Lifetimes DEF StartPatch, PatchInv, Running
  <2>2. CASE PatchStops(j)
    BY <1>1, <2>2 DEF PatchStops, PatchInv, NoPatch, Running
  <2>3. ASSUME NEW a \in Accounts, CheckAccount(j, a) PROVE PatchInv'
    <3>1. Running(patch[j])
      BY <2>3 DEF CheckAccount, Running
    <3>2. CASE patch' = [patch EXCEPT ![j] = Done(patch[j], a)]
      BY <1>1, <3>1, <3>2, DoneKeeps DEF PatchInv
    <3>3. CASE patch' = [patch EXCEPT ![j] = [patch[j] EXCEPT !.stage = "put", !.at = a]]
      <4>1. PICK job : job = [patch[j] EXCEPT !.stage = "put", !.at = a]
        OBVIOUS
      <4>2. /\ job \in [stage : {"idle", "check", "put"}, began : Nat,
                        todo : SUBSET Accounts, at : Accounts \cup {None}]
            /\ job.began = patch[j].began
        BY <4>1 DEF PatchInv
      <4> QED
        BY <1>1, <3>1, <3>3, <4>1, <4>2 DEF PatchInv
    <3>4. patch' = [patch EXCEPT ![j] =
                       IF Present(a) THEN [patch[j] EXCEPT !.stage = "put", !.at = a]
                       ELSE Done(patch[j], a)]
      BY <2>3 DEF CheckAccount
    <3> QED
      BY <3>2, <3>3, <3>4
  <2> QED
    BY <2>1, <2>2, <2>3
<1> QED
  BY <1>1, <1>2, <1>3, AccountStays

\* A field that is written is no older than its job allows, expired hash or not.
LEMMA PatchKeeps ==
    ASSUME CacheInv, NEW j \in Patchers, NEW b \in Accounts, PatchAccount(j, b)
    PROVE  CacheInv'
<1> USE DEF CacheInv
<1>0. /\ clock \in Nat /\ patch[j].began \in Nat /\ clock <= patch[j].began + RunLimit
      /\ feat \in [Accounts -> [Fields -> Times]] /\ stamp \in [Accounts -> Times]
      /\ feat' = [feat EXCEPT ![b][j] = patch[j].began]
      /\ patch' = [patch EXCEPT ![j] = Done(@, b)]
      /\ UNCHANGED <<clock, stamp, dies, emb, nightly>>
  BY DEF PatchAccount, HashTypes, PatchInv, Running
<1>1. /\ j \in Fields /\ j # "core" /\ patch[j].began \in Times
  BY <1>0, Lifetimes DEF Times
<1>2. HashTypes'
  BY <1>0, <1>1 DEF HashTypes
<1>3. NightlyInv'
  BY <1>0 DEF NightlyInv
<1>4. PatchInv'
  <2>1. Running(patch[j])
    BY DEF PatchAccount, Running
  <2>2. patch' = [patch EXCEPT ![j] = Done(patch[j], b)]
    BY <1>0
  <2> QED
    BY <1>0, <2>1, <2>2, DoneKeeps DEF PatchInv
<1>5. \A a \in Accounts, f \in Fields :
         feat'[a][f] = IF a = b /\ f = j THEN patch[j].began ELSE feat[a][f]
  BY <1>0, <1>1
<1>6. ASSUME NEW a \in Accounts PROVE HashInv(a)' /\ ReadInv(a)' /\ EmbeddingInv(a)'
  <2>1. feat'[a]["core"] = feat[a]["core"]
    BY <1>1, <1>5, Lifetimes
  <2>2. HashInv(a)'
    <3>1. CASE stamp[a] = None
      BY <1>0, <2>1, <3>1 DEF HashInv
    <3>2. CASE stamp[a] # None
      <4>1. stamp[a] \in Nat /\ stamp[a] <= clock
        BY <1>0, <3>2 DEF HashInv, Times
      <4>2. ASSUME NEW f \in Fields
            PROVE  feat'[a][f] # None /\ stamp[a] <= feat'[a][f] + RunLimit
        BY <1>0, <1>5, <3>2, <4>1, Lifetimes DEF HashInv
      <4> QED
        BY <1>0, <2>1, <3>2, <4>2 DEF HashInv
    <3> QED
      BY <3>1, <3>2
  <2>3. ReadInv(a)' /\ EmbeddingInv(a)'
    BY <1>0, <2>1 DEF ReadInv, EmbeddingInv, Backs
  <2> QED
    BY <2>2, <2>3
<1> QED
  BY <1>2, <1>3, <1>4, <1>6

\* The refresh touches embeddings only, and marks them as its own.
LEMMA RefreshKeeps ==
    ASSUME CacheInv, StartRefresh \/ WriteRefresh \/ RefreshStops
    PROVE  CacheInv'
<1> USE DEF CacheInv
<1>1. UNCHANGED <<clock, feat, stamp, dies, nightly, patch>>
  BY DEF StartRefresh, WriteRefresh, RefreshStops
<1>2. HashTypes' /\ NightlyInv' /\ PatchInv'
  BY <1>1 DEF HashTypes, NightlyInv, PatchInv
<1>3. ASSUME NEW a \in Accounts PROVE emb'[a].by = "refresh" \/ emb'[a] = emb[a]
  BY DEF StartRefresh, WriteRefresh, RefreshStops, Embedded
<1>4. ASSUME NEW a \in Accounts PROVE HashInv(a)' /\ ReadInv(a)' /\ EmbeddingInv(a)'
  BY <1>1, <1>3 DEF HashInv, ReadInv, EmbeddingInv, Backs
<1> QED
  BY <1>2, <1>4

\* Every step preserves the invariant.
LEMMA CacheInvNext == CacheInv /\ [CacheNext]_cacheVars => CacheInv'
<1> SUFFICES ASSUME CacheInv, [CacheNext]_cacheVars PROVE CacheInv'
  OBVIOUS
<1>1. CASE UNCHANGED cacheVars
  BY <1>1, AccountStays DEF CacheInv, cacheVars, HashTypes, NightlyInv, PatchInv
<1>2. CASE CacheNext
  BY <1>2, HourKeeps, BatchKeeps, WriteKeeps, SaveKeeps, PatcherKeeps, PatchKeeps, RefreshKeeps
  DEF CacheNext
<1> QED
  BY <1>1, <1>2
-----------------------------------------------------------------------------
\* The invariant holds of every behaviour.
LEMMA CacheInvAlways == CacheSpec => []CacheInv
BY CacheInvInit, CacheInvNext, PTL DEF CacheSpec

\* The age the model is told is that of every field it gets, to within a job,
\* and a hash with an age is gone a lifetime after its batch
\* (feature_builder.py, redis_client.py, nightly_batch.py).
THEOREM StalenessIsHonest == CacheSpec => []StalenessHonest
<1>1. CacheInv => StalenessHonest
  <2> SUFFICES ASSUME CacheInv, NEW a \in Accounts
               PROVE  IF Staleness(a) = None THEN feat[a]["core"] = None
                      ELSE /\ \A f \in Fields :
                                 /\ feat[a][f] # None
                                 /\ clock - feat[a][f] <= Staleness(a) + RunLimit
                           /\ dies[a] # None
                           /\ clock - feat[a]["core"] <= Lifetime + RunLimit
    BY DEF StalenessHonest
  <2>1. /\ HashInv(a) /\ clock \in Nat /\ stamp[a] \in Times /\ dies[a] \in Times
        /\ \A f \in Fields : feat[a][f] \in Times
    BY DEF CacheInv, HashTypes
  <2>2. CASE stamp[a] = None
    BY <2>1, <2>2 DEF HashInv, Staleness
  <2>3. CASE stamp[a] # None
    <3>1. /\ stamp[a] \in Nat /\ Staleness(a) = clock - stamp[a] /\ clock - stamp[a] # None
          /\ feat[a]["core"] \in Nat /\ dies[a] \in Nat
          /\ \A f \in Fields : feat[a][f] \in Nat
      BY <2>1, <2>3, Lifetimes DEF HashInv, Staleness, Times
    <3> QED
      BY <2>1, <2>3, <3>1, Lifetimes DEF HashInv
  <2> QED
    BY <2>2, <2>3
<1> QED
  BY <1>1, CacheInvAlways, PTL

\* What the batch embedded from its own hash always has that hash, or a later
\* one, beside it (gnn_embedder.py, redis_client.py).
THEOREM EmbeddingsAreBacked == CacheSpec => []EmbeddingBacked
<1>1. CacheInv => EmbeddingBacked
  <2> SUFFICES ASSUME CacheInv, NEW a \in Accounts,
                      emb[a].by = "nightly", emb[a].core = emb[a].batch
               PROVE  feat[a]["core"] # None /\ feat[a]["core"] >= emb[a].core
    BY DEF EmbeddingBacked
  <2>1. emb[a].core \in Nat /\ Backs(a, emb[a].core) /\ feat[a]["core"] \in Times
    BY Lifetimes DEF CacheInv, EmbeddingInv, HashTypes
  <2> QED
    BY <2>1 DEF Backs, Times
<1> QED
  BY <1>1, CacheInvAlways, PTL
-----------------------------------------------------------------------------
(* The types.                                                              *)

\* What the run explores behaves like either part on its own.
LEMMA RedisIsBoth == RedisSpec => WindowSpec /\ CacheSpec
<1>1. RedisInit => WindowInit /\ CacheInit
  BY DEF RedisInit
<1>2. [RedisNext]_RedisVars => [WindowNext]_windowVars /\ [CacheNext]_cacheVars
  BY DEF RedisNext, RedisVars, windowVars, cacheVars
<1> QED
  BY <1>1, <1>2, PTL DEF RedisSpec, WindowSpec, CacheSpec

\* A volume is a number.
LEMMA TotalIsNat ==
    ASSUME NEW P, P \subseteq Payments
    PROVE  Total(P) \in Nat
<1>1. Total(P) = SumFold!Fold(0, AmountOf, P)
  BY Zenon DEF Total, MapThenSumSet, SumFold!Fold, MapThenFoldSet, SumFold!MapThenFoldSet, AnyOf
<1>2. SumFold!IsFiniteSet(P)
  <2>1. IsFiniteSet(P)
    BY WindowAssumption, FS_Subset
  <2> QED
    BY <2>1 DEF IsFiniteSet, SumFold!IsFiniteSet
<1>3. SumFold!Picks(P)
  BY Zenon DEF SumFold!Picks, AnyOf
<1>4. \A p \in P, y \in Nat : AmountOf[p] + y \in Nat
  BY WindowAssumption
<1> HIDE DEF AnyOf
<1>5. SumFold!Fold(0, AmountOf, P) \in Nat
  BY <1>2, <1>3, <1>4, SumFold!FoldStays
<1> QED
  BY <1>1, <1>5

\* What a reader is told, and what was true, are numbers.
LEMMA RepliesAreAnswers ==
    ASSUME NEW q \in Readers, NEW left, left \subseteq Payments
    PROVE  Reply(q, left) \in Answers
<1>1. IsFiniteSet(left)
  BY WindowAssumption, FS_Subset
<1>2. Cardinality(left) \in Nat
  BY <1>1, FS_CardinalityType
<1>3. Total({p \in left : paidAt[p] <= askedAt[q]}) \in Nat
  BY TotalIsNat
<1> QED
  BY <1>2, <1>3 DEF Reply, Answers

\* It holds at the start.
LEMMA WindowTypeOKInit == WindowInit => WindowTypeOK
<1>1. (CHOOSE k \in Keys : TRUE) \in Keys
  BY WindowAssumption
<1> QED
  BY <1>1, WindowAssumption DEF WindowInit, WindowTypeOK, Answers, Recorded

\* Every step preserves the types of the windows.
LEMMA WindowTypeOKNext ==
    WindowTypeOK /\ DOMAIN answer = Readers /\ [WindowNext]_windowVars => WindowTypeOK'
<1> SUFFICES ASSUME WindowTypeOK, DOMAIN answer = Readers, [WindowNext]_windowVars
             PROVE  WindowTypeOK'
  OBVIOUS
<1> USE WindowAssumption DEF WindowTypeOK
<1>1. CASE Pass
  BY <1>1 DEF Pass, Recorded
<1>2. ASSUME NEW p \in Payments, StampPayment(p) PROVE WindowTypeOK'
  <2>1. Recorded' = Recorded
    BY <1>2 DEF StampPayment, Recorded
  <2> QED
    BY <1>2, <2>1 DEF StampPayment
<1>3. ASSUME NEW p \in Payments, Increment(p) PROVE WindowTypeOK'
  <2>1. Recorded' = Recorded \cup {p}
    BY <1>3 DEF Increment, Recorded
  <2>2. \A k \in Keys : time + Expiry[k] \in Nat
    OBVIOUS
  <2> QED
    BY <1>3, <2>1, <2>2 DEF Increment
<1>4. ASSUME NEW q \in Readers, StampReader(q) PROVE WindowTypeOK'
  BY <1>4 DEF StampReader, Recorded
<1>5. ASSUME NEW q \in Readers, Read(q) PROVE WindowTypeOK'
  <2>1. Trimmed(q) \subseteq zset[window[q]] /\ Trimmed(q) \subseteq Payments
    BY DEF Trimmed
  <2>2. Reply(q, Trimmed(q)) \in Answers
    BY <2>1, RepliesAreAnswers
  <2> HIDE DEF Trimmed, Reply
  <2>3. \A r \in Readers : answer'[r] \in Answers
    BY <1>5, <2>2 DEF Read
  <2>4. \A k \in Keys : zset'[k] \subseteq zset[k]
    BY <1>5, <2>1 DEF Read
  <2>5. zset' \in [Keys -> SUBSET Payments]
    BY <1>5, <2>1 DEF Read
  <2> QED
    BY <1>5, <2>3, <2>4, <2>5 DEF Read, Recorded
<1>6. CASE UNCHANGED windowVars
  BY <1>6 DEF windowVars, Recorded
<1> QED
  BY <1>1, <1>2, <1>3, <1>4, <1>5, <1>6 DEF WindowNext

\* The types of the velocity windows (redis_client.py).
LEMMA WindowTypesCorrect == WindowSpec => []WindowTypeOK
<1>1. ReaderInv => DOMAIN answer = Readers
  BY DEF ReaderInv, Asked
<1> QED
  BY WindowTypeOKInit, WindowTypeOKNext, WindowInvInit, WindowInvNext, ReaderInvInit,
     ReaderInvNext, <1>1, PTL DEF WindowSpec

\* It holds at the start.
LEMMA CacheTypeOKInit == CacheInit => CacheTypeOK
<1> SUFFICES ASSUME CacheInit PROVE CacheTypeOK
  OBVIOUS
<1> USE CacheAssumption DEF CacheInit, Hours, Maybe
<1>1. /\ feat \in [Accounts -> [Fields -> Maybe(Hours)]]
      /\ stamp \in [Accounts -> Maybe(Hours)]
      /\ dies \in [Accounts -> Maybe(0..(LastHour + Lifetime))]
  BY DEF NoHash
<1> QED
  BY <1>1 DEF CacheTypeOK, NoEmbedding, NoBatch, NoPatch, NoRefresh, IsRead

\* What an embedding job reads of the hashes.
LEMMA HashesAreRead ==
    ASSUME CacheTypeOK, NEW S, S \subseteq Accounts
    PROVE  IsRead(ReadHashes(S))
BY DEF CacheTypeOK, ReadHashes, IsRead, Fields

\* The types of the embeddings that are written.
LEMMA EmbeddedTypes ==
    ASSUME CacheTypeOK, NEW read, IsRead(read), NEW by \in {"nightly", "refresh"},
           NEW batch \in Maybe(Hours), emb' = Embedded(read, by, batch)
    PROVE  \A a \in Accounts :
               /\ emb'[a].by \in {"none", "nightly", "refresh"}
               /\ emb'[a].batch \in Maybe(Hours) /\ emb'[a].core \in Maybe(Hours)
               /\ emb'[a].dies \in 0..(LastHour + EmbLifetime)
<1> SUFFICES ASSUME NEW a \in Accounts
             PROVE  /\ emb'[a].by \in {"none", "nightly", "refresh"}
                    /\ emb'[a].batch \in Maybe(Hours) /\ emb'[a].core \in Maybe(Hours)
                    /\ emb'[a].dies \in 0..(LastHour + EmbLifetime)
  OBVIOUS
<1>1. CASE a \in DOMAIN read
  <2>1. emb'[a] = [by |-> by, batch |-> batch, core |-> read[a], dies |-> clock + EmbLifetime]
    BY <1>1 DEF Embedded
  <2>2. read[a] \in Maybe(Hours)
    BY <1>1 DEF IsRead
  <2>3. clock + EmbLifetime \in 0..(LastHour + EmbLifetime)
    BY CacheAssumption DEF CacheTypeOK, Hours
  <2> QED
    BY <2>1, <2>2, <2>3
<1>2. CASE a \notin DOMAIN read
  <2>1. emb'[a] = emb[a]
    BY <1>2 DEF Embedded
  <2> QED
    BY <2>1 DEF CacheTypeOK
<1> QED
  BY <1>1, <1>2

\* A patching job that goes on or is done has the types of one.
LEMMA PatchTypes ==
    ASSUME CacheTypeOK, PatchInv, NEW j \in Patchers, NEW job,
           job \in [stage : {"idle", "check", "put"}, began : Hours,
                    todo : SUBSET Accounts, at : Accounts \cup {None}],
           patch' = [patch EXCEPT ![j] = job]
    PROVE  \A k \in Patchers :
               /\ patch'[k].stage \in {"idle", "check", "put"}
               /\ patch'[k].began \in Hours
               /\ patch'[k].todo \subseteq Accounts /\ patch'[k].at \in Maybe(Accounts)
<1>1. \A k \in Patchers : patch'[k] = IF k = j THEN job ELSE patch[k]
  BY DEF PatchInv
<1> QED
  BY <1>1 DEF CacheTypeOK, Maybe

\* Every step preserves the types of the cache.
LEMMA CacheTypeOKNext == CacheTypeOK /\ CacheInv /\ [CacheNext]_cacheVars => CacheTypeOK'
<1> SUFFICES ASSUME CacheTypeOK, CacheInv, [CacheNext]_cacheVars PROVE CacheTypeOK'
  OBVIOUS
<1> USE DEF CacheTypeOK
<1>0. /\ NightlyInv /\ PatchInv /\ clock \in Hours /\ None \in Maybe(Hours)
      /\ 0 \in Hours /\ None \in Maybe(Accounts) /\ Hours \subseteq Maybe(Hours)
  BY CacheAssumption DEF CacheInv, Hours, Maybe
<1>1. CASE Hour
  <2>1. /\ clock' \in Hours
        /\ UNCHANGED <<nightly, runs, patch, refresh, leiden>>
    BY <1>1, CacheAssumption DEF Hour, Hours
  <2>2. /\ feat' \in [Accounts -> [Fields -> Maybe(Hours)]]
        /\ stamp' \in [Accounts -> Maybe(Hours)]
        /\ dies' \in [Accounts -> Maybe(0..(LastHour + Lifetime))]
    <3>1. /\ NoHash \in [Fields -> Maybe(Hours)]
          /\ None \in Maybe(0..(LastHour + Lifetime))
      BY <1>0 DEF NoHash, Maybe
    <3> QED
      BY <1>0, <1>1, <3>1 DEF Hour
  <2>3. ASSUME NEW a \in Accounts
        PROVE  /\ emb'[a].by \in {"none", "nightly", "refresh"}
               /\ emb'[a].batch \in Maybe(Hours) /\ emb'[a].core \in Maybe(Hours)
               /\ emb'[a].dies \in 0..(LastHour + EmbLifetime)
    <3>1. emb'[a] = NoEmbedding \/ emb'[a] = emb[a]
      BY <1>1 DEF Hour
    <3>2. CASE emb'[a] = NoEmbedding
      BY <1>0, <3>2, CacheAssumption DEF NoEmbedding
    <3> QED
      BY <3>1, <3>2
  <2> QED
    BY <2>1, <2>2, <2>3
<1>2. CASE StartNightly
  <2>1. /\ runs' \in 0..MaxRuns /\ nightly'.stage = "computing" /\ nightly'.began = clock
        /\ nightly'.stamp = 0 /\ nightly'.todo \subseteq Accounts /\ nightly'.read = <<>>
    BY <1>2, CacheAssumption DEF StartNightly
  <2> QED
    BY <1>0, <1>2, <2>1 DEF StartNightly, IsRead
<1>3. CASE Computed
  BY <1>0, <1>3 DEF Computed, NightlyInv
<1>4. CASE AccountsWritten
  BY <1>0, <1>4, CacheAssumption DEF AccountsWritten, NightlyInv
<1>5. CASE ReadBack
  <2>1. PICK nodes \in SUBSET Accounts :
           nightly' = [nightly EXCEPT !.stage = "saving", !.read = ReadHashes(nodes)]
    BY <1>5 DEF ReadBack
  <2>2. IsRead(ReadHashes(nodes))
    BY HashesAreRead
  <2>3. /\ nightly'.stage = "saving" /\ nightly'.began = nightly.began
        /\ nightly'.stamp = nightly.stamp /\ nightly'.todo = nightly.todo
        /\ nightly'.read = ReadHashes(nodes)
    BY <1>0, <2>1 DEF NightlyInv
  <2> QED
    BY <1>5, <2>2, <2>3 DEF ReadBack, IsRead
<1>6. CASE SaveEmbeddings
  <2>1. \A a \in Accounts :
            /\ emb'[a].by \in {"none", "nightly", "refresh"}
            /\ emb'[a].batch \in Maybe(Hours) /\ emb'[a].core \in Maybe(Hours)
            /\ emb'[a].dies \in 0..(LastHour + EmbLifetime)
    <3>1. emb' = Embedded(nightly.read, "nightly", nightly.began)
      BY <1>6 DEF SaveEmbeddings
    <3>2. IsRead(nightly.read) /\ nightly.began \in Maybe(Hours)
      BY <1>0
    <3> QED
      BY <3>1, <3>2, EmbeddedTypes
  <2> QED
    BY <1>0, <1>6, <2>1 DEF SaveEmbeddings, NoBatch, IsRead
<1>7. CASE NightlyStops
  BY <1>0, <1>7 DEF NightlyStops, NoBatch, IsRead
<1>8. ASSUME NEW a \in Accounts, WriteAccount(a) PROVE CacheTypeOK'
  <2>1. /\ feat' = [feat EXCEPT ![a] = [f \in Fields |-> nightly.began]]
        /\ stamp' = [stamp EXCEPT ![a] = nightly.stamp]
        /\ dies' = [dies EXCEPT ![a] = clock + Lifetime]
        /\ UNCHANGED <<clock, emb, runs, patch, refresh, leiden>>
        /\ nightly' = [nightly EXCEPT !.todo = @ \ {a}]
    BY <1>8 DEF WriteAccount
  <2>2. /\ [f \in Fields |-> nightly.began] \in [Fields -> Maybe(Hours)]
        /\ nightly.stamp \in Maybe(Hours)
        /\ clock + Lifetime \in Maybe(0..(LastHour + Lifetime))
    BY <1>0, CacheAssumption DEF Hours, Maybe
  <2>3. /\ feat' \in [Accounts -> [Fields -> Maybe(Hours)]]
        /\ stamp' \in [Accounts -> Maybe(Hours)]
        /\ dies' \in [Accounts -> Maybe(0..(LastHour + Lifetime))]
    BY <2>1, <2>2
  <2>4. /\ nightly'.stage = nightly.stage /\ nightly'.began = nightly.began
        /\ nightly'.stamp = nightly.stamp /\ nightly'.todo \subseteq nightly.todo
        /\ nightly'.read = nightly.read
    BY <1>0, <2>1 DEF NightlyInv
  <2> QED
    BY <2>1, <2>3, <2>4 DEF IsRead
<1>9. ASSUME NEW a \in Accounts, WriteAccountFails(a) PROVE CacheTypeOK'
  <2>1. /\ nightly'.stage = nightly.stage /\ nightly'.began = nightly.began
        /\ nightly'.stamp = nightly.stamp /\ nightly'.todo \subseteq nightly.todo
        /\ nightly'.read = nightly.read
    BY <1>0, <1>9 DEF WriteAccountFails, NightlyInv
  <2> QED
    BY <1>9, <2>1 DEF WriteAccountFails, IsRead
<1>10. ASSUME NEW j \in Patchers, NEW job,
              job \in [stage : {"idle", "check", "put"}, began : Hours,
                       todo : SUBSET Accounts, at : Accounts \cup {None}],
              patch' = [patch EXCEPT ![j] = job],
              feat' \in [Accounts -> [Fields -> Maybe(Hours)]],
              UNCHANGED <<clock, stamp, dies, emb, nightly, runs, refresh, leiden>>
       PROVE  CacheTypeOK'
  <2>1. \A k \in Patchers :
            /\ patch'[k].stage \in {"idle", "check", "put"}
            /\ patch'[k].began \in Hours
            /\ patch'[k].todo \subseteq Accounts /\ patch'[k].at \in Maybe(Accounts)
    BY ONLY <1>0, <1>10, CacheTypeOK, PatchTypes
  <2> QED
    BY <1>10, <2>1 DEF IsRead
<1>11. ASSUME NEW j \in Patchers, NEW a
       PROVE  Done(patch[j], a) \in [stage : {"idle", "check", "put"}, began : Hours,
                                     todo : SUBSET Accounts, at : Accounts \cup {None}]
  <2>1. patch[j] \in [stage : {"idle", "check", "put"}, began : Hours,
                      todo : SUBSET Accounts, at : Accounts \cup {None}]
    BY <1>0 DEF PatchInv, Maybe
  <2> QED
    BY <1>0, <2>1 DEF Done, NoPatch
<1>12. ASSUME NEW j \in Patchers, StartPatch(j) PROVE CacheTypeOK'
  <2>1. PICK todo \in SUBSET Accounts :
           patch' = [patch EXCEPT ![j] =
                        [stage |-> "check", began |-> clock, todo |-> todo, at |-> None]]
    BY <1>12 DEF StartPatch
  <2> QED
    BY <1>0, <1>10, <1>12, <2>1 DEF StartPatch
<1>13. ASSUME NEW j \in Patchers, PatchStops(j) PROVE CacheTypeOK'
  <2>1. NoPatch \in [stage : {"idle", "check", "put"}, began : Hours,
                     todo : SUBSET Accounts, at : Accounts \cup {None}]
    BY <1>0 DEF NoPatch
  <2> QED
    BY <1>10, <1>13, <2>1 DEF PatchStops
<1>14. ASSUME NEW j \in Patchers, NEW a \in Accounts, CheckAccount(j, a) PROVE CacheTypeOK'
  <2>1. PICK job : /\ patch' = [patch EXCEPT ![j] = job]
                   /\ job \in {[patch[j] EXCEPT !.stage = "put", !.at = a], Done(patch[j], a)}
    BY <1>14 DEF CheckAccount
  <2>2. [patch[j] EXCEPT !.stage = "put", !.at = a]
           \in [stage : {"idle", "check", "put"}, began : Hours,
                todo : SUBSET Accounts, at : Accounts \cup {None}]
    <3>1. PICK put : put = patch[j]
      OBVIOUS
    <3>2. put \in [stage : {"idle", "check", "put"}, began : Hours,
                   todo : SUBSET Accounts, at : Accounts \cup {None}]
      BY <1>0, <3>1 DEF PatchInv, Maybe
    <3>3. [put EXCEPT !.stage = "put", !.at = a]
             \in [stage : {"idle", "check", "put"}, began : Hours,
                  todo : SUBSET Accounts, at : Accounts \cup {None}]
      BY <3>2
    <3> QED
      BY <3>1, <3>3
  <2> QED
    BY <1>10, <1>11, <1>14, <2>1, <2>2 DEF CheckAccount
<1>15. ASSUME NEW j \in Patchers, NEW a \in Accounts, PatchAccount(j, a) PROVE CacheTypeOK'
  <2>1. feat' \in [Accounts -> [Fields -> Maybe(Hours)]]
    <3>1. patch[j].began \in Maybe(Hours) /\ feat' = [feat EXCEPT ![a][j] = patch[j].began]
      BY <1>0, <1>15 DEF PatchAccount
    <3> QED
      BY <3>1
  <2>2. patch' = [patch EXCEPT ![j] = Done(patch[j], a)]
    BY <1>15 DEF PatchAccount
  <2> QED
    BY <1>10, <1>11, <1>15, <2>1, <2>2 DEF PatchAccount
<1>16. CASE StartRefresh
  <2>1. PICK recent \in SUBSET Accounts :
           refresh' = [stage |-> "read", began |-> clock, read |-> ReadHashes(recent)]
    BY <1>16 DEF StartRefresh
  <2>2. IsRead(ReadHashes(recent))
    BY HashesAreRead
  <2> QED
    BY <1>0, <1>16, <2>1, <2>2 DEF StartRefresh, IsRead
<1>17. CASE WriteRefresh
  <2>1. \A a \in Accounts :
            /\ emb'[a].by \in {"none", "nightly", "refresh"}
            /\ emb'[a].batch \in Maybe(Hours) /\ emb'[a].core \in Maybe(Hours)
            /\ emb'[a].dies \in 0..(LastHour + EmbLifetime)
    <3>1. emb' = Embedded(refresh.read, "refresh", None)
      BY <1>17 DEF WriteRefresh
    <3> QED
      BY <1>0, <3>1, EmbeddedTypes
  <2> QED
    BY <1>0, <1>17, <2>1 DEF WriteRefresh, NoRefresh, IsRead
<1>18. CASE RefreshStops
  BY <1>0, <1>18 DEF RefreshStops, NoRefresh, IsRead
<1>19. CASE UNCHANGED cacheVars
  BY <1>19 DEF cacheVars, IsRead
<1> QED
  BY <1>1, <1>2, <1>3, <1>4, <1>5, <1>6, <1>7, <1>8, <1>9, <1>12, <1>13, <1>14, <1>15,
     <1>16, <1>17, <1>18, <1>19 DEF CacheNext

\* The types of the feature cache (nightly_batch.py).
LEMMA CacheTypesCorrect == CacheSpec => []CacheTypeOK
BY CacheTypeOKInit, CacheTypeOKNext, CacheInvInit, CacheInvNext, PTL DEF CacheSpec

\* Times, hashes, embeddings and jobs have their types in everything the two
\* parts do (redis_client.py, nightly_batch.py).
THEOREM RedisTypesCorrect == RedisSpec => []RedisTypeOK
<1>1. WindowTypeOK /\ CacheTypeOK => RedisTypeOK
  BY DEF RedisTypeOK
<1> QED
  BY RedisIsBoth, WindowTypesCorrect, CacheTypesCorrect, <1>1, PTL
=============================================================================
