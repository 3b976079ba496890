------------------------ MODULE PrototypeVaultProofs ------------------------
(***************************************************************************)
(* Theorems about PrototypeVault, for every set of workers, prototypes and *)
(* scores, every cap and every bound.                                      *)
(***************************************************************************)
EXTENDS PrototypeVault, TLAPS

-----------------------------------------------------------------------------
(* Lemmas about a vault and its labels.                                    *)

\* What Rest returns: nothing of nothing, everything but the first otherwise.
LEMMA RestType ==
    ASSUME NEW S, NEW s \in Seq(S)
    PROVE  /\ Rest(s) \in Seq(S)
           /\ Len(s) >= 1 => Len(Rest(s)) = Len(s) - 1
           /\ Len(s) = 0 => Rest(s) = s
           /\ \A i \in 1 .. Len(Rest(s)) : Rest(s)[i] = s[i + 1]
<1>1. CASE s = <<>>
  BY <1>1 DEF Rest
<1>2. CASE s # <<>>
  <2>1. Len(s) >= 1 /\ Rest(s) = Tail(s)
    BY <1>2 DEF Rest
  <2> QED
    BY <2>1
<1> QED
  BY <1>1, <1>2

\* The labels of a vault, one for each vector.
LEMMA LabelsOfType ==
    ASSUME NEW v \in Seq(Prototypes)
    PROVE  /\ LabelsOf(v) \in Seq({0, 1})
           /\ Len(LabelsOf(v)) = Len(v)
           /\ \A i \in 1 .. Len(v) : LabelsOf(v)[i] = LabelOf[v[i]]
<1>1. \A i \in 1 .. Len(v) : LabelOf[v[i]] \in {0, 1}
  BY VaultAssumption
<1> QED
  BY <1>1 DEF LabelsOf

\* Dropping the oldest vector and dropping the oldest label go together.
LEMMA LabelsOfRest ==
    ASSUME NEW v \in Seq(Prototypes)
    PROVE  LabelsOf(Rest(v)) = Rest(LabelsOf(v))
<1> DEFINE L == LabelsOf(v)
<1> DEFINE M == LabelsOf(Rest(v))
<1>1. L \in Seq({0, 1}) /\ Len(L) = Len(v)
  BY LabelsOfType
<1>2. Rest(v) \in Seq(Prototypes)
  BY RestType
<1>3. /\ M \in Seq({0, 1}) /\ Len(M) = Len(Rest(v))
      /\ \A i \in 1 .. Len(Rest(v)) : M[i] = LabelOf[Rest(v)[i]]
  BY <1>2, LabelsOfType
<1>4. \A i \in 1 .. Len(v) : L[i] = LabelOf[v[i]]
  BY LabelsOfType
<1> HIDE DEF L, M
<1>5. Rest(L) \in Seq({0, 1}) /\ Len(Rest(L)) = Len(M)
  BY <1>1, <1>3, RestType
<1>6. ASSUME NEW i \in 1 .. Len(M) PROVE M[i] = Rest(L)[i]
  <2>1. i + 1 \in 1 .. Len(v) /\ Rest(v)[i] = v[i + 1]
    BY <1>3, RestType
  <2>2. Rest(L)[i] = L[i + 1]
    BY <1>1, <1>5, RestType
  <2> QED
    BY <1>3, <1>4, <2>1, <2>2
<1>7. M = Rest(L)
  BY <1>3, <1>5, <1>6
<1> QED
  BY <1>7 DEF L, M

\* Adding a vector and adding its label go together.
LEMMA LabelsOfAppend ==
    ASSUME NEW v \in Seq(Prototypes), NEW p \in Prototypes
    PROVE  LabelsOf(Append(v, p)) = Append(LabelsOf(v), LabelOf[p])
<1> DEFINE L == LabelsOf(v)
<1> DEFINE M == LabelsOf(Append(v, p))
<1>1. Append(v, p) \in Seq(Prototypes) /\ Len(Append(v, p)) = Len(v) + 1
  OBVIOUS
<1>2. LabelOf[p] \in {0, 1}
  BY VaultAssumption
<1>3. /\ L \in Seq({0, 1}) /\ Len(L) = Len(v)
      /\ \A i \in 1 .. Len(v) : L[i] = LabelOf[v[i]]
  BY LabelsOfType
<1>4. /\ M \in Seq({0, 1}) /\ Len(M) = Len(v) + 1
      /\ \A i \in 1 .. Len(v) + 1 : M[i] = LabelOf[Append(v, p)[i]]
  BY <1>1, LabelsOfType
<1> HIDE DEF L, M
<1>5. \A i \in 1 .. Len(v) + 1 : M[i] = Append(L, LabelOf[p])[i]
  BY <1>2, <1>3, <1>4
<1>6. M = Append(L, LabelOf[p])
  BY <1>2, <1>3, <1>4, <1>5
<1> QED
  BY <1>6 DEF L, M

-----------------------------------------------------------------------------
(* Type correctness.                                                       *)

\* It holds at the start.
LEMMA InitTypeOK == Init => TypeOK
<1> SUFFICES ASSUME Init PROVE TypeOK
  OBVIOUS
<1>1. InitialVault \in Seq(Prototypes) /\ LabelsOf(InitialVault) \in Seq({0, 1})
  BY LabelsOfType, VaultAssumption
<1>2. score \in [Scores -> ScoreStates] /\ hits \in [Scores -> SUBSET (Nat \X Prototypes)]
  BY DEF Init, ScoreStates
<1>3. pc \in [Workers -> Steps]
  BY DEF Init, Steps
<1>4. injections \in 0 .. MaxInjections /\ faults \in 0 .. MaxFaults
  BY VaultAssumption DEF Init
<1> QED
  BY <1>1, <1>2, <1>3, <1>4 DEF Init, TypeOK

\* Every step keeps it.
LEMMA StepTypeOK == TypeOK /\ [Next]_vars => TypeOK'
<1> SUFFICES ASSUME TypeOK, [Next]_vars PROVE TypeOK'
  OBVIOUS
<1> USE VaultAssumption DEF TypeOK, Steps, Persisting, Loading, memory, files, scoring,
                            history, Goto
<1>1. ASSUME NEW w \in Workers, Inject(w) PROVE TypeOK'
  <2>1. Rest(labels[w]) \in Seq({0, 1})
    BY RestType
  <2>2. labels' \in [Workers -> Seq({0, 1})]
    BY <1>1, <2>1 DEF Inject
  <2>3. current' \in [Workers -> Prototypes] /\ overtaken' \subseteq Scores
    BY <1>1 DEF Inject
  <2>4. pc' \in [Workers -> Steps]
    BY <1>1 DEF Inject
  <2>5. injections' \in 0 .. MaxInjections
    BY <1>1 DEF Inject
  <2> QED
    BY <1>1, <2>2, <2>3, <2>4, <2>5 DEF Inject
<1>2. ASSUME NEW w \in Workers, SwapIndex(w) PROVE TypeOK'
  <2>1. Rest(index[w]) \in Seq(Prototypes)
    BY RestType
  <2> QED
    BY <1>2, <2>1 DEF SwapIndex
<1>3. ASSUME NEW w \in Workers, AddVector(w) PROVE TypeOK'
  BY <1>3 DEF AddVector
<1>4. ASSUME NEW w \in Workers, AddLabel(w) PROVE TypeOK'
  BY <1>4 DEF AddLabel
<1>5. ASSUME NEW w \in Workers, StartIndexWrite(w) PROVE TypeOK'
  BY <1>5 DEF StartIndexWrite, Open
<1>6. ASSUME NEW w \in Workers, FinishIndexWrite(w) PROVE TypeOK'
  BY <1>6 DEF FinishIndexWrite, Closed
<1>7. ASSUME NEW w \in Workers, StartLabelsWrite(w) PROVE TypeOK'
  BY <1>7 DEF StartLabelsWrite, Open
<1>8. ASSUME NEW w \in Workers, FinishLabelsWrite(w) PROVE TypeOK'
  BY <1>8 DEF FinishLabelsWrite, Closed
<1>9. ASSUME NEW w \in Workers, WriteFails(w) PROVE TypeOK'
  BY <1>9 DEF WriteFails
<1>10. ASSUME NEW w \in Workers, Restart(w) PROVE TypeOK'
  <2>1. score' \in [Scores -> ScoreStates]
    BY <1>10 DEF Restart, ScoreStates
  <2> QED
    BY <1>10, <2>1 DEF Restart
<1>11. ASSUME NEW w \in Workers, LoadIndex(w) PROVE TypeOK'
  BY <1>11 DEF LoadIndex
<1>12. ASSUME NEW w \in Workers, LoadLabels(w) PROVE TypeOK'
  BY <1>12 DEF LoadLabels
<1>13. ASSUME NEW w \in Workers, NEW s \in Scores, Search(s, w) PROVE TypeOK'
  <2>1. score' \in [Scores -> ScoreStates]
    BY <1>13 DEF Search, ScoreStates
  <2>2. hits' \in [Scores -> SUBSET (Nat \X Prototypes)]
    BY <1>13 DEF Search
  <2> QED
    BY <1>13, <2>1, <2>2 DEF Search
<1>14. ASSUME NEW w \in Workers, NEW s \in Scores, ReadLabels(s, w) PROVE TypeOK'
  <2>1. score' \in [Scores -> ScoreStates]
    BY <1>14 DEF ReadLabels, ScoreStates
  <2> QED
    BY <1>14, <2>1 DEF ReadLabels
<1>15. CASE UNCHANGED vars
  BY <1>15 DEF vars
<1>16. ASSUME NEW w \in Workers, InjectionFails(w) PROVE TypeOK'
  BY <1>16 DEF InjectionFails
<1> QED
  BY <1>1, <1>2, <1>3, <1>4, <1>5, <1>6, <1>7, <1>8, <1>9, <1>10, <1>11, <1>12, <1>13,
     <1>14, <1>15, <1>16 DEF Next, Injecting

\* The vault's state keeps its types for every cap and every set of workers:
\* in particular no unreadable file ever reaches a worker's memory (load).
THEOREM TypeCorrect == Spec => []TypeOK
<1> QED
  BY InitTypeOK, StepTypeOK, PTL DEF Spec

-----------------------------------------------------------------------------
(* The size of a vault.  An injection that has not yet added its vector has *)
(* room for it: that is what makes the bound inductive.                    *)

SizeInv ==
    /\ SizeBounded
    /\ \A w \in Workers :
          /\ pc[w] = "evicting" => Len(index[w]) >= 2
          /\ pc[w] = "room" => Bounded(Len(index[w]) + 1)

\* It holds at the start.
LEMMA InitSizeInv == Init => SizeInv
<1> QED
  BY VaultAssumption DEF Init, SizeInv, SizeBounded, Bounded

\* Every step keeps it.
LEMMA StepSizeInv == TypeOK /\ SizeInv /\ [Next]_vars => SizeInv'
<1> SUFFICES ASSUME TypeOK, SizeInv, [Next]_vars PROVE SizeInv'
  OBVIOUS
<1> USE VaultAssumption DEF TypeOK, SizeInv, SizeBounded, Steps, Persisting, Loading, memory,
                            files, scoring, history, Goto
<1>1. ASSUME NEW w \in Workers, Inject(w) PROVE SizeInv'
  <2>1. CASE Len(index[w]) >= Cap /\ Len(index[w]) >= 2
    BY <1>1, <2>1 DEF Inject
  <2>2. CASE ~(Len(index[w]) >= Cap /\ Len(index[w]) >= 2)
    <3>1. Bounded(Len(index[w]) + 1)
      BY <2>2 DEF Bounded
    <3> QED
      BY <1>1, <2>2, <3>1 DEF Inject
  <2> QED
    BY <2>1, <2>2
<1>2. ASSUME NEW w \in Workers, SwapIndex(w) PROVE SizeInv'
  <2>1. Len(Rest(index[w])) = Len(index[w]) - 1 /\ Len(index[w]) \in Nat
    BY <1>2, RestType DEF SwapIndex
  <2>2. Bounded(Len(Rest(index[w]))) /\ Bounded(Len(Rest(index[w])) + 1)
    BY <2>1 DEF Bounded
  <2> QED
    BY <1>2, <2>2 DEF SwapIndex
<1>3. ASSUME NEW w \in Workers, AddVector(w) PROVE SizeInv'
  <2>1. Len(Append(index[w], current[w])) = Len(index[w]) + 1
    OBVIOUS
  <2> QED
    BY <1>3, <2>1 DEF AddVector
<1>4. ASSUME NEW w \in Workers, AddLabel(w) PROVE SizeInv'
  BY <1>4 DEF AddLabel
<1>5. ASSUME NEW w \in Workers, StartIndexWrite(w) PROVE SizeInv'
  BY <1>5 DEF StartIndexWrite
<1>6. ASSUME NEW w \in Workers, FinishIndexWrite(w) PROVE SizeInv'
  BY <1>6 DEF FinishIndexWrite, Closed
<1>7. ASSUME NEW w \in Workers, StartLabelsWrite(w) PROVE SizeInv'
  BY <1>7 DEF StartLabelsWrite
<1>8. ASSUME NEW w \in Workers, FinishLabelsWrite(w) PROVE SizeInv'
  BY <1>8 DEF FinishLabelsWrite
<1>9. ASSUME NEW w \in Workers, WriteFails(w) PROVE SizeInv'
  BY <1>9 DEF WriteFails
<1>10. ASSUME NEW w \in Workers, Restart(w) PROVE SizeInv'
  <2>1. Bounded(Len(<<>>))
    BY DEF Bounded
  <2> QED
    BY <1>10, <2>1 DEF Restart
<1>11. ASSUME NEW w \in Workers, LoadIndex(w) PROVE SizeInv'
  BY <1>11 DEF LoadIndex
<1>12. ASSUME NEW w \in Workers, LoadLabels(w) PROVE SizeInv'
  BY <1>12 DEF LoadLabels
<1>13. ASSUME NEW w \in Workers, NEW s \in Scores, Search(s, w) PROVE SizeInv'
  BY <1>13 DEF Search
<1>14. ASSUME NEW w \in Workers, NEW s \in Scores, ReadLabels(s, w) PROVE SizeInv'
  BY <1>14 DEF ReadLabels
<1>15. CASE UNCHANGED vars
  BY <1>15 DEF vars
<1>16. ASSUME NEW w \in Workers, InjectionFails(w) PROVE SizeInv'
  BY <1>16 DEF InjectionFails
<1> QED
  BY <1>1, <1>2, <1>3, <1>4, <1>5, <1>6, <1>7, <1>8, <1>9, <1>10, <1>11, <1>12, <1>13,
     <1>14, <1>15, <1>16 DEF Next, Injecting

\* No copy of the vault, in memory or on disk, outgrows its bound
\* (inject_prototype and _evict_oldest), whatever fails and whoever restarts.
THEOREM SizeStaysBounded == Spec => []SizeBounded
<1>1. SizeInv => SizeBounded
  BY DEF SizeInv
<1> QED
  BY <1>1, InitTypeOK, StepTypeOK, InitSizeInv, StepSizeInv, PTL DEF Spec

-----------------------------------------------------------------------------
(* Labels and vectors.  The two arrays disagree while an injection is under *)
(* way, in a manner that depends on its step.  An injection that fails in  *)
(* such a moment leaves a label too few, which every later step hands on.  *)

AlignedAt(w) ==
    /\ pc[w] \in {"idle", "room", "labelled"} \cup Persisting => Matches(index[w], labels[w])
    /\ pc[w] = "evicting" => labels[w] = LabelsOf(Rest(index[w]))
    /\ pc[w] = "added" => Append(labels[w], LabelOf[current[w]]) = LabelsOf(index[w])

ShortAt(w) ==
    /\ pc[w] \in {"idle", "room", "labelled"} \cup Persisting => Len(labels[w]) < Len(index[w])
    /\ pc[w] \in {"evicting", "added"} => Len(labels[w]) < Len(index[w]) - 1

LoadedAt(w) ==
    /\ w \in halved => w \in loaded
    /\ pc[w] \in Loading => w \notin loaded
    /\ pc[w] \notin {"idle"} \cup Loading => w \in loaded

AlignInv ==
    \A w \in Workers :
        /\ w \in loaded \ misloaded => IF w \in halved THEN ShortAt(w) ELSE AlignedAt(w)
        /\ LoadedAt(w)

\* It holds at the start.
LEMMA InitAlignInv == Init => AlignInv
<1> QED
  BY DEF Init, AlignInv, AlignedAt, LoadedAt, Matches, Loading, Persisting

\* Every step keeps it.
LEMMA StepAlignInv == TypeOK /\ SizeInv /\ AlignInv /\ [Next]_vars => AlignInv'
<1> SUFFICES ASSUME TypeOK, SizeInv, AlignInv, [Next]_vars PROVE AlignInv'
  OBVIOUS
<1> USE VaultAssumption DEF TypeOK, AlignInv, AlignedAt, ShortAt, LoadedAt, Matches, Steps, Persisting,
                            Loading, memory, files, scoring, history, Goto
<1>1. ASSUME NEW w \in Workers, Inject(w) PROVE AlignInv'
  <2>1. Rest(LabelsOf(index[w])) = LabelsOf(Rest(index[w]))
    BY LabelsOfRest
  <2>2. CASE Len(index[w]) >= Cap /\ Len(index[w]) >= 2
    <3>1. w \in halved /\ Len(labels[w]) < Len(index[w]) =>
             Len(Rest(labels[w])) < Len(index[w]) - 1
      BY <2>2, RestType
    <3> QED
      BY <1>1, <2>1, <2>2, <3>1 DEF Inject
  <2>3. CASE ~(Len(index[w]) >= Cap /\ Len(index[w]) >= 2)
    BY <1>1, <2>3 DEF Inject
  <2> QED
    BY <2>2, <2>3
<1>2. ASSUME NEW w \in Workers, SwapIndex(w) PROVE AlignInv'
  <2>1. Len(Rest(index[w])) = Len(index[w]) - 1
    BY <1>2, RestType DEF SwapIndex, SizeInv
  <2> QED
    BY <1>2, <2>1 DEF SwapIndex
<1>3. ASSUME NEW w \in Workers, AddVector(w) PROVE AlignInv'
  <2>1. LabelsOf(Append(index[w], current[w])) = Append(LabelsOf(index[w]), LabelOf[current[w]])
    BY LabelsOfAppend
  <2> QED
    BY <1>3, <2>1 DEF AddVector
<1>4. ASSUME NEW w \in Workers, AddLabel(w) PROVE AlignInv'
  BY <1>4 DEF AddLabel
<1>5. ASSUME NEW w \in Workers, StartIndexWrite(w) PROVE AlignInv'
  BY <1>5 DEF StartIndexWrite
<1>6. ASSUME NEW w \in Workers, FinishIndexWrite(w) PROVE AlignInv'
  BY <1>6 DEF FinishIndexWrite
<1>7. ASSUME NEW w \in Workers, StartLabelsWrite(w) PROVE AlignInv'
  BY <1>7 DEF StartLabelsWrite
<1>8. ASSUME NEW w \in Workers, FinishLabelsWrite(w) PROVE AlignInv'
  BY <1>8 DEF FinishLabelsWrite
<1>9. ASSUME NEW w \in Workers, WriteFails(w) PROVE AlignInv'
  BY <1>9 DEF WriteFails
<1>10. ASSUME NEW w \in Workers, Restart(w) PROVE AlignInv'
  BY <1>10 DEF Restart
<1>11. ASSUME NEW w \in Workers, LoadIndex(w) PROVE AlignInv'
  BY <1>11 DEF LoadIndex
<1>12. ASSUME NEW w \in Workers, LoadLabels(w) PROVE AlignInv'
  BY <1>12 DEF LoadLabels
<1>13. ASSUME NEW w \in Workers, NEW s \in Scores, Search(s, w) PROVE AlignInv'
  BY <1>13 DEF Search
<1>14. ASSUME NEW w \in Workers, NEW s \in Scores, ReadLabels(s, w) PROVE AlignInv'
  BY <1>14 DEF ReadLabels
<1>15. CASE UNCHANGED vars
  BY <1>15 DEF vars
<1>16. ASSUME NEW w \in Workers, InjectionFails(w) PROVE AlignInv'
  <2>1. ASSUME w \in loaded \ misloaded, w \notin halved, pc[w] # "room"
        PROVE  Len(labels[w]) < Len(index[w])
    <3>1. CASE pc[w] = "evicting"
      <4>1. /\ Rest(index[w]) \in Seq(Prototypes)
            /\ Len(Rest(index[w])) = Len(index[w]) - 1
        BY <3>1, RestType DEF SizeInv
      <4>2. labels[w] = LabelsOf(Rest(index[w]))
        BY <2>1, <3>1
      <4>3. Len(labels[w]) = Len(index[w]) - 1
        BY <4>1, <4>2, LabelsOfType
      <4> QED
        BY <4>3
    <3>2. CASE pc[w] = "added"
      <4>1. Len(Append(labels[w], LabelOf[current[w]])) = Len(index[w])
        BY <2>1, <3>2, LabelsOfType
      <4> QED
        BY <4>1
    <3> QED
      BY <1>16, <2>1, <3>1, <3>2 DEF InjectionFails
  <2> QED
    BY <1>16, <2>1 DEF InjectionFails
<1> QED
  BY <1>1, <1>2, <1>3, <1>4, <1>5, <1>6, <1>7, <1>8, <1>9, <1>10, <1>11, <1>12, <1>13,
     <1>14, <1>15, <1>16 DEF Next, Injecting

\* In a worker whose load() was given matching files every label is its
\* vector's between injections, through evictions and failed writes, until an
\* injection fails between its two arrays (inject_prototype, _evict_oldest); from
\* then on the vault is short of a label until the worker restarts.
THEOREM MemoryStaysAligned == Spec => []MemoryAligned
<1>1. TypeOK /\ AlignInv => MemoryAligned
  BY DEF TypeOK, AlignInv, AlignedAt, ShortAt, MemoryAligned, Matches, Persisting
<1> QED
  BY <1>1, InitTypeOK, StepTypeOK, InitSizeInv, StepSizeInv, InitAlignInv, StepAlignInv, PTL DEF Spec

-----------------------------------------------------------------------------
(* A score that no eviction overtook still holds positions of the vectors  *)
(* it found, although the index may have grown since.                      *)

HitsCurrent(s, w) ==
    /\ pc[w] # "evicting"
    /\ \A h \in hits[s] : h[1] \in 1 .. Len(index[w]) /\ index[w][h[1]] = h[2]

ScoreInv ==
    /\ \A s \in Scores, w \in Workers :
          Pending(s, w) => /\ w \in loaded
                           /\ s \notin overtaken => HitsCurrent(s, w)
    /\ WrongScoreNeedsEviction

\* It holds at the start.
LEMMA InitScoreInv == Init => ScoreInv
<1> QED
  BY DEF Init, ScoreInv, Pending, WrongScoreNeedsEviction

\* Every step keeps it.
LEMMA StepScoreInv == TypeOK /\ AlignInv /\ ScoreInv /\ [Next]_vars => ScoreInv'
<1> SUFFICES ASSUME TypeOK, AlignInv, ScoreInv, [Next]_vars PROVE ScoreInv'
  OBVIOUS
<1> USE VaultAssumption DEF TypeOK, ScoreInv, HitsCurrent, Pending, WrongScoreNeedsEviction,
                            Persisting, Loading, memory, files, scoring, history, Goto
<1>1. ASSUME NEW w \in Workers, Inject(w) PROVE ScoreInv'
  BY <1>1 DEF Inject
<1>2. ASSUME NEW w \in Workers, SwapIndex(w) PROVE ScoreInv'
  BY <1>2 DEF SwapIndex
<1>3. ASSUME NEW w \in Workers, AddVector(w) PROVE ScoreInv'
  <2>1. \A i \in 1 .. Len(index[w]) :
           /\ i \in 1 .. Len(Append(index[w], current[w]))
           /\ Append(index[w], current[w])[i] = index[w][i]
    OBVIOUS
  <2> QED
    BY <1>3, <2>1 DEF AddVector
<1>4. ASSUME NEW w \in Workers, AddLabel(w) PROVE ScoreInv'
  BY <1>4 DEF AddLabel
<1>5. ASSUME NEW w \in Workers, StartIndexWrite(w) PROVE ScoreInv'
  BY <1>5 DEF StartIndexWrite
<1>6. ASSUME NEW w \in Workers, FinishIndexWrite(w) PROVE ScoreInv'
  BY <1>6 DEF FinishIndexWrite
<1>7. ASSUME NEW w \in Workers, StartLabelsWrite(w) PROVE ScoreInv'
  BY <1>7 DEF StartLabelsWrite
<1>8. ASSUME NEW w \in Workers, FinishLabelsWrite(w) PROVE ScoreInv'
  BY <1>8 DEF FinishLabelsWrite
<1>9. ASSUME NEW w \in Workers, WriteFails(w) PROVE ScoreInv'
  BY <1>9 DEF WriteFails
<1>10. ASSUME NEW w \in Workers, Restart(w) PROVE ScoreInv'
  BY <1>10 DEF Restart, ScoredBy, ScoreStates
<1>11. ASSUME NEW w \in Workers, LoadIndex(w) PROVE ScoreInv'
  BY <1>11 DEF LoadIndex, AlignInv, LoadedAt
<1>12. ASSUME NEW w \in Workers, LoadLabels(w) PROVE ScoreInv'
  BY <1>12 DEF LoadLabels, AlignInv, LoadedAt
<1>13. ASSUME NEW w \in Workers, NEW s \in Scores, Search(s, w) PROVE ScoreInv'
  BY <1>13 DEF Search
<1>14. ASSUME NEW w \in Workers, NEW s \in Scores, ReadLabels(s, w) PROVE ScoreInv'
  <2>1. ASSUME s \notin overtaken, w \notin misloaded \cup halved
        PROVE  \A h \in hits[s] :
                  h[1] <= Len(labels[w]) => labels[w][h[1]] = LabelOf[h[2]]
    <3>1. HitsCurrent(s, w) /\ AlignedAt(w) /\ pc[w] \notin Loading
      BY <1>14, <2>1 DEF ReadLabels, AlignInv, LoadedAt
    <3>2. \A i \in 1 .. Len(index[w]) :
             i <= Len(labels[w]) => labels[w][i] = LabelsOf(index[w])[i]
      <4>1. CASE pc[w] = "added"
        <5>1. Append(labels[w], LabelOf[current[w]]) = LabelsOf(index[w])
          BY <3>1, <4>1 DEF AlignedAt
        <5>2. \A i \in 1 .. Len(labels[w]) :
                 Append(labels[w], LabelOf[current[w]])[i] = labels[w][i]
          OBVIOUS
        <5> QED
          BY <5>1, <5>2
      <4>2. CASE pc[w] # "added"
        <5>1. labels[w] = LabelsOf(index[w])
          BY <3>1, <4>2 DEF AlignedAt, Matches, Steps
        <5> QED
          BY <5>1
      <4> QED
        BY <4>1, <4>2
    <3>3. \A i \in 1 .. Len(index[w]) : LabelsOf(index[w])[i] = LabelOf[index[w][i]]
      BY LabelsOfType
    <3> QED
      BY <3>1, <3>2, <3>3
  <2>2. score'[s].at = "wrong" => s \in overtaken \/ w \in misloaded \cup halved
    BY <1>14, <2>1 DEF ReadLabels
  <2> QED
    BY <1>14, <2>2 DEF ReadLabels
<1>15. CASE UNCHANGED vars
  BY <1>15 DEF vars
<1>16. ASSUME NEW w \in Workers, InjectionFails(w) PROVE ScoreInv'
  BY <1>16 DEF InjectionFails
<1> QED
  BY <1>1, <1>2, <1>3, <1>4, <1>5, <1>6, <1>7, <1>8, <1>9, <1>10, <1>11, <1>12, <1>13,
     <1>14, <1>15, <1>16 DEF Next, Injecting

\* A score uses another vector's label only if an eviction overtook it, or its
\* worker loaded files that disagree or saw an injection fail halfway: a plain
\* add is harmless (score).
THEOREM OnlyEvictionsMislead == Spec => []WrongScoreNeedsEviction
<1>1. ScoreInv => WrongScoreNeedsEviction
  BY DEF ScoreInv
<1> QED
  BY <1>1, InitTypeOK, StepTypeOK, InitSizeInv, StepSizeInv, InitAlignInv, StepAlignInv, InitScoreInv, StepScoreInv,
     PTL DEF Spec

-----------------------------------------------------------------------------
(* The files.  While nothing was cut short and nothing overlapped, at most  *)
(* one worker persists, what it has written is its own vault, which no     *)
(* failure has parted, and a worker between the two reads of load() holds  *)
(* the index that is still on disk.                                        *)

\* What the files hold, seen from a worker that writes them or loads them.
FilesAt(w) ==
    /\ pc[w] \in Persisting => /\ \A v \in Workers : pc[v] \in Persisting => v = w
                              /\ w \notin halved
    /\ pc[w] = "loadLabels" =>
          /\ \A v \in Workers : pc[v] \notin Persisting
          /\ index[w] = fileIndex
    /\ pc[w] \in {"writingIndex", "writingLabels"} => w \notin clashed
    /\ pc[w] \in {"betweenFiles", "writingLabels"} => fileIndex = index[w]

FilesInv ==
    /\ FilesAligned
    /\ ~tainted => \A w \in Workers : FilesAt(w)

\* It holds at the start.
LEMMA InitFilesInv == Init => FilesInv
<1> SUFFICES ASSUME Init PROVE FilesInv
  OBVIOUS
<1>1. fileIndex # Torn
  BY VaultAssumption DEF Init
<1> QED
  BY <1>1 DEF Init, FilesInv, FilesAligned, FilesAt, Matches, Persisting

\* Every step keeps it.
LEMMA StepFilesInv == TypeOK /\ AlignInv /\ FilesInv /\ [Next]_vars => FilesInv'
<1> SUFFICES ASSUME TypeOK, AlignInv, FilesInv, [Next]_vars PROVE FilesInv'
  OBVIOUS
<1> USE VaultAssumption DEF TypeOK, FilesInv, FilesAligned, FilesAt, Matches, Steps, Persisting,
                            Loading, memory, files, scoring, history, Goto
<1>1. ASSUME NEW w \in Workers, Inject(w) PROVE FilesInv'
  <2>1. PICK step \in {"evicting", "room"} : pc' = [pc EXCEPT ![w] = step]
    BY <1>1 DEF Inject
  <2>2. pc[w] = "idle" /\ UNCHANGED <<index, files, clashed, tainted, misloaded, halved>>
    BY <1>1 DEF Inject
  <2> QED
    BY <2>1, <2>2
<1>2. ASSUME NEW w \in Workers, SwapIndex(w) PROVE FilesInv'
  BY <1>2 DEF SwapIndex
<1>3. ASSUME NEW w \in Workers, AddVector(w) PROVE FilesInv'
  BY <1>3 DEF AddVector
<1>4. ASSUME NEW w \in Workers, AddLabel(w) PROVE FilesInv'
  BY <1>4 DEF AddLabel
<1>5. ASSUME NEW w \in Workers, StartIndexWrite(w) PROVE FilesInv'
  <2>1. CASE tainted'
    BY <2>1
  <2>2. CASE ~tainted'
    <3>1. ~tainted /\ \A v \in Workers : pc[v] \notin Persisting \cup {"loadLabels"}
      BY <1>5, <2>2 DEF StartIndexWrite
    <3>2. w \notin clashed'
      BY <1>5, <3>1 DEF StartIndexWrite, Open
    <3> QED
      BY <1>5, <2>2, <3>1, <3>2 DEF StartIndexWrite
  <2> QED
    BY <2>1, <2>2
<1>6. ASSUME NEW w \in Workers, FinishIndexWrite(w) PROVE FilesInv'
  BY <1>6 DEF FinishIndexWrite, Closed
<1>7. ASSUME NEW w \in Workers, StartLabelsWrite(w) PROVE FilesInv'
  BY <1>7 DEF StartLabelsWrite, Open
<1>8. ASSUME NEW w \in Workers, FinishLabelsWrite(w) PROVE FilesInv'
  <2>1. ASSUME ~tainted
        PROVE  /\ fileIndex' # Torn
               /\ fileLabels' = LabelsOf(fileIndex')
    <3>1. w \in loaded \ misloaded /\ AlignedAt(w)
      BY <1>8, <2>1 DEF FinishLabelsWrite, AlignInv, LoadedAt
    <3>2. labels[w] = LabelsOf(index[w])
      BY <1>8, <3>1 DEF FinishLabelsWrite, AlignedAt
    <3> QED
      BY <1>8, <2>1, <3>2 DEF FinishLabelsWrite, Closed
  <2> QED
    BY <1>8, <2>1 DEF FinishLabelsWrite
<1>9. ASSUME NEW w \in Workers, WriteFails(w) PROVE FilesInv'
  <2>1. CASE tainted'
    BY <2>1
  <2>2. CASE ~tainted'
    <3>1. ~tainted /\ pc[w] = "labelled"
      BY <1>9, <2>2 DEF WriteFails
    <3> QED
      BY <1>9, <2>2, <3>1 DEF WriteFails
  <2> QED
    BY <2>1, <2>2
<1>10. ASSUME NEW w \in Workers, Restart(w) PROVE FilesInv'
  BY <1>10 DEF Restart
<1>11. ASSUME NEW w \in Workers, LoadIndex(w) PROVE FilesInv'
  <2>1. CASE tainted'
    BY <2>1
  <2>2. CASE ~tainted'
    <3>1. ~tainted /\ \A v \in Workers : pc[v] \notin Persisting
      BY <1>11, <2>2 DEF LoadIndex, OthersPersisting
    <3> QED
      BY <1>11, <2>2, <3>1 DEF LoadIndex
  <2> QED
    BY <2>1, <2>2
<1>12. ASSUME NEW w \in Workers, LoadLabels(w) PROVE FilesInv'
  BY <1>12 DEF LoadLabels
<1>13. ASSUME NEW w \in Workers, NEW s \in Scores, Search(s, w) PROVE FilesInv'
  BY <1>13 DEF Search
<1>14. ASSUME NEW w \in Workers, NEW s \in Scores, ReadLabels(s, w) PROVE FilesInv'
  BY <1>14 DEF ReadLabels
<1>15. CASE UNCHANGED vars
  BY <1>15 DEF vars
<1>16. ASSUME NEW w \in Workers, InjectionFails(w) PROVE FilesInv'
  BY <1>16 DEF InjectionFails
<1> QED
  BY <1>1, <1>2, <1>3, <1>4, <1>5, <1>6, <1>7, <1>8, <1>9, <1>10, <1>11, <1>12, <1>13,
     <1>14, <1>15, <1>16 DEF Next, Injecting

\* The two files agree, and every load() finds them so, as long as no write is
\* cut short, meets another worker's write or load, or comes from a vault that
\* an injection left halfway.
THEOREM FilesStayAligned == Spec => []FilesAligned
<1>1. FilesInv => FilesAligned
  BY DEF FilesInv
<1> QED
  BY <1>1, InitTypeOK, StepTypeOK, InitSizeInv, StepSizeInv, InitAlignInv, StepAlignInv, InitFilesInv, StepFilesInv,
     PTL DEF Spec
=============================================================================
