---------------------------- MODULE GraphProofs -----------------------------
(***************************************************************************)
(* What is proved of the two graph computations.  Of the metrics, for every*)
(* set of accounts and every sequence of rows: that the order of the rows  *)
(* does not matter, that the figures of an account agree with each other,  *)
(* and that the members of cycles are the accounts on simple cycles.  Of   *)
(* the graphs that clients post, for every set of edges: that a fraud is   *)
(* not cleared by more transfers.                                          *)
(* Every figure is a fold over the rows; FoldLemmas says what a fold does. *)
(***************************************************************************)
EXTENDS GraphMetrics, GraphScorer, FiniteSetTheorems, SequenceTheorems, TLAPS

\* The rows from left to right, as FoldLeft takes them: the one with the
\* largest index is folded last.
EdgeOf(row, w) == AddEdge(w, row)
FlowOf(row, flows) == AddTransfer(flows, row)
ReceiptOf(row, last) == Receive(last, row)
KeptOf(row, kept) == KeepRecent(kept, row)
Latest(S) == Max(S)
AnyOf(S) == CHOOSE x \in S : TRUE

Edging == INSTANCE FoldLemmas WITH op <- EdgeOf, pick <- Latest
Flowing == INSTANCE FoldLemmas WITH op <- FlowOf, pick <- Latest
Receiving == INSTANCE FoldLemmas WITH op <- ReceiptOf, pick <- Latest
Keeping == INSTANCE FoldLemmas WITH op <- KeptOf, pick <- Latest
Summing == INSTANCE FoldLemmas WITH op <- +, pick <- AnyOf

MetricsSpec == MetricsInit /\ [][MetricsNext]_transfers

\* What a row is.
RowType == [src : People \cup {Null}, dst : People \cup {Null},
            amount : Nat, age : Int \cup {Null}]
-----------------------------------------------------------------------------
(* Indices and folds over them.                                            *)

\* The largest of a set of indices is one of them.
LEMMA LatestIsOne ==
    ASSUME NEW n \in Nat, NEW S \in SUBSET (1..n), S # {}
    PROVE  Latest(S) \in S /\ \A i \in S : i <= Latest(S)
<1> DEFINE Below == {n - i : i \in S}
<1>1. Below \subseteq Nat /\ Below # {}
  <2>1. \A i \in S : i \in Nat /\ i <= n
    OBVIOUS
  <2>2. \A i \in S : n - i \in Nat
    BY <2>1
  <2> QED
    BY <2>2
<1>2. PICK k \in Below : \A j \in Below : k <= j
  <2> HIDE DEF Below
  <2> QED
    BY <1>1, Edging!LeastExists
<1>3. PICK m \in S : k = n - m
  OBVIOUS
<1>4. \A i \in S : n - m <= n - i
  BY <1>2, <1>3
<1>5. \A i \in S : m >= i
  BY <1>3, <1>4
<1>6. Latest(S) \in S /\ \A i \in S : Latest(S) >= i
  BY <1>3, <1>5 DEF Latest, Max
<1> QED
  BY <1>6

\* And has a row.
LEMMA LatestRow ==
    ASSUME NEW rows \in Seq(RowType), NEW S \in SUBSET (1..Len(rows)), S # {}
    PROVE  Latest(S) \in S /\ rows[Latest(S)] \in RowType
<1>1. Len(rows) \in Nat
  OBVIOUS
<1>2. Latest(S) \in S
  BY ONLY <1>1, LatestIsOne, S \in SUBSET (1..Len(rows)), S # {}
<1>3. Latest(S) \in 1..Len(rows)
  BY <1>2
<1>4. \A i \in 1..Len(rows) : rows[i] \in RowType
  OBVIOUS
<1>5. rows[Latest(S)] \in RowType
  BY ONLY <1>3, <1>4, Zenon
<1> QED
  BY <1>2, <1>5

\* So the rows' indices can be folded.
LEMMA IndicesFold ==
    ASSUME NEW n \in Nat
    PROVE  /\ Edging!IsFiniteSet(1..n) /\ Flowing!IsFiniteSet(1..n)
           /\ Receiving!IsFiniteSet(1..n) /\ Keeping!IsFiniteSet(1..n)
           /\ \A S \in SUBSET (1..n) :
                  /\ Edging!Picks(S) /\ Flowing!Picks(S)
                  /\ Receiving!Picks(S) /\ Keeping!Picks(S)
<1>1. /\ Edging!IsFiniteSet(1..n) /\ Flowing!IsFiniteSet(1..n)
      /\ Receiving!IsFiniteSet(1..n) /\ Keeping!IsFiniteSet(1..n)
  BY Edging!FS_Interval, Flowing!FS_Interval, Receiving!FS_Interval, Keeping!FS_Interval
<1>2. \A S \in SUBSET (1..n) : S # {} => Latest(S) \in S
  BY LatestIsOne
<1> QED
  BY <1>1, <1>2 DEF Edging!Picks, Flowing!Picks, Receiving!Picks, Keeping!Picks

\* What the module computes with FoldLeft are these folds.
LEMMA FoldsAre ==
    ASSUME NEW rows \in Seq(RowType)
    PROVE  /\ Weights(rows) = Edging!Fold(<<>>, rows, 1..Len(rows))
           /\ Flows(rows) = Flowing!Fold([k \in FlowKeys |-> 0], rows, 1..Len(rows))
           /\ LastReceipt(rows) =
                  Receiving!Fold([n \in People |-> Null], rows, 1..Len(rows))
           /\ Recent(rows) = Keeping!Fold(<<>>, rows, 1..Len(rows))
<1>1. DOMAIN rows = 1..Len(rows)
  OBVIOUS
<1>2. Weights(rows) = Edging!Fold(<<>>, rows, DOMAIN rows)
  BY Zenon DEF Weights, FoldLeft, Edging!Fold, MapThenFoldSet, Edging!MapThenFoldSet,
               EdgeOf, Latest
<1>3. Flows(rows) = Flowing!Fold([k \in FlowKeys |-> 0], rows, DOMAIN rows)
  BY Zenon DEF Flows, FoldLeft, Flowing!Fold, MapThenFoldSet, Flowing!MapThenFoldSet,
               FlowOf, Latest
<1>4. LastReceipt(rows) = Receiving!Fold([n \in People |-> Null], rows, DOMAIN rows)
  BY Zenon DEF LastReceipt, FoldLeft, Receiving!Fold, MapThenFoldSet,
               Receiving!MapThenFoldSet, ReceiptOf, Latest
<1>5. Recent(rows) = Keeping!Fold(<<>>, rows, DOMAIN rows)
  BY Zenon DEF Recent, FoldLeft, Keeping!Fold, MapThenFoldSet, Keeping!MapThenFoldSet,
               KeptOf, Latest
<1> QED
  BY <1>1, <1>2, <1>3, <1>4, <1>5
-----------------------------------------------------------------------------
(* The edges: those of the rows, whatever their order.                     *)

\* The pairs of accounts of some rows.
Pairs(rows, S) ==
    {<<rows[i].src, rows[i].dst>> : i \in {j \in S : rows[j].src # Null /\ rows[j].dst # Null}}

\* One more row adds at most its own pair.
LEMMA PairAdded ==
    ASSUME NEW w, NEW row \in RowType
    PROVE  DOMAIN EdgeOf(row, w) =
               IF row.src # Null /\ row.dst # Null
               THEN DOMAIN w \cup {<<row.src, row.dst>>} ELSE DOMAIN w
BY DEF EdgeOf, AddEdge

\* The edges of the graph are the pairs of the rows.
LEMMA EdgesArePairs ==
    ASSUME NEW rows \in Seq(RowType)
    PROVE  DOMAIN Weights(rows) = Pairs(rows, 1..Len(rows))
<1> DEFINE I == 1..Len(rows)
           Good == {S \in SUBSET I : DOMAIN Edging!Fold(<<>>, rows, S) = Pairs(rows, S)}
<1>1. Edging!IsFiniteSet(I) /\ \A S \in SUBSET I : Edging!Picks(S)
  BY IndicesFold
<1>2. {} \in Good
  <2>1. Edging!Fold(<<>>, rows, {}) = <<>>
    BY Edging!FoldEmpty
  <2>2. DOMAIN <<>> = {} /\ Pairs(rows, {}) = {}
    BY DEF Pairs
  <2>3. DOMAIN Edging!Fold(<<>>, rows, {}) = Pairs(rows, {})
    BY <2>1, <2>2, Zenon
  <2> QED
    BY <2>3
<1>3. ASSUME NEW S \in SUBSET I, S # {}, S \ {Latest(S)} \in Good PROVE S \in Good
  <2> DEFINE p == Latest(S)
             T == S \ {p}
  <2>1. p \in S /\ rows[p] \in RowType
    BY <1>3, LatestRow
  <2>2. Edging!Fold(<<>>, rows, S) = EdgeOf(rows[p], Edging!Fold(<<>>, rows, T))
    <3>1. Edging!IsFiniteSet(S) /\ Edging!Picks(S)
      BY <1>1, <1>3, Edging!FS_Subset
    <3> QED
      BY <1>3, <3>1, Edging!FoldStep
  <2>3. DOMAIN Edging!Fold(<<>>, rows, T) = Pairs(rows, T)
    BY <1>3
  <2>4. Pairs(rows, S) =
            IF rows[p].src # Null /\ rows[p].dst # Null
            THEN Pairs(rows, T) \cup {<<rows[p].src, rows[p].dst>>} ELSE Pairs(rows, T)
    BY <2>1 DEF Pairs
  <2> HIDE DEF Good, T, p
  <2>5. DOMAIN Edging!Fold(<<>>, rows, S) = Pairs(rows, S)
    <3> DEFINE w == Edging!Fold(<<>>, rows, T)
    <3> HIDE DEF w
    <3>1. Edging!Fold(<<>>, rows, S) = EdgeOf(rows[p], w) /\ DOMAIN w = Pairs(rows, T)
      BY <2>2, <2>3 DEF w
    <3>2. DOMAIN EdgeOf(rows[p], w) =
              IF rows[p].src # Null /\ rows[p].dst # Null
              THEN DOMAIN w \cup {<<rows[p].src, rows[p].dst>>} ELSE DOMAIN w
      BY <2>1, PairAdded
    <3> QED
      BY <2>4, <3>1, <3>2
  <2> QED
    BY <2>5 DEF Good
<1>4. \A S \in SUBSET I : S \in Good
  <2> HIDE DEF Good, I
  <2>1. Edging!Picks(I)
    BY <1>1
  <2> QED
    BY <1>1, <1>2, <1>3, <2>1, Edging!FoldInduction
<1>5. DOMAIN Edging!Fold(<<>>, rows, I) = Pairs(rows, I)
  BY <1>4
<1> QED
  BY <1>5, FoldsAre

\* What mirrors the indices, and the rows in reverse.
LEMMA Mirrored ==
    ASSUME NEW rows \in Seq(RowType)
    PROVE  /\ Reverse(rows) \in Seq(RowType) /\ Len(Reverse(rows)) = Len(rows)
           /\ \A i \in 1..Len(rows) :
                  Len(rows) + 1 - i \in 1..Len(rows) /\ Reverse(rows)[i] = rows[Len(rows) + 1 - i]
<1>1. \A i \in 1..Len(rows) :
          Len(rows) + 1 - i \in 1..Len(rows) /\ Len(rows) + 1 - i = (Len(rows) - i) + 1
  OBVIOUS
<1>2. Reverse(rows) = [i \in 1..Len(rows) |-> rows[(Len(rows) - i) + 1]]
  BY DEF Reverse
<1>3. \A i \in 1..Len(rows) : rows[(Len(rows) - i) + 1] \in RowType
  BY <1>1
<1>4. Reverse(rows) \in [1..Len(rows) -> RowType]
  BY <1>2, <1>3
<1>5. Reverse(rows) \in Seq(RowType) /\ Len(Reverse(rows)) = Len(rows)
  BY <1>4
<1> QED
  BY <1>1, <1>2, <1>5

\* The graph is the same.
LEMMA SameGraph ==
    ASSUME NEW rows \in Seq(RowType)
    PROVE  Digraph(rows) = Digraph(Reverse(rows))
<1> DEFINE I == 1..Len(rows)
           back == Reverse(rows)
<1>1. back \in Seq(RowType) /\ Len(back) = Len(rows)
  BY Mirrored
<1>2. \A i \in I : \E j \in I : back[i] = rows[j]
  BY Mirrored
<1>3. \A i \in I : \E j \in I : back[j] = rows[i]
  <2> SUFFICES ASSUME NEW i \in I PROVE \E j \in I : back[j] = rows[i]
    OBVIOUS
  <2> DEFINE j == Len(rows) + 1 - i
  <2>1. j \in I /\ Len(rows) + 1 - j = i
    OBVIOUS
  <2>2. back[j] = rows[Len(rows) + 1 - j]
    BY <2>1, Mirrored
  <2> QED
    BY <2>1, <2>2
<1> HIDE DEF back, I
<1>4. Pairs(rows, I) = Pairs(back, I)
  BY <1>2, <1>3 DEF Pairs
<1>5. DOMAIN Weights(rows) = Pairs(rows, I) /\ DOMAIN Weights(back) = Pairs(back, I)
  BY <1>1, EdgesArePairs DEF I
<1>6. DOMAIN Weights(rows) = DOMAIN Weights(back)
  BY <1>4, <1>5
<1> QED
  BY <1>6, Zenon DEF Digraph, back
-----------------------------------------------------------------------------
(* The flows and the last receipt: folds whose steps commute.              *)

FlowType == [FlowKeys -> Int]
ReceiptType == [People -> Int \cup {Null}]

\* One more row adds its amount to the flows it belongs to.
LEMMA FlowAdded ==
    ASSUME NEW row \in RowType, NEW flows \in FlowType
    PROVE  /\ FlowOf(row, flows) \in FlowType
           /\ \A k \in FlowKeys :
                  FlowOf(row, flows)[k] =
                      IF /\ Null \notin {row.src, row.dst, row.age} /\ row.age <= k.window
                         /\ k.of = (IF k.side = "in" THEN row.dst ELSE row.src)
                      THEN flows[k] + row.amount ELSE flows[k]
<1>1. row.amount \in Int
  BY DEF RowType
<1>2. CASE Null \in {row.src, row.dst, row.age}
  BY <1>2 DEF FlowOf, AddTransfer
<1>3. CASE Null \notin {row.src, row.dst, row.age}
  <2>1. FlowOf(row, flows) =
            [k \in FlowKeys |->
                IF row.age <= k.window /\ k.of = (IF k.side = "in" THEN row.dst ELSE row.src)
                THEN flows[k] + row.amount ELSE flows[k]]
    BY <1>3 DEF FlowOf, AddTransfer
  <2> QED
    BY <1>1, <1>3, <2>1 DEF FlowType
<1> QED
  BY <1>2, <1>3

\* Two rows add up whichever comes first.
LEMMA FlowsCommute ==
    ASSUME NEW row \in RowType, NEW other \in RowType, NEW flows \in FlowType
    PROVE  FlowOf(row, FlowOf(other, flows)) = FlowOf(other, FlowOf(row, flows))
<1> DEFINE Adds(r, k) == /\ Null \notin {r.src, r.dst, r.age} /\ r.age <= k.window
                         /\ k.of = (IF k.side = "in" THEN r.dst ELSE r.src)
           one == FlowOf(other, flows)
           two == FlowOf(row, flows)
<1>1. row.amount \in Int /\ other.amount \in Int
  BY DEF RowType
<1>2. ASSUME NEW f \in FlowType, NEW r \in RowType
      PROVE  /\ FlowOf(r, f) \in FlowType
             /\ \A k \in FlowKeys :
                    FlowOf(r, f)[k] = IF Adds(r, k) THEN f[k] + r.amount ELSE f[k]
  BY <1>2, FlowAdded
<1> HIDE DEF Adds
<1>3. /\ one \in FlowType
      /\ \A k \in FlowKeys : one[k] = IF Adds(other, k) THEN flows[k] + other.amount ELSE flows[k]
  BY <1>2
<1>4. /\ two \in FlowType
      /\ \A k \in FlowKeys : two[k] = IF Adds(row, k) THEN flows[k] + row.amount ELSE flows[k]
  BY <1>2
<1> HIDE DEF one, two
<1>5. /\ FlowOf(row, one) \in FlowType
      /\ \A k \in FlowKeys :
             FlowOf(row, one)[k] = IF Adds(row, k) THEN one[k] + row.amount ELSE one[k]
  BY <1>2, <1>3
<1>6. /\ FlowOf(other, two) \in FlowType
      /\ \A k \in FlowKeys :
             FlowOf(other, two)[k] = IF Adds(other, k) THEN two[k] + other.amount ELSE two[k]
  BY <1>2, <1>4
<1>7. \A k \in FlowKeys : FlowOf(row, one)[k] = FlowOf(other, two)[k]
  <2> SUFFICES ASSUME NEW k \in FlowKeys PROVE FlowOf(row, one)[k] = FlowOf(other, two)[k]
    OBVIOUS
  <2>1. flows[k] \in Int
    BY DEF FlowType
  <2> QED
    BY <1>1, <1>3, <1>4, <1>5, <1>6, <2>1
<1>8. FlowOf(row, one) = FlowOf(other, two)
  BY <1>5, <1>6, <1>7 DEF FlowType
<1> QED
  BY <1>8 DEF one, two

\* One more row makes a receipt the last if it is more recent.
LEMMA ReceiptTaken ==
    ASSUME NEW row \in RowType, NEW last \in ReceiptType
    PROVE  /\ ReceiptOf(row, last) \in ReceiptType
           /\ \A n \in People :
                  ReceiptOf(row, last)[n] =
                      IF /\ row.dst = n /\ row.dst # Null /\ row.age # Null
                         /\ last[n] = Null \/ row.age < last[n]
                      THEN row.age ELSE last[n]
BY DEF ReceiptOf, Receive, ReceiptType, RowType

\* Of two rows the more recent wins, whichever comes first.
LEMMA ReceiptsCommute ==
    ASSUME NEW row \in RowType, NEW other \in RowType, NEW last \in ReceiptType
    PROVE  ReceiptOf(row, ReceiptOf(other, last)) = ReceiptOf(other, ReceiptOf(row, last))
<1> DEFINE Taken(r, n, old) ==
               IF r.dst = n /\ r.dst # Null /\ r.age # Null /\ (old = Null \/ r.age < old)
               THEN r.age ELSE old
           one == ReceiptOf(other, last)
           two == ReceiptOf(row, last)
<1>1. ASSUME NEW f \in ReceiptType, NEW r \in RowType
      PROVE  /\ ReceiptOf(r, f) \in ReceiptType
             /\ \A n \in People : ReceiptOf(r, f)[n] = Taken(r, n, f[n])
  BY <1>1, ReceiptTaken
<1>2. ASSUME NEW n \in People, NEW old \in Int \cup {Null}
      PROVE  Taken(row, n, Taken(other, n, old)) = Taken(other, n, Taken(row, n, old))
  <2>1. Null \notin Int
    BY MetricsAssumption
  <2>2. row.age \in Int \cup {Null} /\ other.age \in Int \cup {Null}
    BY DEF RowType
  <2> QED
    BY <2>1, <2>2
<1> HIDE DEF Taken
<1>3. one \in ReceiptType /\ \A n \in People : one[n] = Taken(other, n, last[n])
  BY <1>1
<1>4. two \in ReceiptType /\ \A n \in People : two[n] = Taken(row, n, last[n])
  BY <1>1
<1> HIDE DEF one, two
<1>5. /\ ReceiptOf(row, one) \in ReceiptType
      /\ \A n \in People : ReceiptOf(row, one)[n] = Taken(row, n, one[n])
  BY <1>1, <1>3
<1>6. /\ ReceiptOf(other, two) \in ReceiptType
      /\ \A n \in People : ReceiptOf(other, two)[n] = Taken(other, n, two[n])
  BY <1>1, <1>4
<1>7. \A n \in People : ReceiptOf(row, one)[n] = ReceiptOf(other, two)[n]
  <2> SUFFICES ASSUME NEW n \in People PROVE ReceiptOf(row, one)[n] = ReceiptOf(other, two)[n]
    OBVIOUS
  <2>1. last[n] \in Int \cup {Null}
    BY DEF ReceiptType
  <2> QED
    BY <1>2, <1>3, <1>4, <1>5, <1>6, <2>1
<1>8. ReceiptOf(row, one) = ReceiptOf(other, two)
  BY <1>5, <1>6, <1>7 DEF ReceiptType
<1> QED
  BY <1>8 DEF one, two
-----------------------------------------------------------------------------
(* The order of the rows does not matter.                                  *)

\* The flows are the same from either end.
LEMMA SameFlows ==
    ASSUME NEW rows \in Seq(RowType)
    PROVE  Flows(rows) = Flows(Reverse(rows))
<1> DEFINE I == 1..Len(rows)
           back == Reverse(rows)
           zero == [k \in FlowKeys |-> 0]
           m == [i \in I |-> Len(rows) + 1 - i]
<1>1. back \in Seq(RowType) /\ Len(back) = Len(rows) /\ Len(rows) \in Nat
  BY Mirrored
<1>2. Flowing!IsFiniteSet(I) /\ Flowing!Picks(I)
  BY <1>1, IndicesFold
<1>3. Flowing!Commutes(zero, rows, I, FlowType)
  <2>1. zero \in FlowType
    BY DEF FlowType
  <2>2. \A i \in I : rows[i] \in RowType
    OBVIOUS
  <2> HIDE DEF zero, I
  <2>3. \A i \in I, y \in FlowType : FlowOf(rows[i], y) \in FlowType
    BY <2>2, FlowAdded
  <2>4. \A i, j \in I, y \in FlowType :
            FlowOf(rows[i], FlowOf(rows[j], y)) = FlowOf(rows[j], FlowOf(rows[i], y))
    BY <2>2, FlowsCommute
  <2> QED
    BY <2>1, <2>3, <2>4 DEF Flowing!Commutes
<1>4. /\ m \in [I -> I] /\ \A i, j \in I : m[i] = m[j] => i = j
      /\ {m[i] : i \in I} = I
  <2>1. m \in [I -> I] /\ \A i, j \in I : m[i] = m[j] => i = j
    BY <1>1
  <2>2. \A i \in I : m[i] \in I /\ m[m[i]] = i
    BY <1>1
  <2> HIDE DEF m, I
  <2> QED
    BY <2>1, <2>2
<1>5. \A i \in I : back[i] = rows[m[i]]
  BY Mirrored
<1>6. Flows(rows) = Flowing!Fold(zero, rows, I) /\ Flows(back) = Flowing!Fold(zero, back, I)
  BY <1>1, FoldsAre
<1> HIDE DEF I, back, zero, m
<1>7. Flowing!Fold(zero, back, I) = Flowing!Fold(zero, rows, {m[i] : i \in I})
  BY <1>2, <1>3, <1>4, <1>5, Flowing!FoldRenamed
<1> QED
  BY <1>4, <1>6, <1>7 DEF back

\* So is everyone's last receipt.
LEMMA SameReceipts ==
    ASSUME NEW rows \in Seq(RowType)
    PROVE  LastReceipt(rows) = LastReceipt(Reverse(rows))
<1> DEFINE I == 1..Len(rows)
           back == Reverse(rows)
           none == [n \in People |-> Null]
           m == [i \in I |-> Len(rows) + 1 - i]
<1>1. back \in Seq(RowType) /\ Len(back) = Len(rows) /\ Len(rows) \in Nat
  BY Mirrored
<1>2. Receiving!IsFiniteSet(I) /\ Receiving!Picks(I)
  BY <1>1, IndicesFold
<1>3. Receiving!Commutes(none, rows, I, ReceiptType)
  <2>1. none \in ReceiptType
    BY DEF ReceiptType
  <2>2. \A i \in I : rows[i] \in RowType
    OBVIOUS
  <2> HIDE DEF none, I
  <2>3. \A i \in I, y \in ReceiptType : ReceiptOf(rows[i], y) \in ReceiptType
    BY <2>2, ReceiptTaken
  <2>4. \A i, j \in I, y \in ReceiptType :
            ReceiptOf(rows[i], ReceiptOf(rows[j], y)) = ReceiptOf(rows[j], ReceiptOf(rows[i], y))
    BY <2>2, ReceiptsCommute
  <2> QED
    BY <2>1, <2>3, <2>4 DEF Receiving!Commutes
<1>4. /\ m \in [I -> I] /\ \A i, j \in I : m[i] = m[j] => i = j
      /\ {m[i] : i \in I} = I
  <2>1. m \in [I -> I] /\ \A i, j \in I : m[i] = m[j] => i = j
    BY <1>1
  <2>2. \A i \in I : m[i] \in I /\ m[m[i]] = i
    BY <1>1
  <2> HIDE DEF m, I
  <2> QED
    BY <2>1, <2>2
<1>5. \A i \in I : back[i] = rows[m[i]]
  BY Mirrored
<1>6. /\ LastReceipt(rows) = Receiving!Fold(none, rows, I)
      /\ LastReceipt(back) = Receiving!Fold(none, back, I)
  BY <1>1, FoldsAre
<1> HIDE DEF I, back, none, m
<1>7. Receiving!Fold(none, back, I) = Receiving!Fold(none, rows, {m[i] : i \in I})
  BY <1>2, <1>3, <1>4, <1>5, Receiving!FoldRenamed
<1> QED
  BY <1>4, <1>6, <1>7 DEF back

\* Every prefix of what Neo4j returns is a sequence of rows.
LEMMA MetricsTyped == MetricsSpec => [](transfers \in Seq(RowType))
<1>1. MetricsInit => transfers \in Seq(RowType)
  BY DEF MetricsInit
<1>2. transfers \in Seq(RowType) /\ [MetricsNext]_transfers => (transfers \in Seq(RowType))'
  <2> SUFFICES ASSUME transfers \in Seq(RowType), [MetricsNext]_transfers
               PROVE  transfers' \in Seq(RowType)
    OBVIOUS
  <2>1. CASE UNCHANGED transfers
    BY <2>1
  <2>2. ASSUME NEW row \in Transfers, FetchRow(row) PROVE transfers' \in Seq(RowType)
    <3>1. row \in RowType
      BY MetricsAssumption DEF RowType
    <3> QED
      BY <2>2, <3>1 DEF FetchRow
  <2> QED
    BY <2>1, <2>2 DEF MetricsNext
<1> QED
  BY <1>1, <1>2, PTL DEF MetricsSpec

\* The features and the structure that is embedded do not depend on the order
\* in which Neo4j returns the rows, for any accounts and rows
\* (nightly_batch.py:61-70, 314-323, 499-568).
THEOREM OrderDoesNotMatter == MetricsSpec => []OrderIrrelevant
<1>1. ASSUME NEW rows \in Seq(RowType)
      PROVE  /\ EmbeddingInput(rows) = EmbeddingInput(Reverse(rows))
             /\ \A n \in Active : AccountFeatures(rows, n) = AccountFeatures(Reverse(rows), n)
  <2> DEFINE back == Reverse(rows)
  <2>1. /\ Digraph(rows) = Digraph(back) /\ Flows(rows) = Flows(back)
        /\ LastReceipt(rows) = LastReceipt(back)
    BY SameGraph, SameFlows, SameReceipts
  <2> HIDE DEF back
  <2>2. EmbeddingInput(rows) = EmbeddingInput(back)
    BY <2>1, Zenon DEF EmbeddingInput
  <2>3. \A n \in Active : AccountFeatures(rows, n) = AccountFeatures(back, n)
    <3> SUFFICES ASSUME NEW n \in Active PROVE AccountFeatures(rows, n) = AccountFeatures(back, n)
      OBVIOUS
    <3> DEFINE
          Of(G, flows, last) ==
              [degree_centrality |-> IF n \in G.node THEN DegreeCentrality(G, n) ELSE <<0, 1>>,
               community |-> Community(G, n),
               ranked |-> n \in Ranked(G),
               cycle_membership |-> n \in CycleMembers(G),
               sink_score |-> IF n \in G.node THEN SinkScore(G, n) ELSE <<0, 1>>,
               bipartite_score |-> IF n \in G.node THEN BipartiteScore(G, n) ELSE <<0, 1>>,
               cash_mule_sink_score |->
                   IF n \in G.node THEN CashMuleSinkScore(G, n) ELSE <<0, 1>>,
               fan_out_ratio |-> FanOutRatio(G, n),
               flow |-> [k \in {x \in FlowKeys : x.of = n} |-> flows[k]],
               last_receive |-> IF last[n] = Null THEN NeverDays * 1440 ELSE last[n]]
    <3>1. \A some : AccountFeatures(some, n) = Of(Digraph(some), Flows(some), LastReceipt(some))
      BY Zenon DEF AccountFeatures
    <3> HIDE DEF Of
    <3> QED
      BY <2>1, <3>1
  <2> QED
    BY <2>2, <2>3 DEF back
<1>2. transfers \in Seq(RowType) => OrderIrrelevant
  BY <1>1 DEF OrderIrrelevant
<1> QED
  BY <1>2, MetricsTyped, PTL
-----------------------------------------------------------------------------
(* The figures of the accounts: what a row does to all of them at once.    *)

Zero == [k \in FlowKeys |-> 0]
Never == [n \in People |-> Null]

\* The place of a flow.
Key(n, side, w) == [of |-> n, side |-> side, window |-> w]

\* What the flows and the receipts have to do with each other.
Agree(flows, last) ==
    /\ flows \in FlowType /\ last \in ReceiptType
    /\ \A n \in People, w \in FlowWindows :
           flows[Key(n, "in", w)] > 0 => last[n] \in Int /\ last[n] <= w
    /\ \A n \in People, v, w \in FlowWindows, side \in {"in", "out"} :
           v < w => flows[Key(n, side, v)] <= flows[Key(n, side, w)]

\* What a key is.
LEMMA KeyIs ==
    ASSUME NEW n \in People, NEW side \in {"in", "out"}, NEW w \in FlowWindows
    PROVE  /\ Key(n, side, w) \in FlowKeys
           /\ Key(n, side, w).of = n /\ Key(n, side, w).side = side
           /\ Key(n, side, w).window = w
BY DEF Key, FlowKeys

\* The windows are numbers.
LEMMA WindowsAreNat == FlowWindows \subseteq Nat
BY DEF FlowWindows

\* One more row keeps them in agreement.
LEMMA AgreeKept ==
    ASSUME NEW flows, NEW last, Agree(flows, last), NEW row \in RowType
    PROVE  Agree(FlowOf(row, flows), ReceiptOf(row, last))
<1> DEFINE f == FlowOf(row, flows)
           r == ReceiptOf(row, last)
           Counts(n, side, w) ==
               /\ Null \notin {row.src, row.dst, row.age} /\ row.age <= w
               /\ n = (IF side = "in" THEN row.dst ELSE row.src)
<1>1. /\ row.amount \in Nat /\ row.age \in Int \cup {Null} /\ Null \notin Int
  BY MetricsAssumption DEF RowType
<1>2. f \in FlowType /\ r \in ReceiptType
  BY FlowAdded, ReceiptTaken DEF Agree
<1>3. \A n \in People, side \in {"in", "out"}, w \in FlowWindows :
          /\ flows[Key(n, side, w)] \in Int
          /\ f[Key(n, side, w)] = IF Counts(n, side, w) THEN flows[Key(n, side, w)] + row.amount
                                  ELSE flows[Key(n, side, w)]
  <2> SUFFICES ASSUME NEW n \in People, NEW side \in {"in", "out"}, NEW w \in FlowWindows
               PROVE  /\ flows[Key(n, side, w)] \in Int
                      /\ f[Key(n, side, w)] =
                             IF Counts(n, side, w) THEN flows[Key(n, side, w)] + row.amount
                             ELSE flows[Key(n, side, w)]
    OBVIOUS
  <2> DEFINE k == Key(n, side, w)
  <2>1. k \in FlowKeys /\ k.of = n /\ k.side = side /\ k.window = w
    BY KeyIs
  <2> HIDE DEF k
  <2>2. flows \in FlowType
    BY DEF Agree
  <2>3. flows[k] \in Int
    BY <2>1, <2>2 DEF FlowType
  <2>4. f[k] = IF /\ Null \notin {row.src, row.dst, row.age} /\ row.age <= k.window
                  /\ k.of = (IF k.side = "in" THEN row.dst ELSE row.src)
               THEN flows[k] + row.amount ELSE flows[k]
    BY <2>1, <2>2, FlowAdded
  <2>5. f[k] = IF Counts(n, side, w) THEN flows[k] + row.amount ELSE flows[k]
    BY <2>1, <2>4
  <2> QED
    BY <2>3, <2>5 DEF k
<1>4. \A n \in People :
          r[n] = IF /\ row.dst = n /\ row.dst # Null /\ row.age # Null
                    /\ last[n] = Null \/ row.age < last[n]
                 THEN row.age ELSE last[n]
  BY ReceiptTaken DEF Agree
<1> HIDE DEF f, r
<1>5. ASSUME NEW n \in People, NEW w \in FlowWindows, f[Key(n, "in", w)] > 0
      PROVE  r[n] \in Int /\ r[n] <= w
  <2>1. w \in Nat /\ last[n] \in Int \cup {Null}
    BY WindowsAreNat DEF Agree, ReceiptType
  <2>2. CASE Counts(n, "in", w)
    BY <1>1, <1>4, <2>1, <2>2
  <2>3. CASE ~Counts(n, "in", w)
    <3>1. flows[Key(n, "in", w)] > 0
      BY <1>3, <1>5, <2>3
    <3>2. last[n] \in Int /\ last[n] <= w
      BY <3>1 DEF Agree
    <3> QED
      BY <1>1, <1>4, <2>1, <3>2
  <2> QED
    BY <2>2, <2>3
<1>6. ASSUME NEW n \in People, NEW v \in FlowWindows, NEW w \in FlowWindows,
             NEW side \in {"in", "out"}, v < w
      PROVE  f[Key(n, side, v)] <= f[Key(n, side, w)]
  <2>1. flows[Key(n, side, v)] <= flows[Key(n, side, w)]
    BY <1>6 DEF Agree
  <2>2. v \in Nat /\ w \in Nat
    BY WindowsAreNat
  <2>3. Counts(n, side, v) => Counts(n, side, w)
    BY <1>1, <1>6, <2>2
  <2> HIDE DEF Counts
  <2> QED
    BY <1>1, <1>3, <2>1, <2>3
<1> QED
  BY <1>2, <1>5, <1>6 DEF Agree, f, r

\* The sum of a function over the accounts.
Whole(fun) == Summing!Fold(0, fun, People)

\* Sums are numbers, and what one account has more of the sum has more of.
LEMMA WholeGrows ==
    ASSUME NEW fun \in [People -> Int], NEW more \in [People -> Int], NEW p \in People,
           NEW x \in Int, more[p] = fun[p] + x, \A n \in People \ {p} : more[n] = fun[n]
    PROVE  Whole(more) = Whole(fun) + x
<1> DEFINE rest == People \ {p}
<1>1. more[p] = fun[p] + x /\ \A n \in rest : more[n] = fun[n]
  OBVIOUS
<1>2. \A S \in SUBSET People : Summing!IsFiniteSet(S) /\ Summing!Picks(S)
  <2>1. Summing!IsFiniteSet(People)
    BY MetricsAssumption DEF IsFiniteSet, Summing!IsFiniteSet
  <2>2. \A S \in SUBSET People : Summing!IsFiniteSet(S)
    BY <2>1, Summing!FS_Subset
  <2>3. \A S : Summing!Picks(S)
    BY Zenon DEF Summing!Picks, AnyOf
  <2> QED
    BY <2>2, <2>3
<1>3. ASSUME NEW any \in [People -> Int] PROVE Summing!Commutes(0, any, People, Int)
  BY DEF Summing!Commutes
<1>4. ASSUME NEW any \in [People -> Int]
      PROVE  Whole(any) = any[p] + Summing!Fold(0, any, rest)
  <2>1. Summing!Commutes(0, any, People, Int) /\ Summing!IsFiniteSet(People)
        /\ Summing!Picks(People)
    BY <1>2, <1>3
  <2> QED
    BY <2>1, Summing!FoldAnyLast DEF Whole
<1>5. Summing!Fold(0, fun, rest) \in Int
  <2>1. Summing!IsFiniteSet(rest) /\ Summing!Picks(rest)
    BY <1>2
  <2>2. \A i \in rest, y \in Int : fun[i] + y \in Int
    OBVIOUS
  <2> HIDE DEF rest
  <2> QED
    BY <2>1, <2>2, Summing!FoldStays
<1>6. Summing!Fold(0, more, rest) = Summing!Fold(0, fun, rest)
  <2>1. Summing!IsFiniteSet(rest) /\ Summing!Picks(rest)
    BY <1>2
  <2> HIDE DEF rest
  <2> QED
    BY <1>1, <2>1, Summing!FoldAgrees
<1>7. /\ Whole(more) = more[p] + Summing!Fold(0, more, rest)
      /\ Whole(fun) = fun[p] + Summing!Fold(0, fun, rest)
  BY <1>1, <1>4
<1>8. fun[p] \in Int
  OBVIOUS
<1> HIDE DEF rest
<1> QED
  BY <1>1, <1>5, <1>6, <1>7, <1>8

\* A side of the flows of a window.
Side(flows, side, w) == [n \in People |-> flows[Key(n, side, w)]]

\* What is sent is what is received.
Balanced(flows) ==
    \A w \in FlowWindows : Whole(Side(flows, "in", w)) = Whole(Side(flows, "out", w))

\* One more row is sent by one account and received by one.
LEMMA BalanceKept ==
    ASSUME NEW flows \in FlowType, Balanced(flows), NEW row \in RowType
    PROVE  Balanced(FlowOf(row, flows))
<1> DEFINE f == FlowOf(row, flows)
<1> SUFFICES ASSUME NEW w \in FlowWindows
             PROVE  Whole(Side(f, "in", w)) = Whole(Side(f, "out", w))
  BY DEF Balanced
<1>1. \A n \in People, side \in {"in", "out"} :
          /\ flows[Key(n, side, w)] \in Int
          /\ f[Key(n, side, w)] =
                 IF /\ Null \notin {row.src, row.dst, row.age} /\ row.age <= w
                    /\ n = (IF side = "in" THEN row.dst ELSE row.src)
                 THEN flows[Key(n, side, w)] + row.amount ELSE flows[Key(n, side, w)]
  <2> SUFFICES ASSUME NEW n \in People, NEW side \in {"in", "out"}
               PROVE  /\ flows[Key(n, side, w)] \in Int
                      /\ f[Key(n, side, w)] =
                             IF /\ Null \notin {row.src, row.dst, row.age} /\ row.age <= w
                                /\ n = (IF side = "in" THEN row.dst ELSE row.src)
                             THEN flows[Key(n, side, w)] + row.amount
                             ELSE flows[Key(n, side, w)]
    OBVIOUS
  <2> DEFINE k == Key(n, side, w)
  <2>1. k \in FlowKeys /\ k.of = n /\ k.side = side /\ k.window = w
    BY KeyIs
  <2> HIDE DEF k
  <2>2. flows[k] \in Int
    BY <2>1 DEF FlowType
  <2>3. f[k] = IF /\ Null \notin {row.src, row.dst, row.age} /\ row.age <= k.window
                  /\ k.of = (IF k.side = "in" THEN row.dst ELSE row.src)
               THEN flows[k] + row.amount ELSE flows[k]
    BY <2>1, FlowAdded
  <2>4. f[k] = IF /\ Null \notin {row.src, row.dst, row.age} /\ row.age <= w
                  /\ n = (IF side = "in" THEN row.dst ELSE row.src)
               THEN flows[k] + row.amount ELSE flows[k]
    BY <2>1, <2>3
  <2> QED
    BY <2>2, <2>4 DEF k
<1>2. Whole(Side(flows, "in", w)) = Whole(Side(flows, "out", w))
  BY DEF Balanced
<1> HIDE DEF f
<1>3. CASE Null \notin {row.src, row.dst, row.age} /\ row.age <= w
  <2>1. row.src \in People /\ row.dst \in People /\ row.amount \in Int
    BY <1>3 DEF RowType
  <2>2. ASSUME NEW side \in {"in", "out"}, NEW p \in People,
               p = IF side = "in" THEN row.dst ELSE row.src
        PROVE  Whole(Side(f, side, w)) = Whole(Side(flows, side, w)) + row.amount
    <3> DEFINE old == Side(flows, side, w)
               new == Side(f, side, w)
    <3>1. old \in [People -> Int] /\ new \in [People -> Int]
      BY <1>1, <2>1 DEF Side
    <3>2. \A n \in People : new[n] = IF n = p THEN old[n] + row.amount ELSE old[n]
      BY <1>1, <1>3, <2>2 DEF Side
    <3> HIDE DEF old, new
    <3>3. Whole(new) = Whole(old) + row.amount
      BY <2>1, <3>1, <3>2, WholeGrows
    <3> QED
      BY <3>3 DEF old, new
  <2>3. Whole(Side(f, "in", w)) = Whole(Side(flows, "in", w)) + row.amount
    BY <2>1, <2>2
  <2>4. Whole(Side(f, "out", w)) = Whole(Side(flows, "out", w)) + row.amount
    BY <2>1, <2>2
  <2> QED
    BY <1>2, <2>3, <2>4
<1>4. CASE ~(Null \notin {row.src, row.dst, row.age} /\ row.age <= w)
  <2>1. Side(f, "in", w) = Side(flows, "in", w) /\ Side(f, "out", w) = Side(flows, "out", w)
    BY <1>1, <1>4 DEF Side
  <2> QED
    BY <1>2, <2>1
<1> QED
  BY <1>3, <1>4

\* So they agree and balance for any rows.
LEMMA FiguresKept ==
    ASSUME NEW rows \in Seq(RowType)
    PROVE  Agree(Flows(rows), LastReceipt(rows)) /\ Balanced(Flows(rows))
<1> DEFINE I == 1..Len(rows)
           F(S) == Flowing!Fold(Zero, rows, S)
           R(S) == Receiving!Fold(Never, rows, S)
           Good == {S \in SUBSET I : Agree(F(S), R(S)) /\ Balanced(F(S))}
<1>1. /\ Flowing!IsFiniteSet(I) /\ Receiving!IsFiniteSet(I)
      /\ \A S \in SUBSET I : Flowing!Picks(S) /\ Receiving!Picks(S)
  BY IndicesFold
<1>2. {} \in Good
  <2>1. F({}) = Zero /\ R({}) = Never
    BY Flowing!FoldEmpty, Receiving!FoldEmpty
  <2>2. Agree(Zero, Never)
    <3>1. Zero \in FlowType /\ Never \in ReceiptType
      BY DEF Zero, Never, FlowType, ReceiptType
    <3>2. \A n \in People, side \in {"in", "out"}, w \in FlowWindows : Zero[Key(n, side, w)] = 0
      BY KeyIs DEF Zero
    <3> QED
      BY <3>1, <3>2 DEF Agree
  <2>3. Balanced(Zero)
    <3>1. \A w \in FlowWindows : Side(Zero, "in", w) = Side(Zero, "out", w)
      <4>1. \A n \in People, side \in {"in", "out"}, w \in FlowWindows :
                Zero[Key(n, side, w)] = 0
        BY KeyIs DEF Zero
      <4> QED
        BY <4>1 DEF Side
    <3> QED
      BY <3>1 DEF Balanced
  <2> HIDE DEF F, R
  <2>4. Agree(F({}), R({})) /\ Balanced(F({}))
    BY <2>1, <2>2, <2>3
  <2> QED
    BY <2>4
<1>3. ASSUME NEW S \in SUBSET I, S # {}, S \ {Latest(S)} \in Good PROVE S \in Good
  <2> DEFINE p == Latest(S)
             T == S \ {p}
  <2>1. p \in S /\ rows[p] \in RowType
    BY <1>3, LatestRow
  <2>2. F(S) = FlowOf(rows[p], F(T)) /\ R(S) = ReceiptOf(rows[p], R(T))
    <3>1. Flowing!IsFiniteSet(S) /\ Receiving!IsFiniteSet(S)
      BY <1>1, <1>3, Flowing!FS_Subset, Receiving!FS_Subset
    <3>2. Flowing!Picks(S) /\ Receiving!Picks(S)
      BY <1>1, <1>3
    <3> QED
      BY <1>3, <3>1, <3>2, Flowing!FoldStep, Receiving!FoldStep
  <2>3. Agree(F(T), R(T)) /\ Balanced(F(T))
    BY <1>3
  <2> HIDE DEF F, R, T, p
  <2>4. F(T) \in FlowType
    BY <2>3 DEF Agree
  <2>5. Agree(F(S), R(S))
    BY <2>1, <2>2, <2>3, AgreeKept
  <2>6. Balanced(F(S))
    BY <2>1, <2>2, <2>3, <2>4, BalanceKept
  <2> QED
    BY <2>5, <2>6
<1>4. \A S \in SUBSET I : S \in Good
  <2> HIDE DEF Good, I
  <2>1. Flowing!Picks(I)
    BY <1>1
  <2> QED
    BY <1>1, <1>2, <1>3, <2>1, Flowing!FoldInduction
<1>5. Agree(F(I), R(I)) /\ Balanced(F(I))
  BY <1>4
<1>6. Flows(rows) = F(I) /\ LastReceipt(rows) = R(I)
  BY FoldsAre DEF Zero, Never
<1> QED
  BY <1>5, <1>6
-----------------------------------------------------------------------------
(* The micro-batch, and the figures together.                              *)

\* A row that comes last is added last.
LEMMA FlowsAppended ==
    ASSUME NEW rows \in Seq(RowType), NEW row \in RowType
    PROVE  /\ Append(rows, row) \in Seq(RowType)
           /\ Flows(Append(rows, row)) = FlowOf(row, Flows(rows))
<1> DEFINE longer == Append(rows, row)
           n == Len(rows)
<1>1. /\ longer \in Seq(RowType) /\ Len(longer) = n + 1 /\ n \in Nat
      /\ longer[n + 1] = row /\ \A i \in 1..n : longer[i] = rows[i]
  OBVIOUS
<1> HIDE DEF longer
<1>2. Latest(1..(n + 1)) = n + 1
  <2> DEFINE S == 1..(n + 1)
  <2>1. n + 1 \in Nat /\ S \in SUBSET (1..(n + 1)) /\ n + 1 \in S
    BY <1>1
  <2>2. S # {}
    BY <2>1
  <2> HIDE DEF S
  <2>3. Latest(S) \in S /\ \A i \in S : i <= Latest(S)
    BY ONLY <2>1, <2>2, LatestIsOne
  <2>4. Latest(S) \in 1..(n + 1) /\ n + 1 <= Latest(S)
    BY <2>1, <2>3
  <2> QED
    BY <1>1, <2>4 DEF S
<1>3. (1..(n + 1)) \ {n + 1} = 1..n /\ 1..(n + 1) # {} /\ n + 1 \in Nat
  BY <1>1
<1>4. /\ Flowing!IsFiniteSet(1..n) /\ Flowing!Picks(1..n)
      /\ Flowing!IsFiniteSet(1..(n + 1)) /\ Flowing!Picks(1..(n + 1))
  <2>1. \A m \in Nat : Flowing!IsFiniteSet(1..m) /\ Flowing!Picks(1..m)
    BY IndicesFold
  <2> QED
    BY <1>1, <1>3, <2>1
<1>5. Flows(longer) = Flowing!Fold(Zero, longer, 1..(n + 1))
  BY <1>1, FoldsAre DEF Zero
<1>6. Flows(rows) = Flowing!Fold(Zero, rows, 1..n)
  BY FoldsAre DEF Zero
<1> HIDE DEF n
<1>7. Flowing!Fold(Zero, longer, 1..(n + 1)) =
          FlowOf(longer[n + 1], Flowing!Fold(Zero, longer, 1..n))
  <2>1. Flowing!Fold(Zero, longer, 1..(n + 1)) =
            FlowOf(longer[Latest(1..(n + 1))],
                   Flowing!Fold(Zero, longer, (1..(n + 1)) \ {Latest(1..(n + 1))}))
    BY <1>3, <1>4, Flowing!FoldStep
  <2> QED
    BY <1>2, <1>3, <2>1
<1>8. Flowing!Fold(Zero, longer, 1..n) = Flowing!Fold(Zero, rows, 1..n)
  BY <1>1, <1>4, Flowing!FoldAgrees
<1>9. Flows(longer) = FlowOf(row, Flows(rows))
  BY <1>1, <1>5, <1>6, <1>7, <1>8
<1> QED
  BY <1>1, <1>9 DEF longer

\* What the micro-batch finds in the hour is in the hour's flows.
LEMMA RecentIsLess ==
    ASSUME NEW rows \in Seq(RowType)
    PROVE  /\ Recent(rows) \in Seq(RowType)
           /\ \A k \in FlowKeys : Flows(Recent(rows))[k] <= Flows(rows)[k]
<1> DEFINE I == 1..Len(rows)
           F(S) == Flowing!Fold(Zero, rows, S)
           K(S) == Keeping!Fold(<<>>, rows, S)
           Less2(S) == /\ F(S) \in FlowType /\ K(S) \in Seq(RowType)
                       /\ Flows(K(S)) \in FlowType
                       /\ \A k \in FlowKeys : Flows(K(S))[k] <= F(S)[k]
           Good == {S \in SUBSET I : Less2(S)}
<1>1. /\ Flowing!IsFiniteSet(I) /\ Keeping!IsFiniteSet(I)
      /\ \A S \in SUBSET I : Flowing!Picks(S) /\ Keeping!Picks(S)
  BY IndicesFold
<1>2. {} \in Good
  <2>1. F({}) = Zero /\ K({}) = <<>>
    BY Flowing!FoldEmpty, Keeping!FoldEmpty
  <2>2. <<>> \in Seq(RowType) /\ Len(<<>>) = 0
    OBVIOUS
  <2>3. Flows(<<>>) = Zero
    <3>1. Flows(<<>>) = Flowing!Fold(Zero, <<>>, 1..0)
      BY <2>2, FoldsAre DEF Zero
    <3>2. 1..0 = {}
      OBVIOUS
    <3>3. Flowing!Fold(Zero, <<>>, {}) = Zero
      BY Flowing!FoldEmpty
    <3> QED
      BY <3>1, <3>2, <3>3, Zenon
  <2>4. Zero \in FlowType /\ \A k \in FlowKeys : Zero[k] = 0
    BY DEF Zero, FlowType
  <2> HIDE DEF F, K
  <2>5. Flows(K({})) = Zero
    BY <2>1, <2>3, Zenon
  <2>6. F({}) \in FlowType /\ K({}) \in Seq(RowType) /\ Flows(K({})) \in FlowType
    BY <2>1, <2>2, <2>4, <2>5, Zenon
  <2>7. \A k \in FlowKeys : Flows(K({}))[k] = 0 /\ F({})[k] = 0
    BY <2>1, <2>4, <2>5, Zenon
  <2>8. Less2({})
    BY <2>6, <2>7
  <2> QED
    BY <2>8
<1>3. ASSUME NEW S \in SUBSET I, S # {}, S \ {Latest(S)} \in Good PROVE S \in Good
  <2> DEFINE p == Latest(S)
             T == S \ {p}
             row == rows[p]
  <2>1. p \in S /\ row \in RowType
    BY <1>3, LatestRow
  <2>2. F(S) = FlowOf(row, F(T)) /\ K(S) = KeptOf(row, K(T))
    <3>1. Flowing!IsFiniteSet(S) /\ Keeping!IsFiniteSet(S)
      BY <1>1, <1>3, Flowing!FS_Subset, Keeping!FS_Subset
    <3>2. Flowing!Picks(S) /\ Keeping!Picks(S)
      BY <1>1, <1>3
    <3> QED
      BY <1>3, <3>1, <3>2, Flowing!FoldStep, Keeping!FoldStep
  <2>3. Less2(T)
    BY <1>3
  <2> HIDE DEF F, K, T, p, row
  <2>4. row.amount \in Nat
    BY <2>1 DEF RowType
  <2>5. /\ F(S) \in FlowType
        /\ \A k \in FlowKeys :
               F(S)[k] = IF /\ Null \notin {row.src, row.dst, row.age} /\ row.age <= k.window
                            /\ k.of = (IF k.side = "in" THEN row.dst ELSE row.src)
                         THEN F(T)[k] + row.amount ELSE F(T)[k]
    BY <2>1, <2>2, <2>3, FlowAdded
  <2>6. \A k \in FlowKeys : F(T)[k] \in Int /\ Flows(K(T))[k] \in Int
    BY <2>3 DEF FlowType
  <2>7. CASE row.age = Null \/ row.age >= 10
    <3>1. K(S) = K(T)
      BY <2>2, <2>7 DEF KeptOf, KeepRecent
    <3>2. \A k \in FlowKeys : Flows(K(T))[k] <= F(S)[k]
      BY <2>3, <2>4, <2>5, <2>6
    <3>3. Less2(S)
      BY <2>3, <2>5, <3>1, <3>2
    <3> QED
      BY <3>3
  <2>8. CASE ~(row.age = Null \/ row.age >= 10)
    <3>1. K(S) = Append(K(T), row)
      BY <2>2, <2>8 DEF KeptOf, KeepRecent
    <3>2. K(S) \in Seq(RowType) /\ Flows(K(S)) = FlowOf(row, Flows(K(T)))
      BY <2>1, <2>3, <3>1, FlowsAppended
    <3> DEFINE micro == Flows(K(T))
               more == Flows(K(S))
    <3>3. micro \in FlowType
      BY <2>3
    <3> HIDE DEF micro
    <3>4. /\ FlowOf(row, micro) \in FlowType
          /\ \A k \in FlowKeys :
                 FlowOf(row, micro)[k] =
                     IF /\ Null \notin {row.src, row.dst, row.age} /\ row.age <= k.window
                        /\ k.of = (IF k.side = "in" THEN row.dst ELSE row.src)
                     THEN micro[k] + row.amount ELSE micro[k]
      BY <2>1, <3>3, FlowAdded
    <3>5. more = FlowOf(row, micro)
      BY <3>2 DEF micro
    <3>6. \A k \in FlowKeys : micro[k] <= F(T)[k] /\ micro[k] \in Int
      BY <2>3, <2>6 DEF micro
    <3> HIDE DEF more
    <3>7. \A k \in FlowKeys : more[k] <= F(S)[k]
      BY <2>4, <2>5, <2>6, <3>4, <3>5, <3>6
    <3>8. Less2(S)
      BY <2>5, <3>2, <3>4, <3>5, <3>7 DEF more
    <3> QED
      BY <3>8
  <2> QED
    BY <2>7, <2>8
<1>4. \A S \in SUBSET I : S \in Good
  <2> HIDE DEF Good, I
  <2>1. Flowing!Picks(I)
    BY <1>1
  <2> QED
    BY <1>1, <1>2, <1>3, <2>1, Flowing!FoldInduction
<1>5. Less2(I)
  BY <1>4
<1>6. Flows(rows) = F(I) /\ Recent(rows) = K(I)
  BY FoldsAre DEF Zero
<1> QED
  BY <1>5, <1>6

\* The nodes of the graph are accounts.
LEMMA NodesArePeople ==
    ASSUME NEW rows \in Seq(RowType)
    PROVE  /\ Digraph(rows).node \subseteq People
           /\ \A n : InDegree(Digraph(rows), n) \in Nat /\ OutDegree(Digraph(rows), n) \in Nat
<1> DEFINE G == Digraph(rows)
           P == Pairs(rows, 1..Len(rows))
<1>1. \A i \in 1..Len(rows) : rows[i] \in RowType
  OBVIOUS
<1>2. \A e \in P : e[1] \in People /\ e[2] \in People
  BY <1>1 DEF Pairs, RowType
<1>3. DOMAIN Weights(rows) = P
  BY EdgesArePairs
<1> HIDE DEF P
<1>4. G.node = {e[1] : e \in P} \cup {e[2] : e \in P}
  BY <1>3 DEF Digraph
<1>5. G.node \subseteq People
  BY <1>2, <1>4
<1> HIDE DEF G
<1>6. \A S \in SUBSET People : Cardinality(S) \in Nat
  BY MetricsAssumption, FS_Subset, FS_CardinalityType
<1>7. \A n : Predecessors(G, n) \in SUBSET People /\ Successors(G, n) \in SUBSET People
  BY <1>5 DEF Predecessors, Successors
<1>8. \A n : InDegree(G, n) \in Nat /\ OutDegree(G, n) \in Nat
  BY <1>6, <1>7 DEF InDegree, OutDegree
<1> QED
  BY <1>5, <1>8 DEF G

\* The lesser and the greater of two.
LEMMA MinMax ==
    ASSUME NEW x \in Int, NEW y \in Int
    PROVE  /\ Min({x, y}) = (IF x <= y THEN x ELSE y)
           /\ Max({x, y}) = (IF x <= y THEN y ELSE x)
BY DEF Min, Max

\* A collector receives from many more than it pays.
LEMMA CollectorsAreSinks ==
    ASSUME NEW G, NEW n \in G.node, InDegree(G, n) \in Nat, OutDegree(G, n) \in Nat,
           BipartiteScore(G, n)[1] > 0
    PROVE  ~Less(SinkScore(G, n), <<2, 3>>) /\ ~Less(<<1, 2>>, FanOutRatio(G, n))
<1> DEFINE in == InDegree(G, n)
           out == OutDegree(G, n)
<1>1. in > 3 /\ out <= 2
  BY DEF BipartiteScore
<1>2. Max({in, 1}) = in
  <2> HIDE DEF in
  <2>1. in \in Int /\ 1 \in Int
    BY DEF in
  <2>2. Max({in, 1}) = IF in <= 1 THEN 1 ELSE in
    BY ONLY <2>1, MinMax
  <2> QED
    BY <1>1, <2>1, <2>2 DEF in
<1>3. SinkScore(G, n) = <<in, in + out>> /\ FanOutRatio(G, n) = <<out, in>>
  BY <1>2 DEF SinkScore, FanOutRatio
<1> HIDE DEF in, out
<1>4. in \in Nat /\ out \in Nat
  BY DEF in, out
<1> QED
  BY <1>1, <1>3, <1>4 DEF Less

\* Flows, receipts, degrees and what the micro-batch stores agree with each
\* other for any accounts and rows, whatever Neo4j returns
\* (nightly_batch.py:453-568, 633-643).
THEOREM FiguresDoAgree == MetricsSpec => []FiguresAgree
<1>1. ASSUME transfers \in Seq(RowType) PROVE FiguresAgree
  <2> DEFINE G == Digraph(transfers)
             flows == Flows(transfers)
             last == LastReceipt(transfers)
  <2>1. Agree(flows, last) /\ Balanced(flows)
    BY <1>1, FiguresKept
  <2>2. \A n \in People, w \in FlowWindows :
            /\ flows[[of |-> n, side |-> "in", window |-> w]] > 0 => last[n] <= w
            /\ \A v \in FlowWindows, side \in {"in", "out"} :
                   v < w => flows[[of |-> n, side |-> side, window |-> v]]
                              <= flows[[of |-> n, side |-> side, window |-> w]]
    <3> HIDE DEF flows, last
    <3> QED
      BY <2>1 DEF Agree, Key
  <2>3. \A w \in FlowWindows :
            SumFunction([n \in People |-> flows[[of |-> n, side |-> "in", window |-> w]]])
              = SumFunction([n \in People |-> flows[[of |-> n, side |-> "out", window |-> w]]])
    <3> HIDE DEF flows
    <3>1. ASSUME NEW w \in FlowWindows, NEW side
          PROVE  SumFunction(Side(flows, side, w)) = Whole(Side(flows, side, w))
      <4> DEFINE fun == Side(flows, side, w)
      <4>1. DOMAIN fun = People
        BY DEF Side
      <4> HIDE DEF fun
      <4>2. SumFunction(fun) = Summing!Fold(0, fun, DOMAIN fun)
        BY Zenon DEF SumFunction, SumFunctionOnSet, FoldFunctionOnSet, MapThenFoldSet,
                     Summing!Fold, Summing!MapThenFoldSet, AnyOf
      <4>3. SumFunction(fun) = Whole(fun)
        BY <4>1, <4>2 DEF Whole
      <4> QED
        BY <4>3 DEF fun
    <3>2. \A w \in FlowWindows :
              SumFunction(Side(flows, "in", w)) = SumFunction(Side(flows, "out", w))
      BY <2>1, <3>1 DEF Balanced
    <3> QED
      BY <3>2, Zenon DEF Side, Key
  <2>4. \A n \in Digraph(Recent(transfers)).node :
            MicroFeatures(transfers, n).inflow_1h
              <= flows[[of |-> n, side |-> "in", window |-> 60]]
    <3> SUFFICES ASSUME NEW n \in Digraph(Recent(transfers)).node
                 PROVE  MicroFeatures(transfers, n).inflow_1h
                          <= flows[[of |-> n, side |-> "in", window |-> 60]]
      OBVIOUS
    <3>1. Recent(transfers) \in Seq(RowType)
      BY <1>1, RecentIsLess
    <3>2. n \in People
      BY <3>1, NodesArePeople
    <3>3. [of |-> n, side |-> "in", window |-> 60] \in FlowKeys
      BY <3>2 DEF FlowKeys, FlowWindows
    <3>4. Flows(Recent(transfers))[[of |-> n, side |-> "in", window |-> 60]]
            <= flows[[of |-> n, side |-> "in", window |-> 60]]
      BY <1>1, <3>3, RecentIsLess
    <3> QED
      BY <3>4 DEF MicroFeatures, Flow
  <2>5. \A n \in G.node :
            BipartiteScore(G, n)[1] > 0 =>
                ~Less(SinkScore(G, n), <<2, 3>>) /\ ~Less(<<1, 2>>, FanOutRatio(G, n))
    <3>1. \A n : InDegree(G, n) \in Nat /\ OutDegree(G, n) \in Nat
      BY <1>1, NodesArePeople
    <3> HIDE DEF G
    <3> QED
      BY <3>1, CollectorsAreSinks
  <2> QED
    BY <2>2, <2>3, <2>4, <2>5, Zenon DEF FiguresAgree
<1> QED
  BY <1>1, MetricsTyped, PTL
-----------------------------------------------------------------------------
(* Who is on a cycle: walks, the shortest of them, and the simple cycles   *)
(* they are.                                                               *)

\* What CyclesFound calls the edges of a cycle's kind, and the accounts on some.
Ends(E) == {e[1] : e \in E} \cup {e[2] : e \in E}
Simple(E) == \A n \in Ends(E) : /\ Cardinality({e \in E : e[1] = n}) = 1
                                /\ Cardinality({e \in E : e[2] = n}) = 1
Proper(E) == {e \in E : e[1] # e[2]}

\* A set of accounts that no edge leaves.
Kept(E, K) == \A e \in E : e[1] \in K => e[2] \in K

\* p leads from m to n over k edges.
Leads(p, E, m, n, k) ==
    p[0] = m /\ p[k] = n /\ \A i \in 0..(k - 1) : <<p[i], p[i + 1]>> \in E
Walk(E, m, n, k) == \E p : Leads(p, E, m, n, k)

\* Reaching is being in every set that no edge leaves.
LEMMA ReachesKept ==
    ASSUME NEW G, G.edge \subseteq G.node \X G.node, NEW m, NEW n
    PROVE  Reaches(G, m, n) <=>
               \A K \in SUBSET G.node : m \in K /\ Kept(G.edge, K) => n \in K
<1>1. ASSUME NEW K \in SUBSET G.node
      PROVE  AllSuccessors(G, K) \subseteq K <=> Kept(G.edge, K)
  <2>1. ASSUME AllSuccessors(G, K) \subseteq K, NEW e \in G.edge, e[1] \in K PROVE e[2] \in K
    <3>1. e = <<e[1], e[2]>> /\ e[2] \in G.node
      OBVIOUS
    <3>2. e[2] \in Successors(G, e[1])
      BY <3>1 DEF Successors
    <3> QED
      BY <2>1, <3>2 DEF AllSuccessors
  <2>2. ASSUME Kept(G.edge, K), NEW x \in K, NEW y \in Successors(G, x) PROVE y \in K
    BY <2>2 DEF Kept, Successors
  <2> QED
    BY <2>1, <2>2 DEF Kept, AllSuccessors
<1> QED
  BY <1>1 DEF Reaches

\* A walk goes on.
LEMMA WalkExtends ==
    ASSUME NEW E, NEW m, NEW x, NEW y, NEW k \in Nat, Walk(E, m, x, k), <<x, y>> \in E
    PROVE  Walk(E, m, y, k + 1)
<1>1. PICK p : Leads(p, E, m, x, k)
  BY DEF Walk
<1> DEFINE q == [i \in 0..(k + 1) |-> IF i <= k THEN p[i] ELSE y]
<1>2. q[0] = m /\ q[k + 1] = y
  BY <1>1 DEF Leads
<1>3. ASSUME NEW i \in 0..(k + 1 - 1) PROVE <<q[i], q[i + 1]>> \in E
  <2>1. CASE i = k
    BY <1>1, <2>1 DEF Leads
  <2>2. CASE i # k
    <3>1. i \in 0..(k - 1) /\ i <= k /\ i + 1 <= k
      BY <2>2
    <3>2. <<p[i], p[i + 1]>> \in E
      BY <1>1, <3>1 DEF Leads
    <3>3. q[i] = p[i] /\ q[i + 1] = p[i + 1]
      BY <3>1
    <3> QED
      BY <3>2, <3>3
  <2> QED
    BY <2>1, <2>2
<1> HIDE DEF q
<1> QED
  BY <1>2, <1>3 DEF Walk, Leads

\* What two accounts between which there are ways have: a walk from the one to
\* itself.  An account's transfers to itself are not needed.
LEMMA WayAndBack ==
    ASSUME NEW N, NEW E, E \subseteq N \X N, NEW m \in N, NEW n \in N, m # n,
           \A K \in SUBSET N : n \in K /\ Kept(E, K) => m \in K,
           \A K \in SUBSET N : m \in K /\ Kept(E, K) => n \in K
    PROVE  \E k \in Nat \ {0} : Walk(Proper(E), n, n, k)
<1> DEFINE K == {x \in N : \E k \in Nat \ {0} : Walk(Proper(E), n, x, k)}
<1>1. Walk(Proper(E), n, n, 0)
  <2> DEFINE p == [i \in {0} |-> n]
  <2>1. Leads(p, Proper(E), n, n, 0)
    BY DEF Leads
  <2> HIDE DEF p
  <2> QED
    BY <2>1 DEF Walk
<1>2. ASSUME NEW e \in E, e[1] \in K \cup {n}, e[1] # e[2] PROVE e[2] \in K
  <2>1. e = <<e[1], e[2]>> /\ e[2] \in N /\ e \in Proper(E)
    BY <1>2 DEF Proper
  <2>2. PICK k \in Nat : Walk(Proper(E), n, e[1], k)
    BY <1>1, <1>2
  <2>3. Walk(Proper(E), n, e[2], k + 1)
    BY <2>1, <2>2, WalkExtends
  <2>4. k + 1 \in Nat \ {0}
    OBVIOUS
  <2> QED
    BY <2>1, <2>3, <2>4
<1>3. K \in SUBSET N /\ K \cup {n} \in SUBSET N
  OBVIOUS
<1> HIDE DEF K
<1>4. Kept(E, K \cup {n}) /\ Kept(E, K)
  BY <1>2 DEF Kept
<1>5. m \in K
  BY <1>3, <1>4
<1>6. n \in K
  BY <1>3, <1>4, <1>5
<1> QED
  BY <1>6 DEF K

\* A walk that is twice at one place has a shortcut.
LEMMA WalkShortens ==
    ASSUME NEW E, NEW m, NEW n, NEW k \in Nat, NEW p, Leads(p, E, m, n, k),
           NEW i \in 0..k, NEW j \in 0..k, i < j, p[i] = p[j]
    PROVE  Walk(E, m, n, k - (j - i))
<1> DEFINE d == j - i
           q == [t \in 0..(k - d) |-> IF t <= i THEN p[t] ELSE p[t + d]]
<1>1. d \in Nat /\ d > 0 /\ k - d \in Nat /\ i <= k - d /\ i + d = j
  OBVIOUS
<1>2. \A t \in 0..(k - 1) : <<p[t], p[t + 1]>> \in E
  BY DEF Leads
<1>3. p[0] = m /\ p[k] = n
  BY DEF Leads
<1> HIDE DEF d
<1>4. q[0] = m
  BY <1>1, <1>3
<1>5. q[k - d] = n
  <2>1. CASE k - d <= i
    <3>1. k - d = i /\ k = j
      BY <1>1, <2>1
    <3>2. q[k - d] = p[i]
      BY <1>1, <3>1
    <3> QED
      BY <1>3, <3>1, <3>2
  <2>2. CASE ~(k - d <= i)
    <3>1. k - d + d = k
      BY <1>1
    <3>2. q[k - d] = p[k - d + d]
      BY <1>1, <2>2
    <3> QED
      BY <1>3, <3>1, <3>2
  <2> QED
    BY <2>1, <2>2
<1>6. ASSUME NEW t \in 0..(k - d - 1) PROVE <<q[t], q[t + 1]>> \in E
  <2>1. t \in 0..(k - d) /\ t + 1 \in 0..(k - d)
    BY <1>1
  <2>2. CASE t < i
    <3>1. t \in 0..(k - 1) /\ t <= i /\ t + 1 <= i
      BY <2>2
    <3>2. q[t] = p[t] /\ q[t + 1] = p[t + 1]
      BY <2>1, <3>1
    <3> QED
      BY <1>2, <3>1, <3>2
  <2>3. CASE t = i
    <3>1. j \in 0..(k - 1) /\ t + 1 + d = j + 1 /\ t <= i /\ ~(t + 1 <= i)
      BY <1>1, <2>3
    <3>2. q[t] = p[j] /\ q[t + 1] = p[j + 1]
      BY <2>1, <2>3, <3>1
    <3> QED
      BY <1>2, <3>1, <3>2
  <2>4. CASE t > i
    <3>1. t + d \in 0..(k - 1) /\ t + 1 + d = (t + d) + 1 /\ ~(t <= i) /\ ~(t + 1 <= i)
      BY <1>1, <2>4
    <3>2. q[t] = p[t + d] /\ q[t + 1] = p[(t + d) + 1]
      BY <2>1, <3>1
    <3> QED
      BY <1>2, <3>1, <3>2
  <2> QED
    BY <2>2, <2>3, <2>4
<1> HIDE DEF q
<1>7. Leads(q, E, m, n, k - d)
  BY <1>4, <1>5, <1>6 DEF Leads
<1> QED
  BY <1>7 DEF Walk, d

\* The shortest walk from an account to itself is a simple cycle.
LEMMA CycleThrough ==
    ASSUME NEW N, NEW E, E \subseteq N \X N, NEW n,
           \E k \in Nat \ {0} : Walk(Proper(E), n, n, k)
    PROVE  \E C \in SUBSET Proper(E) : n \in Ends(C) /\ Simple(C)
<1> DEFINE F == Proper(E)
           Lengths == {k \in Nat \ {0} : Walk(F, n, n, k)}
<1>1. PICK k \in Lengths : \A l \in Lengths : k <= l
  <2>1. Lengths \subseteq Nat /\ Lengths # {}
    OBVIOUS
  <2> HIDE DEF Lengths
  <2> QED
    BY <2>1, Edging!LeastExists
<1>2. k \in Nat /\ k > 0
  OBVIOUS
<1>3. PICK p : Leads(p, F, n, n, k)
  BY DEF Walk
<1> HIDE DEF F
<1>4. ASSUME NEW i \in 0..k, NEW j \in 0..k, i < j, p[i] = p[j] PROVE i = 0 /\ j = k
  <2>1. Walk(F, n, n, k - (j - i))
    BY <1>2, <1>3, <1>4, WalkShortens
  <2>2. k - (j - i) \in Nat /\ k - (j - i) < k
    BY <1>2, <1>4
  <2>3. k - (j - i) \notin Lengths
    BY <1>1, <1>2, <2>2
  <2>4. k - (j - i) = 0
    BY <2>1, <2>2, <2>3
  <2> QED
    BY <1>2, <1>4, <2>4
<1> HIDE DEF Lengths
<1> DEFINE C == {<<p[i], p[i + 1]>> : i \in 0..(k - 1)}
<1>5. C \in SUBSET F
  BY <1>3 DEF Leads
<1>6. \A i \in 0..(k - 1) : i \in 0..k /\ i + 1 \in 0..k /\ i # k /\ i + 1 # 0
  BY <1>2
<1>7. \A i, j \in 0..(k - 1) : p[i] = p[j] => i = j
  <2> SUFFICES ASSUME NEW i \in 0..(k - 1), NEW j \in 0..(k - 1), p[i] = p[j] PROVE i = j
    OBVIOUS
  <2>1. ~(i < j) /\ ~(j < i)
    BY <1>4, <1>6
  <2> QED
    BY <2>1
<1>8. \A i, j \in 0..(k - 1) : p[i + 1] = p[j + 1] => i = j
  <2> SUFFICES ASSUME NEW i \in 0..(k - 1), NEW j \in 0..(k - 1), p[i + 1] = p[j + 1]
               PROVE  i = j
    OBVIOUS
  <2>1. ~(i + 1 < j + 1) /\ ~(j + 1 < i + 1)
    BY <1>4, <1>6
  <2> QED
    BY <2>1
<1>9. p[0] = n /\ p[k] = n
  BY <1>3 DEF Leads
<1>10. 0 \in 0..(k - 1) /\ k - 1 \in 0..(k - 1) /\ (k - 1) + 1 = k
  BY <1>2
<1>11. n \in Ends(C)
  <2>1. <<p[0], p[0 + 1]>> \in C
    BY <1>10
  <2> HIDE DEF C
  <2> QED
    BY <1>9, <2>1 DEF Ends
\* Every place on the walk is left by one step and reached by one.
<1>12. ASSUME NEW x \in Ends(C)
       PROVE  \E i, j \in 0..(k - 1) : p[i] = x /\ p[j + 1] = x
  <2>1. PICK e \in C : x = e[1] \/ x = e[2]
    <3> HIDE DEF C
    <3> QED
      BY <1>12 DEF Ends
  <2>2. PICK l \in 0..(k - 1) : e = <<p[l], p[l + 1]>>
    OBVIOUS
  <2>3. CASE x = p[l]
    <3>1. CASE l = 0
      BY <1>9, <1>10, <2>3, <3>1
    <3>2. CASE l # 0
      <4>1. l - 1 \in 0..(k - 1) /\ (l - 1) + 1 = l
        BY <1>2, <3>2
      <4> QED
        BY <2>3, <4>1
    <3> QED
      BY <3>1, <3>2
  <2>4. CASE x = p[l + 1]
    <3>1. CASE l = k - 1
      BY <1>9, <1>10, <2>4, <3>1
    <3>2. CASE l # k - 1
      <4>1. l + 1 \in 0..(k - 1)
        BY <1>2, <3>2
      <4> QED
        BY <2>4, <4>1
    <3> QED
      BY <3>1, <3>2
  <2> QED
    BY <2>1, <2>2, <2>3, <2>4
<1>13. ASSUME NEW x \in Ends(C)
       PROVE  /\ Cardinality({e \in C : e[1] = x}) = 1
              /\ Cardinality({e \in C : e[2] = x}) = 1
  <2>1. PICK i \in 0..(k - 1), j \in 0..(k - 1) : p[i] = x /\ p[j + 1] = x
    BY <1>12, <1>13
  <2>2. {e \in C : e[1] = x} = {<<p[i], p[i + 1]>>}
    BY <1>7, <2>1
  <2>3. {e \in C : e[2] = x} = {<<p[j], p[j + 1]>>}
    BY <1>8, <2>1
  <2> QED
    BY <2>2, <2>3, FS_Singleton
<1> HIDE DEF C
<1>14. Simple(C)
  BY <1>13 DEF Simple
<1> QED
  BY <1>5, <1>11, <1>14 DEF F

\* On a simple cycle whoever is reached leads back.
LEMMA CycleReturns ==
    ASSUME NEW N, IsFiniteSet(N), NEW E, E \subseteq N \X N,
           NEW C, C \subseteq Proper(E), Simple(C), NEW n \in Ends(C)
    PROVE  \E m \in N \ {n} :
               /\ \A K \in SUBSET N : n \in K /\ Kept(E, K) => m \in K
               /\ \A K \in SUBSET N : m \in K /\ Kept(E, K) => n \in K
<1>1. IsFiniteSet(C)
  <2>1. IsFiniteSet(N \X N)
    BY FS_Product
  <2>2. C \subseteq N \X N
    BY DEF Proper
  <2> QED
    BY <2>1, <2>2, FS_Subset
<1>2. \A e \in C : e = <<e[1], e[2]>> /\ e[1] \in N /\ e[2] \in N /\ e[1] # e[2] /\ e \in E
  BY DEF Proper
<1>3. ASSUME NEW x \in Ends(C)
      PROVE  /\ \E e \in C : e[1] = x
             /\ \A e, f \in C : e[1] = x /\ f[1] = x => e = f
             /\ \A e, f \in C : e[2] = x /\ f[2] = x => e = f
  <2> DEFINE From == {e \in C : e[1] = x}
             To == {e \in C : e[2] = x}
  <2>1. Cardinality(From) = 1 /\ Cardinality(To) = 1
    BY <1>3 DEF Simple
  <2>2. IsFiniteSet(From) /\ IsFiniteSet(To)
    BY <1>1, FS_Subset
  <2> HIDE DEF From, To
  <2>3. (\E e : From = {e}) /\ (\E e : To = {e})
    BY <2>1, <2>2, FS_Singleton
  <2> QED
    BY <2>3 DEF From, To
<1>4. \A e \in C : e[1] \in Ends(C) /\ e[2] \in Ends(C)
  BY DEF Ends
<1>5. PICK out \in C : out[1] = n
  BY <1>3
<1> DEFINE m == out[2]
<1>6. m \in N \ {n} /\ m \in Ends(C) /\ out \in E
  BY <1>2, <1>4, <1>5
<1>7. \A K \in SUBSET N : n \in K /\ Kept(E, K) => m \in K
  BY <1>5, <1>6 DEF Kept
<1>8. ASSUME NEW K \in SUBSET N, m \in K, Kept(E, K) PROVE n \in K
  <2> DEFINE I == K \cap Ends(C)
             after == [x \in I |-> (CHOOSE e \in C : e[1] = x)[2]]
  <2>1. ASSUME NEW x \in I
        PROVE  \E e \in C : e[1] = x /\ e[2] = after[x] /\ after[x] \in I
    <3> DEFINE e == CHOOSE f \in C : f[1] = x
    <3>1. e \in C /\ e[1] = x
      BY <1>3, <2>1
    <3>2. after[x] = e[2]
      BY <2>1
    <3> HIDE DEF e, after
    <3>3. e[2] \in K /\ e[2] \in Ends(C)
      BY <1>2, <1>4, <1>8, <2>1, <3>1 DEF Kept
    <3> QED
      BY <3>1, <3>2, <3>3
  <2>2. after \in [I -> I]
    <3>1. \A x \in I : after[x] \in I
      BY <2>1
    <3> QED
      BY <3>1
  <2> HIDE DEF after
  <2>3. \A x, y \in I : after[x] = after[y] => x = y
    <3> SUFFICES ASSUME NEW x \in I, NEW y \in I, after[x] = after[y] PROVE x = y
      OBVIOUS
    <3>1. PICK e \in C : e[1] = x /\ e[2] = after[x] /\ after[x] \in I
      BY <2>1
    <3>2. PICK f \in C : f[1] = y /\ f[2] = after[y]
      BY <2>1
    <3>3. e = f
      BY <1>3, <3>1, <3>2
    <3> QED
      BY <3>1, <3>2, <3>3
  <2>4. IsFiniteSet(I)
    <3>1. I \subseteq N
      OBVIOUS
    <3> QED
      BY <3>1, FS_Subset
  <2>5. m \in I
    BY <1>6, <1>8
  <2> HIDE DEF I
  <2>6. after \in Injection(I, I)
    BY <2>2, <2>3 DEF Injection, IsInjective
  <2>7. after \in Surjection(I, I)
    BY <2>4, <2>6, FS_Injection
  <2>8. PICK x \in I : after[x] = m
    BY <2>5, <2>7 DEF Surjection
  <2>9. PICK e \in C : e[1] = x /\ e[2] = m
    BY <2>1, <2>8
  <2>10. e = out
    BY <1>3, <1>6, <2>9
  <2> QED
    BY <1>5, <2>9, <2>10 DEF I
<1> QED
  BY <1>6, <1>7, <1>8

\* What a graph of rows is.
LEMMA DigraphIs ==
    ASSUME NEW rows \in Seq(RowType)
    PROVE  LET G == Digraph(rows)
           IN  IsFiniteSet(G.node) /\ G.edge \subseteq G.node \X G.node
<1> DEFINE G == Digraph(rows)
           edges == DOMAIN Weights(rows)
<1>1. G.node = {e[1] : e \in edges} \cup {e[2] : e \in edges} /\ G.edge = edges
  BY DEF Digraph
<1>2. \A e \in edges : e = <<e[1], e[2]>>
  <2>1. edges = Pairs(rows, 1..Len(rows))
    BY EdgesArePairs
  <2>2. \A e \in Pairs(rows, 1..Len(rows)) : e = <<e[1], e[2]>>
    BY DEF Pairs
  <2> QED
    BY <2>1, <2>2
<1>3. G.node \subseteq People
  BY NodesArePeople
<1>4. IsFiniteSet(People)
  BY MetricsAssumption
<1> HIDE DEF G, edges
<1>5. IsFiniteSet(G.node)
  BY <1>3, <1>4, FS_Subset
<1>6. G.edge \subseteq G.node \X G.node
  BY <1>1, <1>2
<1> QED
  BY <1>5, <1>6 DEF G

\* Of a finite graph the members of cycles are the accounts on simple ones.
LEMMA MembersAreOnCycles ==
    ASSUME NEW G, IsFiniteSet(G.node), G.edge \subseteq G.node \X G.node
    PROVE  CycleMembers(G) = UNION {Ends(E) : E \in {C \in SUBSET Proper(G.edge) : Simple(C)}}
<1> DEFINE Mutual(m, n) ==
               /\ \A K \in SUBSET G.node : n \in K /\ Kept(G.edge, K) => m \in K
               /\ \A K \in SUBSET G.node : m \in K /\ Kept(G.edge, K) => n \in K
<1>1. \A n \in G.node : n \in CycleMembers(G) <=> \E m \in G.node \ {n} : Mutual(m, n)
  BY ReachesKept DEF CycleMembers
<1>2. ASSUME NEW n \in CycleMembers(G)
      PROVE  \E C \in SUBSET Proper(G.edge) : n \in Ends(C) /\ Simple(C)
  <2>1. n \in G.node
    BY DEF CycleMembers
  <2>2. PICK m \in G.node \ {n} : Mutual(m, n)
    BY <1>1, <2>1
  <2>3. \E k \in Nat \ {0} : Walk(Proper(G.edge), n, n, k)
    BY <2>1, <2>2, WayAndBack
  <2> QED
    BY <2>3, CycleThrough
<1>3. ASSUME NEW C \in SUBSET Proper(G.edge), Simple(C), NEW n \in Ends(C)
      PROVE  n \in CycleMembers(G)
  <2>1. n \in G.node
    BY DEF Ends, Proper
  <2>2. \E m \in G.node \ {n} : Mutual(m, n)
    BY <1>3, CycleReturns
  <2> QED
    BY <1>1, <2>1, <2>2
<1> QED
  BY <1>2, <1>3

\* A node is a cycle member exactly when it is on a simple cycle of two or more
\* accounts, for any accounts and rows (nightly_batch.py:440-450).
THEOREM CyclesAreFound == MetricsSpec => []CyclesFound
<1>1. ASSUME transfers \in Seq(RowType) PROVE CyclesFound
  <2> DEFINE G == Digraph(transfers)
  <2>1. IsFiniteSet(G.node) /\ G.edge \subseteq G.node \X G.node
    BY <1>1, DigraphIs
  <2> HIDE DEF G
  <2>2. CycleMembers(G) = UNION {Ends(E) : E \in {C \in SUBSET Proper(G.edge) : Simple(C)}}
    BY <2>1, MembersAreOnCycles
  <2> QED
    BY <2>2, Zenon DEF CyclesFound, Ends, Proper, Simple, G
<1> QED
  BY <1>1, MetricsTyped, PTL
-----------------------------------------------------------------------------
(* Graphs that clients post.                                               *)

NamedOf(e, kept) == KeepNamed(kept, e)
Naming == INSTANCE FoldLemmas WITH op <- NamedOf, pick <- Latest

SnapshotSpec == SnapshotInit /\ [][SnapshotNext]_snapshot

\* What is scored of one more edge.
LEMMA ScoredGrows ==
    ASSUME NEW rows \in Seq(Edges), NEW e \in Edges
    PROVE  /\ Scored(rows) \in Seq(Edges)
           /\ Scored(Append(rows, e)) = KeepNamed(Scored(rows), e)
<1> DEFINE n == Len(rows)
           more == Append(rows, e)
           F(some, S) == Naming!Fold(<<>>, some, S)
<1>1. n \in Nat /\ n + 1 \in Nat /\ DOMAIN rows = 1..n
  OBVIOUS
<1>2. DOMAIN more = 1..(n + 1) /\ more[n + 1] = e /\ \A i \in 1..n : more[i] = rows[i]
  OBVIOUS
<1>3. \A some : Scored(some) = F(some, DOMAIN some)
  BY Zenon DEF Scored, FoldLeft, Naming!Fold, MapThenFoldSet, Naming!MapThenFoldSet,
               NamedOf, Latest
<1>4. \A k \in Nat : Naming!IsFiniteSet(1..k) /\ Naming!Picks(1..k)
  <2> SUFFICES ASSUME NEW k \in Nat PROVE Naming!IsFiniteSet(1..k) /\ Naming!Picks(1..k)
    OBVIOUS
  <2>1. Naming!IsFiniteSet(1..k)
    BY Naming!FS_Interval
  <2>2. \A S \in SUBSET (1..k) : S # {} => Latest(S) \in S
    BY LatestIsOne
  <2> QED
    BY <2>1, <2>2 DEF Naming!Picks
<1>5. F(rows, 1..n) \in Seq(Edges)
  <2> DEFINE T == Seq(Edges)
             I == 1..n
  <2>1. <<>> \in T
    OBVIOUS
  <2>2. \A i \in I, kept \in T : NamedOf(rows[i], kept) \in T
    BY DEF NamedOf, KeepNamed
  <2>3. Naming!IsFiniteSet(I) /\ Naming!Picks(I)
    BY <1>1, <1>4
  <2> HIDE DEF T, I
  <2>4. Naming!Fold(<<>>, rows, I) \in T
    BY <2>1, <2>2, <2>3, Naming!FoldStays
  <2> QED
    BY <2>4 DEF T, I
<1>6. F(more, 1..(n + 1)) = NamedOf(e, F(rows, 1..n))
  <2> DEFINE I == 1..n
             J == 1..(n + 1)
  <2>1. Latest(J) = n + 1
    <3>1. n + 1 \in J /\ J \in SUBSET (1..(n + 1)) /\ J # {}
      BY <1>1
    <3>2. Latest(J) \in J /\ n + 1 <= Latest(J)
      BY <1>1, <3>1, LatestIsOne
    <3> QED
      BY <1>1, <3>2
  <2>2. J \ {n + 1} = I /\ J # {}
    BY <1>1
  <2>3. Naming!IsFiniteSet(J) /\ Naming!Picks(J) /\ Naming!IsFiniteSet(I) /\ Naming!Picks(I)
    BY <1>1, <1>4
  <2>4. \A i \in I : more[i] = rows[i]
    BY <1>2
  <2> HIDE DEF I, J, more
  <2>5. Naming!Fold(<<>>, more, J)
            = NamedOf(more[Latest(J)], Naming!Fold(<<>>, more, J \ {Latest(J)}))
    BY <2>2, <2>3, Naming!FoldStep
  <2>6. Naming!Fold(<<>>, more, I) = Naming!Fold(<<>>, rows, I)
    BY <2>3, <2>4, Naming!FoldAgrees
  <2>7. Naming!Fold(<<>>, more, J) = NamedOf(e, Naming!Fold(<<>>, rows, I))
    BY <1>2, <2>1, <2>2, <2>5, <2>6
  <2> QED
    BY <2>7 DEF I, J
<1> HIDE DEF F, more, n
<1>7. Scored(rows) = F(rows, 1..n) /\ Scored(more) = F(more, 1..(n + 1))
  BY <1>1, <1>2, <1>3
<1>8. Scored(rows) \in Seq(Edges) /\ Scored(more) = KeepNamed(Scored(rows), e)
  BY <1>5, <1>6, <1>7, Zenon DEF NamedOf
<1> QED
  BY <1>8 DEF more
-----------------------------------------------------------------------------
(* Finite sets of numbers.                                                 *)

\* The values of a function on a finite set are finitely many.
LEMMA ValuesFinite ==
    ASSUME NEW S, IsFiniteSet(S), NEW f
    PROVE  IsFiniteSet({f[x] : x \in S})
<1> DEFINE T == {f[x] : x \in S}
           g == [x \in S |-> f[x]]
<1>1. g \in Surjection(S, T)
  BY DEF Surjection
<1> QED
  BY <1>1, FS_Surjection

\* One of finitely many numbers is the largest.
LEMMA LargestIs ==
    ASSUME NEW S, IsFiniteSet(S), S \subseteq Int, S # {}
    PROVE  Max(S) \in S /\ \A x \in S : x <= Max(S)
<1>1. Naming!IsFiniteSet(S)
  BY DEF IsFiniteSet, Naming!IsFiniteSet
<1>2. PICK x \in S : \A y \in S : y <= x
  BY ONLY <1>1, S \subseteq Int, S # {}, Naming!GreatestExists
<1>3. \A y \in S : x >= y
  BY <1>2
<1> QED
  BY <1>3 DEF Max
-----------------------------------------------------------------------------
(* The graph of the edges, and the graph with one more.                    *)

IsGraph(G) == IsFiniteSet(G.node) /\ G.edge \subseteq G.node \X G.node
Within(G, H) == G.node \subseteq H.node /\ G.edge \subseteq H.edge

\* The graph of some edges is finite, and not without nodes.
LEMMA SnapshotGraphIs ==
    ASSUME NEW rows \in Seq(Edges)
    PROVE  /\ IsGraph(SnapshotGraph(rows))
           /\ rows # <<>> => SnapshotGraph(rows).node # {}
           /\ \A e \in SnapshotGraph(rows).edge :
                  \E i \in DOMAIN rows : rows[i].source = e[1] /\ rows[i].target = e[2]
<1> DEFINE G == SnapshotGraph(rows)
           I == DOMAIN rows
           pair == [i \in I |-> <<rows[i].source, rows[i].target>>]
           first == [e \in G.edge |-> e[1]]
           second == [e \in G.edge |-> e[2]]
<1>1. G.edge = {<<e.source, e.target>> : e \in ToSet(rows)}
      /\ G.node = {e[1] : e \in G.edge} \cup {e[2] : e \in G.edge}
  BY DEF SnapshotGraph
<1>2. ToSet(rows) = {rows[i] : i \in I}
  BY DEF ToSet
<1>3. G.edge = {pair[i] : i \in I}
  BY <1>1, <1>2
<1>4. I = 1..Len(rows) /\ Len(rows) \in Nat
  OBVIOUS
<1>5. IsFiniteSet(I)
  BY <1>4, FS_Interval
<1>6. \A e \in G.edge : /\ e = <<e[1], e[2]>>
                        /\ \E i \in I : rows[i].source = e[1] /\ rows[i].target = e[2]
  BY <1>3
<1> HIDE DEF G, I, pair
<1>7. IsFiniteSet(G.edge)
  BY <1>3, <1>5, ValuesFinite
<1>8. IsFiniteSet({first[e] : e \in G.edge}) /\ IsFiniteSet({second[e] : e \in G.edge})
  <2> HIDE DEF first, second
  <2> QED
    BY <1>7, ValuesFinite
<1>9. {first[e] : e \in G.edge} = {e[1] : e \in G.edge}
      /\ {second[e] : e \in G.edge} = {e[2] : e \in G.edge}
  OBVIOUS
<1>10. IsFiniteSet(G.node)
  <2>1. G.node = {first[e] : e \in G.edge} \cup {second[e] : e \in G.edge}
    BY <1>1, <1>9, Zenon
  <2> HIDE DEF first, second
  <2>2. IsFiniteSet({first[e] : e \in G.edge} \cup {second[e] : e \in G.edge})
    BY <1>8, FS_Union
  <2> QED
    BY <2>1, <2>2, Zenon
<1>11. G.edge \subseteq G.node \X G.node
  BY <1>1, <1>6
<1>12. rows # <<>> => G.node # {}
  <2> SUFFICES ASSUME rows # <<>> PROVE G.node # {}
    OBVIOUS
  <2>1. Len(rows) # 0
    OBVIOUS
  <2>2. 1 \in I
    BY <1>4, <2>1
  <2>3. pair[1] \in G.edge
    BY <1>3, <2>2
  <2>4. pair[1][1] \in {e[1] : e \in G.edge}
    BY <2>3
  <2> QED
    BY <1>1, <2>4
<1> QED
  BY <1>6, <1>10, <1>11, <1>12 DEF IsGraph, G, I

\* One more edge adds itself and its accounts.
LEMMA SnapshotGraphGrows ==
    ASSUME NEW rows \in Seq(Edges), NEW e \in Edges
    PROVE  /\ Within(SnapshotGraph(rows), SnapshotGraph(Append(rows, e)))
           /\ SnapshotGraph(Append(rows, e)).edge
                  = SnapshotGraph(rows).edge \cup {<<e.source, e.target>>}
<1> DEFINE more == Append(rows, e)
           PairsOf(some) == {<<x.source, x.target>> : x \in ToSet(some)}
<1>1. \A some : SnapshotGraph(some).edge = PairsOf(some)
                /\ SnapshotGraph(some).node
                       = {x[1] : x \in PairsOf(some)} \cup {x[2] : x \in PairsOf(some)}
  BY DEF SnapshotGraph
<1>2. ToSet(more) = ToSet(rows) \cup {e}
  <2>1. DOMAIN rows = 1..Len(rows) /\ DOMAIN more = 1..(Len(rows) + 1) /\ Len(rows) \in Nat
    OBVIOUS
  <2>2. (\A i \in 1..Len(rows) : more[i] = rows[i]) /\ more[Len(rows) + 1] = e
    OBVIOUS
  <2> HIDE DEF more
  <2>3. ASSUME NEW i \in DOMAIN more PROVE more[i] \in ToSet(rows) \cup {e}
    <3>1. CASE i = Len(rows) + 1
      BY <2>2, <3>1
    <3>2. CASE i # Len(rows) + 1
      <4>1. i \in 1..Len(rows)
        BY <2>1, <3>2
      <4> QED
        BY <2>1, <2>2, <4>1 DEF ToSet
    <3> QED
      BY <3>1, <3>2
  <2>4. ASSUME NEW i \in DOMAIN rows PROVE rows[i] \in ToSet(more)
    <3>1. i \in DOMAIN more /\ more[i] = rows[i]
      BY <2>1, <2>2
    <3> QED
      BY <3>1 DEF ToSet
  <2>5. e \in ToSet(more)
    BY <2>1, <2>2 DEF ToSet
  <2> QED
    BY <2>3, <2>4, <2>5 DEF ToSet
<1> HIDE DEF more
<1>3. PairsOf(more) = PairsOf(rows) \cup {<<e.source, e.target>>}
  BY <1>2
<1> HIDE DEF PairsOf
<1>4. Within(SnapshotGraph(rows), SnapshotGraph(more))
  BY <1>1, <1>3 DEF Within
<1>5. SnapshotGraph(more).edge = SnapshotGraph(rows).edge \cup {<<e.source, e.target>>}
  BY <1>1, <1>3
<1> QED
  BY <1>4, <1>5 DEF more

\* What is reached in a graph is reached in a larger one.
LEMMA ReachesGrows ==
    ASSUME NEW G, NEW H, IsGraph(G), IsGraph(H), Within(G, H),
           NEW m \in G.node, NEW n, Reaches(G, m, n)
    PROVE  Reaches(H, m, n)
<1> SUFFICES ASSUME NEW K \in SUBSET H.node, m \in K, Kept(H.edge, K) PROVE n \in K
  BY ReachesKept DEF IsGraph
<1> DEFINE L == K \cap G.node
<1>1. L \in SUBSET G.node /\ m \in L
  OBVIOUS
<1>2. Kept(G.edge, L)
  BY DEF Kept, Within, IsGraph
<1>3. n \in L
  BY <1>1, <1>2, ReachesKept DEF IsGraph
<1> QED
  BY <1>3

\* So a circle stays one.
LEMMA CircularStays ==
    ASSUME NEW G, NEW H, IsGraph(G), IsGraph(H), Within(G, H), Circular(G)
    PROVE  Circular(H)
BY ReachesGrows DEF Circular, Within

\* And a fan.
LEMMA FanStays ==
    ASSUME NEW G, NEW H, IsGraph(G), IsGraph(H), Within(G, H),
           \E n \in G.node : Cardinality(Successors(G, n)) >= 4
    PROVE  \E n \in H.node : Cardinality(Successors(H, n)) >= 4
<1>1. PICK n \in G.node : Cardinality(Successors(G, n)) >= 4
  OBVIOUS
<1>2. Successors(G, n) \subseteq Successors(H, n) /\ Successors(H, n) \subseteq H.node
      /\ n \in H.node
  BY DEF Successors, Within
<1>3. IsFiniteSet(Successors(H, n))
  BY <1>2, FS_Subset DEF IsGraph
<1>4. /\ Cardinality(Successors(G, n)) <= Cardinality(Successors(H, n))
      /\ Cardinality(Successors(G, n)) \in Nat /\ Cardinality(Successors(H, n)) \in Nat
  BY <1>2, <1>3, FS_Subset, FS_CardinalityType
<1>5. Cardinality(Successors(H, n)) >= 4
  BY <1>1, <1>4
<1> QED
  BY <1>2, <1>5
-----------------------------------------------------------------------------
(* The longest path of an acyclic graph: that there is one, and that it    *)
(* does not get shorter.                                                   *)

\* The lengths of the paths on from an account.
Lengths(G, d, n) == {0} \cup {1 + d[m] : m \in Successors(G, n)}
Depths(G, d) == d = [n \in G.node |-> Max(Lengths(G, d, n))]

\* Among some accounts of an acyclic graph there is one that sent nothing to them.
LEMMA SinkAmong ==
    ASSUME NEW G, IsGraph(G), Acyclic(G), NEW S, S \subseteq G.node, S # {}
    PROVE  \E n \in S : \A m \in S : m \notin Successors(G, n)
<1> DEFINE From(n) == {x \in G.node : Reaches(G, n, x)}
           T == {From(n) : n \in S}
<1>1. T \subseteq SUBSET G.node /\ T # {}
  OBVIOUS
<1>2. PICK A \in T : \A B \in T : B \subseteq A => B = A
  <2>1. Naming!IsFiniteSet(G.node)
    BY DEF IsGraph, IsFiniteSet, Naming!IsFiniteSet
  <2> HIDE DEF T
  <2> QED
    BY ONLY <1>1, <2>1, Naming!SmallestExists
<1>3. PICK n \in S : A = From(n)
  OBVIOUS
<1>4. ASSUME NEW m \in S, m \in Successors(G, n) PROVE FALSE
  <2>1. <<n, m>> \in G.edge /\ m \in G.node /\ n \in G.node
    BY <1>4 DEF Successors
  <2>2. m # n
    BY <2>1 DEF Acyclic
  <2>3. Reaches(G, n, m)
    BY <2>1, ReachesKept DEF IsGraph, Kept
  <2>4. From(m) \subseteq From(n)
    BY <2>3 DEF Reaches
  <2>5. From(m) = From(n)
    BY <1>2, <1>3, <2>4
  <2>6. Reaches(G, m, n)
    <3>1. n \in From(n)
      BY <2>1 DEF Reaches
    <3> QED
      BY <2>5, <3>1
  <2> QED
    BY <2>1, <2>2, <2>3, <2>6 DEF Acyclic, Circular
<1> QED
  BY <1>4

\* The lengths on from an account are finitely many numbers if those of its
\* successors are numbers.
LEMMA LengthsAre ==
    ASSUME NEW G, IsGraph(G), NEW n, NEW d, \A m \in Successors(G, n) : d[m] \in Nat
    PROVE  /\ Max(Lengths(G, d, n)) \in Nat
           /\ Max(Lengths(G, d, n)) \in Lengths(G, d, n)
           /\ \A x \in Lengths(G, d, n) : x <= Max(Lengths(G, d, n))
<1> DEFINE S == Successors(G, n)
           L == Lengths(G, d, n)
           f == [m \in S |-> 1 + d[m]]
<1>1. IsFiniteSet(S)
  <2>1. S \subseteq G.node
    BY DEF Successors
  <2> QED
    BY <2>1, FS_Subset DEF IsGraph
<1>2. {f[m] : m \in S} = {1 + d[m] : m \in S}
  OBVIOUS
<1>3. IsFiniteSet({f[m] : m \in S})
  <2> HIDE DEF f, S
  <2> QED
    BY <1>1, ValuesFinite
<1>4. IsFiniteSet({0} \cup {1 + d[m] : m \in S})
  BY <1>2, <1>3, FS_Union, FS_Singleton
<1>5. L \subseteq Nat /\ L # {}
  BY DEF Lengths
<1>6. IsFiniteSet(L) /\ L \subseteq Int
  BY <1>4, <1>5 DEF Lengths
<1> HIDE DEF L
<1>7. Max(L) \in L /\ \A x \in L : x <= Max(L)
  BY ONLY <1>5, <1>6, LargestIs
<1> QED
  BY <1>5, <1>7 DEF L

\* The depths are numbers.
LEMMA DepthsAreNumbers ==
    ASSUME NEW G, IsGraph(G), Acyclic(G), NEW d, Depths(G, d)
    PROVE  d \in [G.node -> Nat]
<1> DEFINE Bad == {n \in G.node : d[n] \notin Nat}
<1>1. \A n \in G.node : d[n] = Max(Lengths(G, d, n))
  BY Zenon DEF Depths
<1>2. Bad = {}
  <2> SUFFICES ASSUME Bad # {} PROVE FALSE
    OBVIOUS
  <2>1. PICK n \in Bad : \A m \in Bad : m \notin Successors(G, n)
    <3>1. Bad \subseteq G.node
      OBVIOUS
    <3> HIDE DEF Bad
    <3> QED
      BY <3>1, SinkAmong
  <2>2. \A m \in Successors(G, n) : d[m] \in Nat
    BY <2>1 DEF Successors
  <2>3. Max(Lengths(G, d, n)) \in Nat
    BY <2>2, LengthsAre
  <2> QED
    BY <1>1, <2>3
<1>3. d = [n \in G.node |-> d[n]]
  BY DEF Depths
<1> QED
  BY <1>2, <1>3

\* An acyclic graph has depths.
LEMMA DepthsExist ==
    ASSUME NEW G, IsGraph(G), Acyclic(G)
    PROVE  \E d : Depths(G, d)
<1> DEFINE N == G.node
           Deep(K) == /\ \A n \in K : Successors(G, n) \subseteq K
                      /\ \E d : \A n \in K : d[n] \in Nat /\ d[n] = Max(Lengths(G, d, n))
           T == {N \ K : K \in {L \in SUBSET N : Deep(L)}}
<1>1. Deep({}) /\ {} \in SUBSET N
  OBVIOUS
<1>2. T \subseteq SUBSET N /\ T # {}
  <2> HIDE DEF Deep
  <2> QED
    BY <1>1
<1>3. PICK R \in T : \A B \in T : B \subseteq R => B = R
  <2>1. Naming!IsFiniteSet(N)
    BY DEF IsGraph, IsFiniteSet, Naming!IsFiniteSet
  <2> HIDE DEF T
  <2> QED
    BY ONLY <1>2, <2>1, Naming!SmallestExists
<1>4. PICK K \in SUBSET N : R = N \ K /\ Deep(K)
  <2> HIDE DEF Deep
  <2> QED
    OBVIOUS
<1>5. PICK d : \A n \in K : d[n] \in Nat /\ d[n] = Max(Lengths(G, d, n))
  BY <1>4
<1>6. \A n \in K : Successors(G, n) \subseteq K
  BY <1>4
<1>7. K = N
  <2> SUFFICES ASSUME R # {} PROVE FALSE
    BY <1>4
  <2>1. R \subseteq G.node
    BY <1>4
  <2>2. PICK n \in R : \A m \in R : m \notin Successors(G, n)
    BY <2>1, SinkAmong
  <2>3. Successors(G, n) \subseteq K /\ n \in N /\ n \notin K
    BY <1>4, <2>2 DEF Successors
  <2> DEFINE J == K \cup {n}
             e == [x \in J |-> IF x = n THEN Max(Lengths(G, d, n)) ELSE d[x]]
  <2>4. \A x \in J : Successors(G, x) \subseteq K
    BY <1>6, <2>3
  <2>5. \A m \in K : e[m] = d[m]
    BY <2>3
  <2>6. e[n] = Max(Lengths(G, d, n))
    OBVIOUS
  <2>7. J \in SUBSET N /\ n \in J
    BY <2>3
  <2> HIDE DEF e
  <2>8. \A x \in J : Lengths(G, e, x) = Lengths(G, d, x)
    BY <2>4, <2>5 DEF Lengths
  <2>9. Max(Lengths(G, d, n)) \in Nat
    BY <1>5, <2>3, LengthsAre
  <2>10. ASSUME NEW x \in J PROVE e[x] \in Nat /\ e[x] = Max(Lengths(G, e, x))
    BY <1>5, <2>5, <2>6, <2>8, <2>9
  <2>11. Deep(J)
    <3>1. \A x \in J : Successors(G, x) \subseteq J
      BY <2>4
    <3> HIDE DEF J
    <3> QED
      BY <2>10, <3>1
  <2>12. N \ J \in T
    <3> HIDE DEF Deep, J
    <3> QED
      BY <2>7, <2>11
  <2>13. N \ J \subseteq R /\ n \in R /\ n \notin N \ J
    BY <1>4, <2>3
  <2> QED
    BY <1>3, <2>12, <2>13
<1> DEFINE f == [n \in N |-> d[n]]
<1>8. \A n \in N : Lengths(G, f, n) = Lengths(G, d, n)
  BY DEF Lengths, Successors
<1>9. \A n \in N : f[n] = Max(Lengths(G, f, n))
  BY <1>5, <1>7, <1>8
<1>10. f = [n \in N |-> f[n]]
  OBVIOUS
<1> HIDE DEF f
<1>11. f = [n \in N |-> Max(Lengths(G, f, n))]
  BY <1>9, <1>10
<1> QED
  BY <1>11 DEF Depths

\* What LongestPath computes.
LEMMA LongestPathIs ==
    ASSUME NEW G, IsGraph(G), Acyclic(G), G.node # {}
    PROVE  \E d \in [G.node -> Nat] :
               /\ \A n \in G.node : d[n] = Max(Lengths(G, d, n))
               /\ LongestPath(G) \in {d[n] : n \in G.node}
               /\ \A n \in G.node : d[n] <= LongestPath(G)
<1> DEFINE d == CHOOSE f : Depths(G, f)
           D == {d[n] : n \in G.node}
<1>1. Depths(G, d)
  BY DepthsExist
<1>2. LongestPath(G) = Max(D)
  BY Zenon DEF LongestPath, Depths, Lengths
<1> HIDE DEF d
<1>3. d \in [G.node -> Nat]
  BY <1>1, DepthsAreNumbers
<1>4. \A n \in G.node : d[n] = Max(Lengths(G, d, n))
  BY <1>1, Zenon DEF Depths
<1>5. IsFiniteSet(D)
  BY ValuesFinite DEF IsGraph
<1>6. D \subseteq Int /\ D # {}
  BY <1>3
<1>7. Max(D) \in D /\ \A x \in D : x <= Max(D)
  <2> HIDE DEF D
  <2> QED
    BY ONLY <1>5, <1>6, LargestIs
<1> QED
  BY <1>2, <1>3, <1>4, <1>7

\* The longest path of a larger graph is no shorter.
LEMMA LongestPathGrows ==
    ASSUME NEW G, NEW H, IsGraph(G), IsGraph(H), Within(G, H),
           Acyclic(G), Acyclic(H), G.node # {}
    PROVE  LongestPath(G) \in Nat /\ LongestPath(H) \in Nat /\ LongestPath(G) <= LongestPath(H)
<1>1. PICK d \in [G.node -> Nat] :
          /\ \A n \in G.node : d[n] = Max(Lengths(G, d, n))
          /\ LongestPath(G) \in {d[n] : n \in G.node}
  BY LongestPathIs
<1>2. H.node # {}
  BY DEF Within
<1>3. PICK e \in [H.node -> Nat] :
          /\ \A n \in H.node : e[n] = Max(Lengths(H, e, n))
          /\ LongestPath(H) \in {e[n] : n \in H.node}
          /\ \A n \in H.node : e[n] <= LongestPath(H)
  BY <1>2, LongestPathIs
<1> DEFINE Bad == {n \in G.node : ~(d[n] <= e[n])}
<1>4. Bad = {}
  <2> SUFFICES ASSUME Bad # {} PROVE FALSE
    OBVIOUS
  <2>1. PICK n \in Bad : \A m \in Bad : m \notin Successors(G, n)
    <3>1. Bad \subseteq G.node
      OBVIOUS
    <3> HIDE DEF Bad
    <3> QED
      BY <3>1, SinkAmong
  <2>2. n \in G.node /\ n \in H.node
    BY DEF Within
  <2>3. \A m \in Successors(G, n) : m \in G.node /\ m \in Successors(H, n) /\ d[m] <= e[m]
    BY <2>1 DEF Successors, Within
  <2>4. (\A m \in Successors(G, n) : d[m] \in Nat) /\ (\A m \in Successors(H, n) : e[m] \in Nat)
    BY DEF Successors
  <2>5. d[n] \in Lengths(G, d, n)
    BY <1>1, <2>2, <2>4, LengthsAre
  <2>6. \A x \in Lengths(H, e, n) : x <= e[n]
    BY <1>3, <2>2, <2>4, LengthsAre
  <2>7. d[n] <= e[n]
    <3>1. CASE d[n] = 0
      BY <2>2, <3>1
    <3>2. CASE d[n] # 0
      <4>1. PICK m \in Successors(G, n) : d[n] = 1 + d[m]
        BY <2>5, <3>2 DEF Lengths
      <4>2. 1 + e[m] <= e[n]
        BY <2>3, <2>6, <4>1 DEF Lengths
      <4>3. d[m] <= e[m] /\ d[m] \in Nat /\ e[m] \in Nat /\ e[n] \in Nat
        BY <2>2, <2>3, <2>4, <4>1
      <4> QED
        BY <4>1, <4>2, <4>3
    <3> QED
      BY <3>1, <3>2
  <2> QED
    BY <2>1, <2>7
<1>5. PICK n \in G.node : LongestPath(G) = d[n]
  BY <1>1
<1>6. d[n] <= e[n] /\ e[n] <= LongestPath(H) /\ n \in H.node
  BY <1>3, <1>4 DEF Within
<1>7. d[n] \in Nat /\ e[n] \in Nat /\ LongestPath(H) \in Nat
  BY <1>3, <1>6
<1> QED
  BY <1>5, <1>6, <1>7
-----------------------------------------------------------------------------
(* The signals of the gates, and which of them alone make a fraud.         *)

FraudTypes == {"circular_transfer_fraud", "smurfing_fan_out", "mule_network_aggregation",
               "rapid_relay_mule", "layering_chain", "structuring_below_threshold",
               "rapid_transfer_burst", "large_value_transfer"}
SignalType == [type : FraudTypes, score : Int]
SignalLists == Seq(SignalType)
Silent == <<>>
Raises(signals) == \E s \in ToSet(signals) : s.score >= 8300

\* The signals of one gate after those of another.
LEMMA JoinedSignals ==
    ASSUME NEW s \in SignalLists, NEW t \in SignalLists
    PROVE  s \o t \in SignalLists /\ (Raises(s \o t) <=> Raises(s) \/ Raises(t))
<1> DEFINE m == Len(s)
           n == Len(t)
           st == s \o t
<1>1. m \in Nat /\ n \in Nat /\ DOMAIN s = 1..m /\ DOMAIN t = 1..n
  BY DEF SignalLists
<1>2. /\ st \in SignalLists
      /\ DOMAIN st = 1..(m + n)
      /\ \A i \in 1..(m + n) : st[i] = IF i <= m THEN s[i] ELSE t[i - m]
  BY ConcatProperties, LenProperties DEF SignalLists
<1> HIDE DEF m, n, st
<1>3. \A i \in 1..m : i \in 1..(m + n) /\ st[i] = s[i]
  BY <1>1, <1>2
<1>4. \A i \in 1..n : m + i \in 1..(m + n) /\ st[m + i] = t[i]
  <2> SUFFICES ASSUME NEW i \in 1..n PROVE m + i \in 1..(m + n) /\ st[m + i] = t[i]
    OBVIOUS
  <2>1. i \in Nat /\ m + i \in 1..(m + n) /\ ~(m + i <= m) /\ (m + i) - m = i
    BY <1>1
  <2> QED
    BY <1>2, <2>1
<1>5. \A i \in 1..(m + n) : (i \in 1..m /\ st[i] = s[i]) \/ (i - m \in 1..n /\ st[i] = t[i - m])
  BY <1>1, <1>2
<1>6. ToSet(st) = ToSet(s) \cup ToSet(t)
  BY <1>1, <1>2, <1>3, <1>4, <1>5 DEF ToSet
<1>7. Raises(st) <=> Raises(s) \/ Raises(t)
  BY <1>6 DEF Raises
<1> QED
  BY <1>2, <1>7 DEF st

\* A gate that raises one signal or none.
LEMMA GateIs ==
    ASSUME NEW g, NEW t \in FraudTypes, NEW k \in Int, g = Signal(t, k) \/ g = Silent
    PROVE  /\ g \in SignalLists
           /\ k < 8300 => ~Raises(g)
           /\ k >= 8300 => (Raises(g) <=> g = Signal(t, k))
<1> DEFINE s == [type |-> t, score |-> k]
<1>1. s \in SignalType /\ s.score = k
  BY DEF SignalType
<1> HIDE DEF s
<1>2. <<s>> \in SignalLists /\ Silent \in SignalLists /\ <<s>> # Silent
  BY <1>1 DEF SignalLists, Silent
<1>3. ToSet(<<s>>) = {s} /\ ToSet(Silent) = {}
  BY DEF ToSet, Silent
<1>4. Signal(t, k) = <<s>>
  BY DEF Signal, s
<1>5. CASE g = <<s>>
  BY <1>1, <1>2, <1>3, <1>4, <1>5 DEF Raises
<1>6. CASE g = Silent
  BY <1>1, <1>2, <1>3, <1>4, <1>6 DEF Raises
<1> QED
  BY <1>4, <1>5, <1>6

\* So a gate with a small score does not make a fraud.
LEMMA SmallGate ==
    ASSUME NEW g, NEW t \in FraudTypes, NEW k \in Int, k < 8300,
           g = Signal(t, k) \/ g = Silent
    PROVE  g \in SignalLists /\ ~Raises(g)
BY GateIs

\* Nor does one that is silent.
LEMMA SilentGate == Silent \in SignalLists /\ ~Raises(Silent)
BY DEF SignalLists, Silent, Raises, ToSet

\* Gate 1: a circle.
LEMMA CircularRaises ==
    ASSUME NEW rows
    PROVE  /\ CircularPath(rows) \in SignalLists
           /\ Raises(CircularPath(rows)) <=> Circular(SnapshotGraph(rows))
<1>1. PICK t \in FraudTypes : t = "circular_transfer_fraud"
  BY DEF FraudTypes
<1>2. PICK g : g = CircularPath(rows)
  OBVIOUS
<1>3. g = IF Circular(SnapshotGraph(rows)) THEN Signal(t, 9700) ELSE Silent
  BY <1>1, <1>2 DEF CircularPath, Silent
<1>4. 9700 \in Int /\ 9700 >= 8300 /\ (g = Signal(t, 9700) \/ g = Silent)
      /\ Signal(t, 9700) # Silent
  BY <1>3 DEF Signal, Silent
<1>5. g \in SignalLists /\ (Raises(g) <=> g = Signal(t, 9700))
  BY ONLY <1>1, <1>4, GateIs
<1> QED
  BY <1>2, <1>3, <1>4, <1>5

\* Gate 2: four recipients.
LEMMA FanRaises ==
    ASSUME NEW rows
    PROVE  /\ FanOut(rows) \in SignalLists
           /\ Raises(FanOut(rows))
                <=> \E n \in SnapshotGraph(rows).node :
                        Cardinality(Successors(SnapshotGraph(rows), n)) >= 4
<1> DEFINE Wide == \E n \in SnapshotGraph(rows).node :
                       Cardinality(Successors(SnapshotGraph(rows), n)) >= 4
<1>1. PICK t \in FraudTypes : t = "smurfing_fan_out"
  BY DEF FraudTypes
<1>2. PICK w \in BOOLEAN : w <=> Wide
  OBVIOUS
<1>3. PICK g : g = FanOut(rows)
  OBVIOUS
<1>4. FanOut(rows) = IF Wide THEN Signal("smurfing_fan_out", 8500) ELSE Silent
  BY Zenon DEF FanOut, Silent
<1> HIDE DEF Wide
<1>5. g = IF w THEN Signal(t, 8500) ELSE Silent
  BY <1>1, <1>2, <1>3, <1>4
<1>6. 8500 \in Int /\ 8500 >= 8300 /\ (g = Signal(t, 8500) \/ g = Silent)
      /\ Signal(t, 8500) # Silent
  BY <1>5 DEF Signal, Silent
<1>7. g \in SignalLists /\ (Raises(g) <=> g = Signal(t, 8500))
  BY ONLY <1>1, <1>6, GateIs
<1>8. g \in SignalLists /\ (Raises(g) <=> w)
  BY <1>5, <1>6, <1>7
<1>9. FanOut(rows) \in SignalLists /\ (Raises(FanOut(rows)) <=> Wide)
  BY <1>2, <1>3, <1>8
<1> QED
  BY <1>9 DEF Wide

\* The last gates only raise smaller ones.
LEMMA BurstsDoNotRaise ==
    ASSUME NEW rows, NEW signals \in SignalLists
    PROVE  /\ Burst(rows) \in SignalLists /\ ~Raises(Burst(rows))
           /\ HighVelocity(rows) \in SignalLists /\ ~Raises(HighVelocity(rows))
           /\ LargeAmount(rows, signals) \in SignalLists
           /\ ~Raises(LargeAmount(rows, signals))
<1>1. PICK b \in FraudTypes : b = "rapid_transfer_burst"
  BY DEF FraudTypes
<1>2. PICK c \in FraudTypes :
          c = IF signals = <<>> THEN "large_value_transfer" ELSE signals[1].type
  <2>1. CASE signals = <<>>
    BY <2>1 DEF FraudTypes
  <2>2. CASE signals # <<>>
    <3>1. signals[1] \in SignalType
      BY <2>2 DEF SignalLists
    <3> QED
      BY <2>2, <3>1 DEF SignalType
  <2> QED
    BY <2>1, <2>2
<1>3. PICK g : g = Burst(rows)
  OBVIOUS
<1>4. PICK h : h = HighVelocity(rows)
  OBVIOUS
<1>5. PICK l : l = LargeAmount(rows, signals)
  OBVIOUS
<1>6. g = Signal(b, 6500) \/ g = Silent
  BY <1>1, <1>3, SMT DEF Burst, CountOf, Silent
<1>7. h = Signal(b, 6000) \/ h = Silent
  BY <1>1, <1>4, SMT DEF HighVelocity, Silent
<1>8. l = Signal(c, 4500) \/ l = Silent
  BY <1>2, <1>5, SMT DEF LargeAmount, Silent
<1>9. g \in SignalLists /\ ~Raises(g)
  BY <1>1, <1>6, SmallGate
<1>10. h \in SignalLists /\ ~Raises(h)
  BY <1>1, <1>7, SmallGate
<1>11. l \in SignalLists /\ ~Raises(l)
  <2>1. c \in FraudTypes
    BY <1>2
  <2> QED
    BY ONLY <2>1, <1>8, SmallGate
<1> QED
  BY <1>3, <1>4, <1>5, <1>9, <1>10, <1>11, Zenon

\* Gate 5: a path of more than four transfers.
LEMMA ChainRaises ==
    ASSUME NEW rows \in Seq(Edges), rows # <<>>
    PROVE  /\ Chain(rows) \in SignalLists
           /\ Raises(Chain(rows))
                <=> Acyclic(SnapshotGraph(rows)) /\ LongestPath(SnapshotGraph(rows)) >= 5
<1>1. PICK G : G = SnapshotGraph(rows)
  OBVIOUS
<1>2. IsGraph(G) /\ G.node # {}
  BY <1>1, SnapshotGraphIs
<1>3. PICK g : g = Chain(rows)
  OBVIOUS
<1>4. PICK t \in FraudTypes : t = "layering_chain"
  BY DEF FraudTypes
<1>5. CASE ~Acyclic(G)
  <2>1. g = Silent
    BY <1>1, <1>3, <1>5 DEF Chain, Silent
  <2>2. g \in SignalLists /\ ~Raises(g)
    BY <1>4, <2>1, SmallGate
  <2> QED
    BY <1>1, <1>3, <1>5, <2>2
<1>6. CASE Acyclic(G)
  <2>1. PICK p \in Nat : p = LongestPath(G)
    <3>1. PICK d \in [G.node -> Nat] : LongestPath(G) \in {d[n] : n \in G.node}
      BY <1>2, <1>6, LongestPathIs
    <3> QED
      BY <3>1
  <2>2. PICK k \in Int :
            /\ k = 7500 + Min({1000, (p - 3) * 400})
            /\ p > 3 => (k >= 8300 <=> p >= 5)
    <3>1. PICK more \in Int : more = (p - 3) * 400
      OBVIOUS
    <3>2. Min({1000, more}) = IF 1000 <= more THEN 1000 ELSE more
      BY MinMax
    <3> QED
      BY <3>1, <3>2
  <2>3. g = IF p > 3 THEN Signal(t, k) ELSE Silent
    BY <1>1, <1>3, <1>4, <1>6, <2>1, <2>2 DEF Chain, Silent
  <2>4. p > 3 => (k >= 8300 <=> p >= 5)
    BY <2>2
  <2>5. CASE p > 3 /\ k >= 8300
    <3>1. Signal(t, k) # Silent /\ g = Signal(t, k)
      BY <2>3, <2>5 DEF Signal, Silent
    <3>2. g \in SignalLists /\ Raises(g)
      BY <1>4, <2>2, <2>5, <3>1, GateIs
    <3> QED
      BY <1>1, <1>3, <1>6, <2>1, <2>4, <2>5, <3>2
  <2>6. CASE ~(p > 3 /\ k >= 8300)
    <3>1. g \in SignalLists /\ ~Raises(g)
      <4>1. CASE p > 3
        <5>1. g = Signal(t, k) /\ k < 8300
          BY <2>2, <2>3, <2>6, <4>1
        <5> QED
          BY ONLY <5>1, SmallGate
      <4>2. CASE ~(p > 3)
        <5>1. g = Silent
          BY <2>3, <4>2
        <5> QED
          BY <5>1, SilentGate
      <4> QED
        BY <4>1, <4>2
    <3>2. ~(p >= 5)
      BY <2>4, <2>6
    <3> QED
      BY <1>1, <1>3, <1>6, <2>1, <3>1, <3>2
  <2> QED
    BY <2>5, <2>6
<1> QED
  BY <1>5, <1>6

NearCount(rows) == Cardinality({i \in DOMAIN rows : NearThreshold(rows[i].amount)})

\* Gate 6: four amounts just below a threshold.
LEMMA StructuringRaises ==
    ASSUME NEW rows \in Seq(Edges)
    PROVE  /\ NearCount(rows) \in Nat
           /\ Structuring(rows) \in SignalLists
           /\ Raises(Structuring(rows)) <=> NearCount(rows) >= 4
<1>1. PICK p \in Nat : p = NearCount(rows)
  <2>1. IsFiniteSet(DOMAIN rows)
    <3>1. DOMAIN rows = 1..Len(rows) /\ Len(rows) \in Nat
      OBVIOUS
    <3> QED
      BY <3>1, FS_Interval
  <2>2. IsFiniteSet({i \in DOMAIN rows : NearThreshold(rows[i].amount)})
    BY <2>1, FS_Subset
  <2> QED
    BY <2>2, FS_CardinalityType DEF NearCount
<1>2. PICK g : g = Structuring(rows)
  OBVIOUS
<1>3. PICK t \in FraudTypes : t = "structuring_below_threshold"
  BY DEF FraudTypes
<1>4. PICK k \in Int :
          /\ k = Min({7200 + (p - 2) * 800, 8800})
          /\ p >= 2 => (k >= 8300 <=> p >= 4)
  <2>1. PICK sum \in Int : sum = 7200 + (p - 2) * 800
    OBVIOUS
  <2>2. Min({sum, 8800}) = IF sum <= 8800 THEN sum ELSE 8800
    BY MinMax
  <2> QED
    BY <2>1, <2>2
<1>5. p >= 2 => (k >= 8300 <=> p >= 4)
  BY <1>4
<1>6. /\ p >= 2 => g = Signal(t, k)
      /\ ~(p >= 2) => g = Signal(t, 7200) \/ g = Silent
  BY <1>1, <1>2, <1>3, <1>4, SMT DEF Structuring, CountOf, NearCount, Silent
<1>7. CASE p >= 4
  <2>1. g = Signal(t, k) /\ k >= 8300 /\ Signal(t, k) # Silent
    BY <1>5, <1>6, <1>7 DEF Signal, Silent
  <2>2. g \in SignalLists /\ Raises(g)
    BY <2>1, GateIs
  <2> QED
    BY <1>1, <1>2, <1>7, <2>2
<1>8. CASE ~(p >= 4)
  <2>1. g \in SignalLists /\ ~Raises(g)
    <3>1. CASE p >= 2
      <4>1. g = Signal(t, k) /\ k < 8300
        BY <1>4, <1>5, <1>6, <1>8, <3>1
      <4> QED
        BY <4>1, SmallGate
    <3>2. CASE ~(p >= 2)
      <4>1. g = Signal(t, 7200) \/ g = Silent
        BY <1>6, <3>2
      <4> QED
        BY ONLY <1>3, <4>1, SmallGate
    <3> QED
      BY <3>1, <3>2
  <2> QED
    BY <1>1, <1>2, <1>8, <2>1
<1> QED
  BY <1>7, <1>8

\* Gate 3 raises one signal or none, whoever the collector is.
LEMMA CollectorIs ==
    ASSUME NEW rows \in Seq(Edges)
    PROVE  Collector(rows) \in SignalLists
<1>1. PICK G : G = SnapshotGraph(rows)
  OBVIOUS
<1>2. IsGraph(G)
  BY <1>1, SnapshotGraphIs
<1>3. PICK n : n = NodeOrder(rows)[Min({i \in DOMAIN NodeOrder(rows) :
                       Cardinality(Predecessors(G, NodeOrder(rows)[i])) >= 4})]
  OBVIOUS
<1>4. PICK c \in Nat : c = Cardinality(Predecessors(G, n))
  <2>1. IsFiniteSet(Predecessors(G, n))
    BY <1>2, FS_Subset DEF IsGraph, Predecessors
  <2> QED
    BY <2>1, FS_CardinalityType
<1>5. PICK k \in Int : k = Min({8200 + (c - 4) * 200, 9200})
  <2>1. PICK sum \in Int : sum = 8200 + (c - 4) * 200
    OBVIOUS
  <2>2. Min({sum, 9200}) = IF sum <= 9200 THEN sum ELSE 9200
    BY MinMax
  <2> QED
    BY <2>1, <2>2
<1>6. PICK t \in FraudTypes : t = "mule_network_aggregation"
  BY DEF FraudTypes
<1>7. PICK g : g = Collector(rows)
  OBVIOUS
<1>8. g = Signal(t, k) \/ g = Silent
  BY <1>1, <1>3, <1>4, <1>5, <1>6, <1>7, SMT DEF Collector, Silent
<1>9. g \in SignalLists
  BY ONLY <1>8, GateIs
<1> QED
  BY <1>7, <1>9

\* The last amount from one account to another is one that was posted.
LEMMA EdgeAmountIs ==
    ASSUME NEW rows \in Seq(Edges), NEW m, NEW n, <<m, n>> \in SnapshotGraph(rows).edge
    PROVE  EdgeAmount(rows, m, n) \in Nat \ {0}
<1> DEFINE S == {j \in DOMAIN rows : rows[j].source = m /\ rows[j].target = n}
<1>1. DOMAIN rows = 1..Len(rows) /\ Len(rows) \in Nat
  OBVIOUS
<1>2. S \in SUBSET (1..Len(rows)) /\ S # {}
  <2>1. \E i \in DOMAIN rows : rows[i].source = m /\ rows[i].target = n
    BY SnapshotGraphIs
  <2> QED
    BY <1>1, <2>1
<1>3. Max(S) \in S
  <2> HIDE DEF S
  <2> QED
    BY <1>1, <1>2, LatestIsOne DEF Latest
<1>4. rows[Max(S)] \in Edges
  BY <1>3
<1>5. EdgeAmount(rows, m, n) = rows[Max(S)].amount
  BY DEF EdgeAmount
<1> QED
  BY <1>4, <1>5, SnapshotAssumption

\* Amounts that are positive sum up to a positive one.
LEMMA SumIsPositive ==
    ASSUME NEW S, IsFiniteSet(S), S # {}, NEW f, DOMAIN f = S, \A x \in S : f[x] \in Nat \ {0}
    PROVE  SumFunction(f) \in Nat \ {0}
<1>1. SumFunction(f) = Summing!Fold(0, f, S)
  <2>1. SumFunction(f) = Summing!Fold(0, f, DOMAIN f)
    BY Zenon DEF SumFunction, SumFunctionOnSet, FoldFunctionOnSet, MapThenFoldSet,
                 Summing!Fold, Summing!MapThenFoldSet, AnyOf
  <2> QED
    BY <2>1
<1> DEFINE x == AnyOf(S)
           T == S \ {x}
<1>2. x \in S
  BY DEF AnyOf
<1> HIDE DEF x
<1>3. IsFiniteSet(T)
  BY FS_Subset
<1> HIDE DEF T
<1>4. /\ Summing!IsFiniteSet(S) /\ Summing!Picks(S)
      /\ Summing!IsFiniteSet(T) /\ Summing!Picks(T)
  <2>1. \A R : Summing!Picks(R)
    BY Zenon DEF Summing!Picks, AnyOf
  <2> QED
    BY <1>3, <2>1 DEF IsFiniteSet, Summing!IsFiniteSet
<1>5. Summing!Fold(0, f, S) = f[x] + Summing!Fold(0, f, T)
  BY <1>4, Summing!FoldStep DEF x, T
<1>6. Summing!Fold(0, f, T) \in Nat
  <2>1. \A i \in T, y \in Nat : f[i] + y \in Nat
    BY DEF T
  <2> QED
    BY <1>4, <2>1, Summing!FoldStays
<1>7. f[x] \in Nat \ {0}
  BY <1>2
<1> QED
  BY <1>1, <1>5, <1>6, <1>7

\* So the score of a relay is a number.
LEMMA RelayScoreIs ==
    ASSUME NEW rows \in Seq(Edges), NEW n
    PROVE  RelayScore(rows, n) \in Int
<1>1. PICK G : G = SnapshotGraph(rows)
  OBVIOUS
<1>2. IsGraph(G)
  BY <1>1, SnapshotGraphIs
<1>3. /\ IsFiniteSet(Predecessors(G, n)) /\ IsFiniteSet(Successors(G, n))
      /\ \A m \in Predecessors(G, n) : <<m, n>> \in G.edge
      /\ \A m \in Successors(G, n) : <<n, m>> \in G.edge
  BY <1>2, FS_Subset DEF IsGraph, Predecessors, Successors
<1>4. PICK in : in = SumFunction([m \in Predecessors(G, n) |-> EdgeAmount(rows, m, n)])
  OBVIOUS
<1>5. PICK out : out = SumFunction([m \in Successors(G, n) |-> EdgeAmount(rows, n, m)])
  OBVIOUS
<1>6. PICK many \in BOOLEAN : many <=> Cardinality(Predecessors(G, n)) >= 2
  OBVIOUS
<1>7. RelayScore(rows, n)
          = IF many /\ Successors(G, n) # {} /\ 10 * out >= 8 * in
            THEN Min({3800 + (5000 * out) \div in, 9500}) ELSE 0
  <2>1. RelayScore(rows, n)
            = IF /\ Cardinality(Predecessors(G, n)) >= 2
                 /\ Successors(G, n) # {}
                 /\ 10 * out >= 8 * in
              THEN Min({3800 + (5000 * out) \div in, 9500}) ELSE 0
    BY <1>1, <1>4, <1>5 DEF RelayScore
  <2> QED
    BY <1>6, <2>1
<1>8. CASE ~(many /\ Successors(G, n) # {})
  BY <1>7, <1>8
<1>9. CASE many /\ Successors(G, n) # {}
  <2>1. Predecessors(G, n) # {}
    <3> SUFFICES ASSUME Predecessors(G, n) = {} PROVE FALSE
      OBVIOUS
    <3>1. Cardinality(Predecessors(G, n)) = 0
      BY FS_EmptySet
    <3> QED
      BY <1>6, <1>9, <3>1
  <2>2. in \in Nat \ {0}
    <3> DEFINE S == Predecessors(G, n)
               f == [m \in S |-> EdgeAmount(rows, m, n)]
    <3>1. DOMAIN f = S /\ \A x \in S : f[x] \in Nat \ {0}
      BY <1>1, <1>3, EdgeAmountIs
    <3>2. IsFiniteSet(S) /\ S # {} /\ in = SumFunction(f)
      BY <1>3, <1>4, <2>1
    <3> HIDE DEF S, f
    <3> QED
      BY <3>1, <3>2, SumIsPositive
  <2>3. out \in Nat \ {0}
    <3> DEFINE S == Successors(G, n)
               f == [m \in S |-> EdgeAmount(rows, n, m)]
    <3>1. DOMAIN f = S /\ \A x \in S : f[x] \in Nat \ {0}
      BY <1>1, <1>3, EdgeAmountIs
    <3>2. IsFiniteSet(S) /\ S # {} /\ out = SumFunction(f)
      BY <1>3, <1>5, <1>9
    <3> HIDE DEF S, f
    <3> QED
      BY <3>1, <3>2, SumIsPositive
  <2>4. PICK sum \in Int : sum = 3800 + (5000 * out) \div in
    BY <2>2, <2>3
  <2>5. Min({sum, 9500}) = IF sum <= 9500 THEN sum ELSE 9500
    BY MinMax
  <2> QED
    BY <1>7, <2>4, <2>5
<1> QED
  BY <1>8, <1>9

\* Gate 4 raises one signal or none.
LEMMA RelayIs ==
    ASSUME NEW rows \in Seq(Edges)
    PROVE  Relay(rows) \in SignalLists
<1>1. PICK N : N = SnapshotGraph(rows).node
  OBVIOUS
<1>2. IsFiniteSet(N)
  BY <1>1, SnapshotGraphIs DEF IsGraph
<1>3. PICK scores : scores = {RelayScore(rows, n) : n \in N} \ {0}
  OBVIOUS
<1>4. IsFiniteSet(scores) /\ scores \subseteq Int
  <2> DEFINE f == [n \in N |-> RelayScore(rows, n)]
             all == {f[n] : n \in N}
  <2>1. all \subseteq Int /\ scores = all \ {0}
    BY <1>3, RelayScoreIs
  <2> HIDE DEF f
  <2>2. IsFiniteSet(all)
    BY <1>2, ValuesFinite
  <2> HIDE DEF all
  <2> QED
    BY <2>1, <2>2, FS_Subset
<1>5. PICK t \in FraudTypes : t = "rapid_relay_mule"
  BY DEF FraudTypes
<1>6. PICK g : g = Relay(rows)
  OBVIOUS
<1>7. g = IF scores = {} THEN Silent ELSE Signal(t, Max(scores))
  BY <1>1, <1>3, <1>5, <1>6, SMT DEF Relay, Silent
<1>8. CASE scores = {}
  BY <1>6, <1>7, <1>8, SilentGate
<1>9. CASE scores # {}
  <2>1. PICK k \in Int : k = Max(scores)
    BY <1>4, <1>9, LargestIs
  <2>2. g = Signal(t, k)
    BY <1>7, <1>9, <2>1
  <2>3. g \in SignalLists
    BY ONLY <2>2, GateIs
  <2> QED
    BY <1>6, <2>3
<1> QED
  BY <1>8, <1>9
-----------------------------------------------------------------------------
(* What makes a fraud, and that more transfers leave it one.               *)

\* What does not depend on a ratio or on the count of one account.
Grave(rows) ==
    LET G == SnapshotGraph(rows)
    IN  \/ Circular(G)
        \/ \E n \in G.node : Cardinality(Successors(G, n)) >= 4
        \/ Acyclic(G) /\ LongestPath(G) >= 5
        \/ NearCount(rows) >= 4

\* All the signals of the edges, and when one of them alone makes a fraud.
LEMMA SignalsRaise ==
    ASSUME NEW rows \in Seq(Edges), rows # <<>>
    PROVE  /\ Signals(rows) \in SignalLists
           /\ Raises(Signals(rows)) <=> Grave(rows) \/ Raises(Relay(rows) \o Collector(rows))
<1>1. PICK a, b, c, d, f, g :
          /\ a = CircularPath(rows) /\ b = FanOut(rows) /\ c = Collector(rows)
          /\ d = Relay(rows) /\ f = Chain(rows) /\ g = Structuring(rows)
  OBVIOUS
<1>2. PICK h, i : h = Burst(rows) /\ i = HighVelocity(rows)
  OBVIOUS
<1>3. /\ a \in SignalLists /\ b \in SignalLists /\ c \in SignalLists /\ d \in SignalLists
      /\ f \in SignalLists /\ g \in SignalLists
  BY <1>1, CircularRaises, FanRaises, CollectorIs, RelayIs, ChainRaises, StructuringRaises
<1>4. h \in SignalLists /\ ~Raises(h) /\ i \in SignalLists /\ ~Raises(i)
  BY <1>2, SilentGate, BurstsDoNotRaise
<1>5. Grave(rows) <=> Raises(a) \/ Raises(b) \/ Raises(f) \/ Raises(g)
  BY <1>1, CircularRaises, FanRaises, ChainRaises, StructuringRaises, Zenon DEF Grave
<1>6. PICK s : s = a \o b \o c \o d \o f \o g \o h \o i
  OBVIOUS
<1>7. /\ s \in SignalLists
      /\ Raises(s) <=> Raises(a) \/ Raises(b) \/ Raises(c) \/ Raises(d) \/ Raises(f) \/ Raises(g)
  <2>1. a \o b \in SignalLists /\ (Raises(a \o b) <=> Raises(a) \/ Raises(b))
    BY ONLY <1>3, JoinedSignals
  <2>2. PICK ab \in SignalLists : ab = a \o b
    BY <2>1
  <2>3. PICK abc \in SignalLists : abc = ab \o c /\ (Raises(abc) <=> Raises(ab) \/ Raises(c))
    BY ONLY <1>3, JoinedSignals
  <2>4. PICK abcd \in SignalLists : abcd = abc \o d /\ (Raises(abcd) <=> Raises(abc) \/ Raises(d))
    BY ONLY <1>3, JoinedSignals
  <2>5. PICK af \in SignalLists : af = abcd \o f /\ (Raises(af) <=> Raises(abcd) \/ Raises(f))
    BY ONLY <1>3, JoinedSignals
  <2>6. PICK ag \in SignalLists : ag = af \o g /\ (Raises(ag) <=> Raises(af) \/ Raises(g))
    BY ONLY <1>3, JoinedSignals
  <2>7. PICK ah \in SignalLists : ah = ag \o h /\ (Raises(ah) <=> Raises(ag) \/ Raises(h))
    BY ONLY <1>4, JoinedSignals
  <2>8. PICK ai \in SignalLists : ai = ah \o i /\ (Raises(ai) <=> Raises(ah) \/ Raises(i))
    BY ONLY <1>4, JoinedSignals
  <2>9. s = ai
    BY <1>6, <2>2, <2>3, <2>4, <2>5, <2>6, <2>7, <2>8, Zenon
  <2> QED
    BY <1>4, <2>1, <2>2, <2>3, <2>4, <2>5, <2>6, <2>7, <2>8, <2>9, Zenon
<1>8. PICK l : l = LargeAmount(rows, s)
  OBVIOUS
<1>9. l \in SignalLists /\ ~Raises(l)
  BY <1>7, <1>8, BurstsDoNotRaise
<1>10. s \o l \in SignalLists /\ (Raises(s \o l) <=> Raises(s) \/ Raises(l))
  BY ONLY <1>7, <1>9, JoinedSignals
<1>11. Signals(rows) = s \o l
  BY <1>1, <1>2, <1>6, <1>8, Zenon DEF Signals
<1>12. Raises(d \o c) <=> Raises(d) \/ Raises(c)
  BY ONLY <1>3, JoinedSignals
<1> QED
  BY <1>1, <1>5, <1>7, <1>9, <1>10, <1>11, <1>12, Zenon

\* The scores of some signals.
ScoresOf(signals) == {s.score : s \in ToSet(signals)}

\* They are finitely many numbers.
LEMMA ScoresAre ==
    ASSUME NEW signals \in SignalLists
    PROVE  IsFiniteSet(ScoresOf(signals)) /\ ScoresOf(signals) \subseteq Int
<1> DEFINE I == DOMAIN signals
           f == [i \in I |-> signals[i].score]
<1>1. I = 1..Len(signals) /\ Len(signals) \in Nat
  BY DEF SignalLists
<1>2. IsFiniteSet(I)
  BY <1>1, FS_Interval
<1>3. ScoresOf(signals) = {f[i] : i \in I}
  BY DEF ScoresOf, ToSet
<1> HIDE DEF I, f
<1>4. IsFiniteSet({f[i] : i \in I})
  BY <1>2, ValuesFinite
<1>5. \A s \in ToSet(signals) : s \in SignalType
  BY DEF SignalLists, ToSet
<1>6. ScoresOf(signals) \subseteq Int
  BY <1>5 DEF SignalType, ScoresOf
<1> QED
  BY <1>3, <1>4, <1>6, Zenon

\* One of a number and finitely many others is the largest.
MaxWith(x, S) == Max({x} \cup S)

\* It is one of them, and no other is larger.
LEMMA MaxWithIs ==
    ASSUME NEW S, IsFiniteSet(S), S \subseteq Int, NEW x \in Int
    PROVE  /\ MaxWith(x, S) \in Int
           /\ MaxWith(x, S) = x \/ MaxWith(x, S) \in S
           /\ \A y \in S : y <= MaxWith(x, S)
<1>1. IsFiniteSet(S \cup {x})
  BY FS_AddElement, Zenon
<1>2. S \cup {x} = {x} \cup S
  OBVIOUS
<1>3. IsFiniteSet({x} \cup S)
  BY <1>1, <1>2, Zenon
<1>4. ({x} \cup S) \subseteq Int /\ {x} \cup S # {}
  OBVIOUS
<1>5. Max({x} \cup S) \in {x} \cup S /\ \A y \in {x} \cup S : y <= Max({x} \cup S)
  BY ONLY <1>3, <1>4, LargestIs, Zenon
<1>6. MaxWith(x, S) \in {x} \cup S /\ \A y \in {x} \cup S : y <= MaxWith(x, S)
  BY <1>5, Zenon DEF MaxWith
<1> QED
  BY <1>4, <1>6

\* The score of a graph is that of its worst signal, or a smaller one.
WorstOf(base, signals) == MaxWith(base, ScoresOf(signals))

\* It makes a fraud exactly when a signal does.
LEMMA WorstIs ==
    ASSUME NEW base \in Int, base < 8300, NEW signals \in SignalLists
    PROVE  WorstOf(base, signals) \in Int /\ (WorstOf(base, signals) >= 8300 <=> Raises(signals))
<1>1. PICK scores : scores = ScoresOf(signals)
  OBVIOUS
<1>2. IsFiniteSet(scores) /\ scores \subseteq Int
  BY <1>1, ScoresAre
<1>3. WorstOf(base, signals) = MaxWith(base, scores)
  BY <1>1 DEF WorstOf
<1>4. PICK worst \in Int :
          /\ worst = WorstOf(base, signals)
          /\ worst = base \/ worst \in scores
          /\ \A x \in scores : x <= worst
  <2>1. /\ MaxWith(base, scores) \in Int
        /\ MaxWith(base, scores) = base \/ MaxWith(base, scores) \in scores
        /\ \A y \in scores : y <= MaxWith(base, scores)
    BY ONLY <1>2, MaxWithIs
  <2> QED
    BY <1>3, <2>1
<1>5. /\ \A x \in scores : \E s \in ToSet(signals) : x = s.score
      /\ \A s \in ToSet(signals) : s.score \in scores
  BY <1>1 DEF ScoresOf
<1>6. ASSUME worst >= 8300 PROVE Raises(signals)
  <2>1. PICK s \in ToSet(signals) : worst = s.score
    BY <1>4, <1>5, <1>6
  <2> QED
    BY <1>6, <2>1 DEF Raises
<1>7. ASSUME Raises(signals) PROVE worst >= 8300
  <2>1. PICK s \in ToSet(signals) : s.score >= 8300
    BY <1>7 DEF Raises
  <2>2. PICK k \in scores : k = s.score
    BY <1>5
  <2>3. k \in Int /\ k <= worst
    BY <1>2, <1>4
  <2> QED
    BY <2>1, <2>2, <2>3
<1> QED
  BY <1>4, <1>6, <1>7

\* The verdict on a graph.
LEMMA FraudIs ==
    ASSUME NEW rows, NEW scored \in Seq(Edges), scored = Scored(rows)
    PROVE  AnalyzeGraph(rows).verdict = "FRAUD" <=> scored # <<>> /\ Raises(Signals(scored))
<1>1. CASE scored = <<>>
  BY <1>1 DEF AnalyzeGraph
<1>2. CASE scored # <<>>
  <2>1. PICK signals \in SignalLists : signals = Signals(scored)
    BY <1>2, SignalsRaise
  <2>2. PICK base \in Int : base < 8300 /\ base = UnnamedScore(scored)
    BY SMT DEF UnnamedScore
  <2>3. PICK score \in Int : score = WorstOf(base, signals) /\ (score >= 8300 <=> Raises(signals))
    BY <2>2, WorstIs
  <2>4. AnalyzeGraph(rows).verdict = Verdict(score)
    BY <1>2, <2>1, <2>2, <2>3 DEF AnalyzeGraph, ScoresOf, WorstOf, MaxWith
  <2>5. Verdict(score) = "FRAUD" <=> score >= 8300
    BY DEF Verdict
  <2> QED
    BY <1>2, <2>1, <2>3, <2>4, <2>5
<1> QED
  BY <1>1, <1>2
-----------------------------------------------------------------------------
(* One more edge.                                                          *)

\* More edges have no fewer amounts just below a threshold.
LEMMA NearGrows ==
    ASSUME NEW rows \in Seq(Edges), NEW e \in Edges
    PROVE  NearCount(rows) <= NearCount(Append(rows, e))
<1> DEFINE more == Append(rows, e)
           S == {i \in DOMAIN rows : NearThreshold(rows[i].amount)}
           T == {i \in DOMAIN more : NearThreshold(more[i].amount)}
<1>1. /\ DOMAIN rows = 1..Len(rows) /\ Len(rows) \in Nat
      /\ DOMAIN more = 1..(Len(rows) + 1)
      /\ \A i \in DOMAIN rows : i \in DOMAIN more /\ more[i] = rows[i]
  OBVIOUS
<1>2. IsFiniteSet(DOMAIN more)
  BY <1>1, FS_Interval
<1>3. S \subseteq T /\ T \subseteq DOMAIN more
  BY <1>1
<1> HIDE DEF S, T, more
<1>4. Cardinality(S) <= Cardinality(T)
  BY <1>2, <1>3, FS_Subset
<1> QED
  BY <1>4 DEF NearCount, S, T, more

\* What makes a fraud stays when there is one more edge between two accounts.
LEMMA GraveStays ==
    ASSUME NEW rows \in Seq(Edges), rows # <<>>, NEW e \in Edges, e.source # e.target,
           Grave(rows)
    PROVE  Grave(Append(rows, e))
<1>1. PICK more \in Seq(Edges) : more = Append(rows, e)
  <2>1. Append(rows, e) \in Seq(Edges)
    OBVIOUS
  <2> QED
    BY <2>1, Zenon
<1>2. PICK G, H : G = SnapshotGraph(rows) /\ H = SnapshotGraph(more)
  OBVIOUS
<1>3. IsGraph(G) /\ IsGraph(H) /\ G.node # {}
  BY <1>2, SnapshotGraphIs
<1>4. Within(G, H) /\ H.edge = G.edge \cup {<<e.source, e.target>>}
  BY <1>1, <1>2, SnapshotGraphGrows
<1>5. CASE Circular(G)
  BY <1>1, <1>2, <1>3, <1>4, <1>5, CircularStays DEF Grave
<1>6. CASE \E n \in G.node : Cardinality(Successors(G, n)) >= 4
  <2>1. \E n \in H.node : Cardinality(Successors(H, n)) >= 4
    BY <1>3, <1>4, <1>6, FanStays
  <2> QED
    BY <1>1, <1>2, <2>1, Zenon DEF Grave
<1>7. CASE Acyclic(G) /\ LongestPath(G) >= 5
  <2>1. CASE Acyclic(H)
    <3>1. LongestPath(G) \in Nat /\ LongestPath(H) \in Nat /\ LongestPath(G) <= LongestPath(H)
      BY <1>3, <1>4, <1>7, <2>1, LongestPathGrows
    <3>2. LongestPath(H) >= 5
      BY <1>7, <3>1
    <3> QED
      BY <1>1, <1>2, <2>1, <3>2, Zenon DEF Grave
  <2>2. CASE ~Acyclic(H)
    <3>1. \A n : <<n, n>> \notin H.edge
      BY <1>3, <1>4, <1>7 DEF Acyclic, IsGraph
    <3>2. Circular(H)
      BY <2>2, <3>1, Zenon DEF Acyclic
    <3> QED
      BY <1>1, <1>2, <3>2, Zenon DEF Grave
  <2> QED
    BY <2>1, <2>2
<1>8. CASE NearCount(rows) >= 4
  <2>1. NearCount(rows) \in Nat /\ NearCount(more) \in Nat /\ NearCount(rows) <= NearCount(more)
    BY <1>1, NearGrows, StructuringRaises
  <2>2. NearCount(more) >= 4
    BY <1>8, <2>1
  <2> QED
    BY <1>1, <2>2, Zenon DEF Grave
<1> QED
  BY <1>2, <1>5, <1>6, <1>7, <1>8, Zenon DEF Grave

\* A posted graph consists of the edges clients send.
LEMMA SnapshotTyped == SnapshotSpec => [](snapshot \in Seq(Edges))
<1>1. SnapshotInit => snapshot \in Seq(Edges)
  BY SnapshotAssumption DEF SnapshotInit
<1>2. snapshot \in Seq(Edges) /\ [SnapshotNext]_snapshot => (snapshot \in Seq(Edges))'
  BY DEF SnapshotNext, GrowSnapshot, Edges
<1> QED
  BY <1>1, <1>2, PTL DEF SnapshotSpec

\* What was found to be fraud is not cleared by more transfers between two
\* accounts, unless the finding was a relay or a collector, for every set of
\* edges and every snapshot a client starts from.
THEOREM FraudNeverCleared == SnapshotSpec => FraudStands
<1>1. snapshot \in Seq(Edges) /\ [SnapshotNext]_snapshot =>
         [LET before == Scored(snapshot)
          IN  \/ AnalyzeGraph(snapshot).verdict # "FRAUD"
              \/ AnalyzeGraph(snapshot').verdict = "FRAUD"
              \/ \E s \in ToSet(Relay(before) \o Collector(before)) : s.score >= 8300
              \/ Last(snapshot').source = Last(snapshot').target]_snapshot
  <2> DEFINE before == Scored(snapshot)
  <2> SUFFICES ASSUME snapshot \in Seq(Edges), NEW row \in Rows, GrowSnapshot(row),
                      AnalyzeGraph(snapshot).verdict = "FRAUD",
                      ~Raises(Relay(before) \o Collector(before)),
                      Last(snapshot').source # Last(snapshot').target
               PROVE  AnalyzeGraph(snapshot').verdict = "FRAUD"
    BY DEF SnapshotNext, Raises
  <2>1. row \in Edges /\ snapshot' = Append(snapshot, row)
    BY DEF Edges, GrowSnapshot
  <2>2. Last(snapshot') = row
    BY <2>1 DEF Last
  <2>3. PICK old \in Seq(Edges) : old = Scored(snapshot)
    BY <2>1, ScoredGrows
  <2>4. old # <<>> /\ Raises(Signals(old))
    BY <2>3, FraudIs
  <2>5. Grave(old)
    BY <2>3, <2>4, SignalsRaise
  <2>6. PICK new \in Seq(Edges) : new = KeepNamed(old, row)
    <3>1. Append(old, row) \in Seq(Edges)
      BY <2>1
    <3>2. KeepNamed(old, row) = Append(old, row) \/ KeepNamed(old, row) = old
      BY DEF KeepNamed
    <3> QED
      BY <3>1, <3>2, Zenon
  <2>7. new = Scored(snapshot')
    BY <2>1, <2>3, <2>6, ScoredGrows, Zenon
  <2>8. new # <<>> /\ Grave(new)
    <3>1. CASE new = old
      BY <2>4, <2>5, <3>1
    <3>2. CASE new = Append(old, row)
      <4>1. new # <<>>
        BY <2>1, <3>2
      <4>2. row.source # row.target
        BY <2>2
      <4>3. Grave(Append(old, row))
        BY <2>1, <2>4, <2>5, <4>2, GraveStays
      <4> QED
        BY <3>2, <4>1, <4>3
    <3> QED
      BY <2>6, <3>1, <3>2 DEF KeepNamed
  <2>9. Raises(Signals(new))
    BY <2>8, SignalsRaise
  <2> QED
    BY <2>7, <2>8, <2>9, FraudIs
<1> QED
  BY <1>1, SnapshotTyped, PTL DEF SnapshotSpec, FraudStands
=============================================================================
