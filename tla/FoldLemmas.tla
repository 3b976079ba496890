----------------------------- MODULE FoldLemmas -----------------------------
(***************************************************************************)
(* What a fold of the community modules over a finite set computes, for    *)
(* every operation and every way to choose the next element: its value for *)
(* no element, and its last step.  A proof instantiates the module with    *)
(* the operation and the choice of the fold it is about.                   *)
(***************************************************************************)
EXTENDS FiniteSetTheorems, FiniteSetsExt, TLAPS

CONSTANTS
    op(_, _),  \* the operation: an element's value and what has been folded
    pick(_)    \* the element that is folded last

\* The fold over S of the values of fun.
Fold(base, fun, S) == MapThenFoldSet(op, base, LAMBDA i : fun[i], pick, S)

\* pick chooses from every set it is asked to choose from.
Picks(S) == \A s \in SUBSET S : s # {} => pick(s) \in s

\* The recursive function behind the fold over S.
Iterates(g, base, fun, S) ==
    g = [s \in SUBSET S |->
            IF s = {} THEN base ELSE op(fun[pick(s)], g[s \ {pick(s)}])]
-----------------------------------------------------------------------------
\* A set of subsets of a finite set has a smallest one.
LEMMA SmallestExists ==
    ASSUME NEW S, IsFiniteSet(S), NEW T, T \subseteq SUBSET S, T # {}
    PROVE  \E x \in T : \A y \in T : y \subseteq x => y = x
<1>1. IsWellFoundedOn(StrictSubsetOrdering(S), SUBSET S)
  BY FS_StrictSubsetOrderingWellFounded, FS_FiniteSubsetsOfFinite
<1>2. PICK x \in T : \A y \in T : <<y, x>> \notin StrictSubsetOrdering(S)
  BY <1>1, WFMin
<1>3. \A y \in T : y \subseteq x => y = x
  BY <1>2 DEF StrictSubsetOrdering
<1> QED
  BY <1>3

\* A set of natural numbers that is not empty has a least one.
LEMMA LeastExists ==
    ASSUME NEW T, T \subseteq Nat, T # {}
    PROVE  \E x \in T : \A y \in T : x <= y
<1>1. PICK R : IsWellFoundedOn(R, Nat) /\ \A x, y \in Nat : y < x => <<y, x>> \in R
  <2>1. IsWellFoundedOn(OpToRel(<, Nat), Nat)
    BY NatLessThanWellFounded, Zenon
  <2>2. \A x, y \in Nat : y < x => <<y, x>> \in OpToRel(<, Nat)
    BY DEF OpToRel
  <2> QED
    BY <2>1, <2>2, Zenon
<1>2. PICK x \in T : \A y \in T : <<y, x>> \notin R
  BY <1>1, WFMin
<1>3. \A y \in T : ~(y < x)
  BY <1>1, <1>2
<1> QED
  BY <1>3

\* Finitely many numbers have a greatest one.
LEMMA GreatestExists ==
    ASSUME NEW S, IsFiniteSet(S), S \subseteq Int, S # {}
    PROVE  \E x \in S : \A y \in S : y <= x
<1> DEFINE Above(x) == {y \in S : x < y}
           T == {Above(x) : x \in S}
<1>1. T \subseteq SUBSET S /\ T # {}
  OBVIOUS
<1>2. PICK A \in T : \A B \in T : B \subseteq A => B = A
  <2> HIDE DEF T
  <2> QED
    BY ONLY <1>1, IsFiniteSet(S), SmallestExists
<1>3. PICK x \in S : A = Above(x)
  OBVIOUS
<1>4. ASSUME NEW y \in S, x < y PROVE FALSE
  <2>1. \A z \in S : y < z => x < z
    BY <1>4
  <2>2. y \in Above(x) /\ y \notin Above(y)
    BY <1>4
  <2>3. Above(y) \subseteq Above(x)
    BY <2>1
  <2>4. Above(y) \in T
    OBVIOUS
  <2> HIDE DEF Above
  <2> QED
    BY <1>2, <1>3, <2>2, <2>3, <2>4
<1> QED
  BY <1>4

\* Two of these functions agree wherever both are defined.
LEMMA IteratesAgree ==
    ASSUME NEW base, NEW fun, NEW S, NEW T, IsFiniteSet(S), Picks(S),
           NEW g, NEW h, Iterates(g, base, fun, S), Iterates(h, base, fun, T),
           NEW u, u \subseteq S, u \subseteq T
    PROVE  g[u] = h[u]
<1> SUFFICES ASSUME g[u] # h[u] PROVE FALSE
  OBVIOUS
<1> DEFINE Bad == {s \in SUBSET u : g[s] # h[s]}
<1>1. Bad \subseteq SUBSET S /\ Bad # {}
  OBVIOUS
<1>2. PICK s \in Bad : \A y \in Bad : y \subseteq s => y = s
  <2> HIDE DEF Bad
  <2> QED
    BY <1>1, SmallestExists
<1>3. /\ g[s] = IF s = {} THEN base ELSE op(fun[pick(s)], g[s \ {pick(s)}])
      /\ h[s] = IF s = {} THEN base ELSE op(fun[pick(s)], h[s \ {pick(s)}])
  <2>1. s \in SUBSET S /\ s \in SUBSET T
    OBVIOUS
  <2> HIDE DEF Bad
  <2> QED
    BY <2>1, Zenon DEF Iterates
<1>4. s # {}
  BY <1>3
<1>5. pick(s) \in s
  BY <1>4 DEF Picks
<1>6. g[s \ {pick(s)}] = h[s \ {pick(s)}]
  <2>1. s \ {pick(s)} \notin Bad
    BY <1>2, <1>5
  <2> QED
    BY <2>1
<1>7. g[s] = h[s]
  BY <1>3, <1>4, <1>6
<1> QED
  BY <1>7

\* There is such a function for every finite set.
LEMMA IteratesExists ==
    ASSUME NEW base, NEW fun, NEW S, IsFiniteSet(S), Picks(S)
    PROVE  \E g : Iterates(g, base, fun, S)
<1> SUFFICES ASSUME ~ \E g : Iterates(g, base, fun, S) PROVE FALSE
  OBVIOUS
<1> DEFINE Bad == {s \in SUBSET S : ~ \E g : Iterates(g, base, fun, s)}
<1>1. Bad \subseteq SUBSET S /\ S \in Bad
  OBVIOUS
<1>2. PICK s \in Bad : \A y \in Bad : y \subseteq s => y = s
  <2> HIDE DEF Bad
  <2> QED
    BY <1>1, SmallestExists
<1>3. s \in SUBSET S /\ ~ \E g : Iterates(g, base, fun, s)
  OBVIOUS
<1>4. \A w \in SUBSET s : w # s => \E g : Iterates(g, base, fun, w)
  BY <1>2, <1>3
<1> HIDE DEF Bad
<1> DEFINE Of(w) == CHOOSE g : Iterates(g, base, fun, w)
           g == [u \in SUBSET s |-> IF u = {} THEN base
                                    ELSE op(fun[pick(u)], Of(u \ {pick(u)})[u \ {pick(u)}])]
<1>5. ASSUME NEW u \in SUBSET s, u # {} PROVE pick(u) \in u
  BY <1>3, <1>5 DEF Picks
<1>6. ASSUME NEW w \in SUBSET s, w # s
      PROVE  Iterates(Of(w), base, fun, w)
  BY <1>4, <1>6
<1> HIDE DEF Of
<1>7. ASSUME NEW w \in SUBSET s, w # s PROVE g[w] = Of(w)[w]
  <2>1. Of(w)[w] = IF w = {} THEN base
                   ELSE op(fun[pick(w)], Of(w)[w \ {pick(w)}])
    <3>1. Iterates(Of(w), base, fun, w) /\ w \in SUBSET w
      BY <1>6, <1>7
    <3> QED
      BY <3>1, Zenon DEF Iterates
  <2>2. CASE w = {}
    BY <2>1, <2>2
  <2>3. CASE w # {}
    <3> DEFINE v == w \ {pick(w)}
    <3>1. pick(w) \in w
      BY <1>5, <2>3
    <3>2. v \in SUBSET s /\ v # s /\ v \subseteq w /\ v \subseteq S /\ w \subseteq S
      BY <1>3, <3>1
    <3>3. Iterates(Of(v), base, fun, v) /\ Iterates(Of(w), base, fun, w)
      BY <1>6, <1>7, <3>2
    <3>4. IsFiniteSet(w) /\ Picks(w)
      BY <3>2, FS_Subset DEF Picks
    <3> HIDE DEF v
    <3>5. Of(w)[v] = Of(v)[v]
      BY <3>2, <3>3, <3>4, IteratesAgree
    <3>6. Of(w)[w] = op(fun[pick(w)], Of(v)[v])
      BY <2>1, <2>3, <3>5 DEF v
    <3>7. g[w] = op(fun[pick(w)], Of(v)[v])
      BY <2>3 DEF v
    <3> QED
      BY <3>6, <3>7
  <2> QED
    BY <2>2, <2>3
<1>8. Iterates(g, base, fun, s)
  <2>1. ASSUME NEW u \in SUBSET s, u # {}
        PROVE  Of(u \ {pick(u)})[u \ {pick(u)}] = g[u \ {pick(u)}]
    <3>1. u \ {pick(u)} \in SUBSET s /\ u \ {pick(u)} # s
      BY <1>5, <2>1
    <3> HIDE DEF g
    <3> QED
      BY <1>7, <3>1
  <2>2. g = [u \in SUBSET s |-> IF u = {} THEN base
                                ELSE op(fun[pick(u)], g[u \ {pick(u)}])]
    BY <2>1
  <2> HIDE DEF g
  <2> QED
    BY <2>2 DEF Iterates
<1> QED
  BY <1>3, <1>8
-----------------------------------------------------------------------------
\* The fold is the value at S of a function of that kind.
LEMMA FoldIterates ==
    ASSUME NEW base, NEW fun, NEW S, IsFiniteSet(S), Picks(S)
    PROVE  \E g : Iterates(g, base, fun, S) /\ Fold(base, fun, S) = g[S]
<1> DEFINE g == CHOOSE h : Iterates(h, base, fun, S)
<1>1. Iterates(g, base, fun, S)
  BY IteratesExists
<1>2. Fold(base, fun, S) = g[S]
  BY Zenon DEF Fold, MapThenFoldSet, Iterates
<1> QED
  BY <1>1, <1>2

\* Over no element the fold is its base.
THEOREM FoldEmpty ==
    ASSUME NEW base, NEW fun
    PROVE  Fold(base, fun, {}) = base
<1>1. IsFiniteSet({}) /\ Picks({})
  BY FS_EmptySet DEF Picks
<1>2. PICK g : Iterates(g, base, fun, {}) /\ Fold(base, fun, {}) = g[{}]
  BY <1>1, FoldIterates
<1>3. g[{}] = base
  BY <1>2 DEF Iterates
<1> QED
  BY <1>2, <1>3

\* The last step folds the element that is picked into the fold of the others.
THEOREM FoldStep ==
    ASSUME NEW base, NEW fun, NEW S, IsFiniteSet(S), Picks(S), S # {}
    PROVE  Fold(base, fun, S) = op(fun[pick(S)], Fold(base, fun, S \ {pick(S)}))
<1> DEFINE T == S \ {pick(S)}
<1>1. IsFiniteSet(T) /\ Picks(T) /\ T \subseteq S
  BY FS_Subset DEF Picks
<1>2. PICK g : Iterates(g, base, fun, S) /\ Fold(base, fun, S) = g[S]
  BY FoldIterates
<1> HIDE DEF T
<1>3. PICK h : Iterates(h, base, fun, T) /\ Fold(base, fun, T) = h[T]
  BY <1>1, FoldIterates
<1>4. g[T] = h[T]
  BY <1>1, <1>2, <1>3, IteratesAgree
<1>5. g[S] = op(fun[pick(S)], g[T])
  BY <1>2 DEF Iterates, T
<1> QED
  BY <1>2, <1>3, <1>4, <1>5 DEF T

\* Only the values of the elements count.
THEOREM FoldAgrees ==
    ASSUME NEW base, NEW fun, NEW gun, NEW S, IsFiniteSet(S), Picks(S),
           \A i \in S : fun[i] = gun[i]
    PROVE  Fold(base, fun, S) = Fold(base, gun, S)
<1> SUFFICES ASSUME Fold(base, fun, S) # Fold(base, gun, S) PROVE FALSE
  OBVIOUS
<1> DEFINE Bad == {s \in SUBSET S : Fold(base, fun, s) # Fold(base, gun, s)}
<1>1. Bad \subseteq SUBSET S /\ Bad # {}
  OBVIOUS
<1>2. PICK s \in Bad : \A y \in Bad : y \subseteq s => y = s
  <2> HIDE DEF Bad
  <2> QED
    BY <1>1, SmallestExists
<1>3. s \in SUBSET S /\ Fold(base, fun, s) # Fold(base, gun, s)
  OBVIOUS
<1>4. s # {}
  <2>1. Fold(base, fun, {}) = Fold(base, gun, {})
    BY FoldEmpty
  <2> QED
    BY <1>3, <2>1, Zenon
<1> DEFINE t == s \ {pick(s)}
<1>5. pick(s) \in s /\ t \in SUBSET S /\ t \subseteq s /\ t # s
  BY <1>3, <1>4 DEF Picks
<1>6. Fold(base, fun, t) = Fold(base, gun, t)
  BY <1>2, <1>5
<1>7. IsFiniteSet(s) /\ Picks(s)
  BY <1>3, FS_Subset DEF Picks
<1> HIDE DEF Bad
<1>8. /\ Fold(base, fun, s) = op(fun[pick(s)], Fold(base, fun, t))
      /\ Fold(base, gun, s) = op(gun[pick(s)], Fold(base, gun, t))
  BY <1>4, <1>7, FoldStep
<1> HIDE DEF t
<1>9. fun[pick(s)] = gun[pick(s)]
  BY <1>3, <1>5
<1> QED
  BY <1>3, <1>6, <1>8, <1>9

\* Induction over the elements, for two folds of the same set at once: what
\* relates their bases and is kept by every step relates their results.
THEOREM FoldRelates ==
    ASSUME NEW b, NEW c, NEW fun, NEW gun, NEW S, IsFiniteSet(S), Picks(S), NEW R,
           <<b, c>> \in R,
           \A i \in S : \A y, z : <<y, z>> \in R => <<op(fun[i], y), op(gun[i], z)>> \in R
    PROVE  <<Fold(b, fun, S), Fold(c, gun, S)>> \in R
<1> SUFFICES ASSUME <<Fold(b, fun, S), Fold(c, gun, S)>> \notin R PROVE FALSE
  OBVIOUS
<1> DEFINE Bad == {s \in SUBSET S : <<Fold(b, fun, s), Fold(c, gun, s)>> \notin R}
<1>1. Bad \subseteq SUBSET S /\ Bad # {}
  OBVIOUS
<1>2. PICK s \in Bad : \A y \in Bad : y \subseteq s => y = s
  <2> HIDE DEF Bad
  <2> QED
    BY <1>1, SmallestExists
<1>3. s \in SUBSET S /\ <<Fold(b, fun, s), Fold(c, gun, s)>> \notin R
  OBVIOUS
<1>4. CASE s = {}
  <2>1. Fold(b, fun, {}) = b /\ Fold(c, gun, {}) = c
    BY FoldEmpty
  <2>2. <<Fold(b, fun, {}), Fold(c, gun, {})>> \notin R
    BY <1>3, <1>4, Zenon
  <2> QED
    BY <2>1, <2>2
<1>5. CASE s # {}
  <2> DEFINE t == s \ {pick(s)}
  <2>1. pick(s) \in s /\ t \in SUBSET S /\ t \subseteq s /\ t # s
    BY <1>3, <1>5 DEF Picks
  <2>2. <<Fold(b, fun, t), Fold(c, gun, t)>> \in R
    BY <1>2, <2>1
  <2>3. IsFiniteSet(s) /\ Picks(s)
    BY <1>3, FS_Subset DEF Picks
  <2> HIDE DEF Bad
  <2>4. /\ Fold(b, fun, s) = op(fun[pick(s)], Fold(b, fun, t))
        /\ Fold(c, gun, s) = op(gun[pick(s)], Fold(c, gun, t))
    BY <1>5, <2>3, FoldStep
  <2> HIDE DEF t
  <2>5. <<op(fun[pick(s)], Fold(b, fun, t)), op(gun[pick(s)], Fold(c, gun, t))>> \in R
    BY <1>3, <2>1, <2>2
  <2> QED
    BY <1>3, <2>4, <2>5
<1> QED
  BY <1>4, <1>5

\* The same for one fold: a set that has the base and is closed under every
\* step has the result.
THEOREM FoldStays ==
    ASSUME NEW base, NEW fun, NEW S, IsFiniteSet(S), Picks(S), NEW T,
           base \in T, \A i \in S, y \in T : op(fun[i], y) \in T
    PROVE  Fold(base, fun, S) \in T
<1> DEFINE R == T \X T
<1>1. <<base, base>> \in R
  OBVIOUS
<1>2. \A i \in S : \A y, z : <<y, z>> \in R => <<op(fun[i], y), op(fun[i], z)>> \in R
  OBVIOUS
<1>3. <<Fold(base, fun, S), Fold(base, fun, S)>> \in R
  <2> HIDE DEF R
  <2> QED
    BY <1>1, <1>2, FoldRelates
<1> QED
  BY <1>3
-----------------------------------------------------------------------------
(* Induction over the elements in the order of the fold, and folds whose   *)
(* steps commute.                                                          *)

\* A set of subsets that has the empty one, and every subset when it has it
\* without the element that is picked, has them all.
THEOREM FoldInduction ==
    ASSUME NEW S, IsFiniteSet(S), Picks(S), NEW Good, {} \in Good,
           \A s \in SUBSET S : s # {} /\ s \ {pick(s)} \in Good => s \in Good
    PROVE  \A s \in SUBSET S : s \in Good
<1> SUFFICES ASSUME NEW w \in SUBSET S, w \notin Good PROVE FALSE
  OBVIOUS
<1> DEFINE Bad == {s \in SUBSET S : s \notin Good}
<1>1. Bad \subseteq SUBSET S /\ Bad # {}
  OBVIOUS
<1>2. PICK s \in Bad : \A y \in Bad : y \subseteq s => y = s
  <2> HIDE DEF Bad
  <2> QED
    BY <1>1, SmallestExists
<1>3. s \in SUBSET S /\ s \notin Good /\ s # {}
  OBVIOUS
<1>4. pick(s) \in s
  BY <1>3 DEF Picks
<1>5. s \ {pick(s)} \in Good
  BY <1>2, <1>3, <1>4
<1> QED
  BY <1>3, <1>5

\* The steps over S commute on the values a fold from base reaches.
Commutes(base, fun, S, T) ==
    /\ base \in T
    /\ \A i \in S, y \in T : op(fun[i], y) \in T
    /\ \A i, j \in S, y \in T : op(fun[i], op(fun[j], y)) = op(fun[j], op(fun[i], y))

\* Then any element may be folded last.
THEOREM FoldAnyLast ==
    ASSUME NEW base, NEW fun, NEW S, IsFiniteSet(S), Picks(S),
           NEW T, Commutes(base, fun, S, T), NEW i \in S
    PROVE  Fold(base, fun, S) = op(fun[i], Fold(base, fun, S \ {i}))
<1> DEFINE Last(s, j) == Fold(base, fun, s) = op(fun[j], Fold(base, fun, s \ {j}))
           Bad == {s \in SUBSET S : \E j \in s : ~Last(s, j)}
<1> SUFFICES ASSUME Bad # {} PROVE FALSE
  OBVIOUS
<1>1. Bad \subseteq SUBSET S
  OBVIOUS
<1>2. PICK s \in Bad : \A y \in Bad : y \subseteq s => y = s
  <2> HIDE DEF Bad
  <2> QED
    BY <1>1, SmallestExists
<1>3. PICK j \in s : s \in SUBSET S /\ ~Last(s, j)
  OBVIOUS
<1>4. ASSUME NEW y \in SUBSET s, y # s, NEW k \in y PROVE Last(y, k)
  BY <1>2, <1>3, <1>4
<1>5. \A y \in SUBSET s : IsFiniteSet(y) /\ Picks(y)
  BY <1>3, FS_Subset DEF Picks
<1> HIDE DEF Bad
<1> DEFINE p == pick(s)
<1>6. p \in s
  BY <1>3 DEF Picks
<1>7. Last(s, p)
  BY <1>5, <1>6, FoldStep
<1>8. p # j
  BY <1>3, <1>7
<1> DEFINE u == s \ {p}
           v == s \ {j}
           w == s \ {p, j}
<1>9. /\ u \in SUBSET s /\ u # s /\ j \in u /\ u \ {j} = w
      /\ v \in SUBSET s /\ v # s /\ p \in v /\ v \ {p} = w
      /\ w \in SUBSET s
  BY <1>3, <1>6, <1>8
<1> HIDE DEF u, v, w, p
<1>10. Fold(base, fun, u) = op(fun[j], Fold(base, fun, w))
  BY <1>4, <1>9
<1>11. Fold(base, fun, v) = op(fun[p], Fold(base, fun, w))
  BY <1>4, <1>9
<1>12. Fold(base, fun, w) \in T
  <2>1. IsFiniteSet(w) /\ Picks(w)
    BY <1>5, <1>9
  <2>2. \A k \in w, y \in T : op(fun[k], y) \in T
    BY <1>3, <1>9 DEF Commutes
  <2>3. base \in T
    BY DEF Commutes
  <2> QED
    BY ONLY <2>1, <2>2, <2>3, FoldStays
<1>13. op(fun[p], op(fun[j], Fold(base, fun, w))) = op(fun[j], op(fun[p], Fold(base, fun, w)))
  BY <1>3, <1>6, <1>12 DEF Commutes
<1>14. Fold(base, fun, s) = op(fun[p], Fold(base, fun, u))
  BY <1>7 DEF u
<1>15. Fold(base, fun, s) = op(fun[j], Fold(base, fun, v))
  BY <1>10, <1>11, <1>13, <1>14
<1> QED
  BY <1>3, <1>15 DEF v

\* And the elements may be renamed, one to one.
THEOREM FoldRenamed ==
    ASSUME NEW base, NEW fun, NEW gun, NEW S, IsFiniteSet(S), Picks(S),
           NEW T, Commutes(base, fun, S, T),
           NEW m \in [S -> S], \A i, j \in S : m[i] = m[j] => i = j,
           \A i \in S : gun[i] = fun[m[i]]
    PROVE  Fold(base, gun, S) = Fold(base, fun, {m[i] : i \in S})
<1> DEFINE Image(s) == {m[i] : i \in s}
           Good == {s \in SUBSET S : Fold(base, gun, s) = Fold(base, fun, Image(s))}
<1>1. {} \in Good
  <2>1. Image({}) = {}
    OBVIOUS
  <2>2. Fold(base, gun, {}) = base /\ Fold(base, fun, {}) = base
    BY FoldEmpty
  <2>3. Fold(base, gun, {}) = Fold(base, fun, Image({}))
    BY <2>1, <2>2, Zenon
  <2> QED
    BY <2>3
<1>2. ASSUME NEW s \in SUBSET S, s # {}, s \ {pick(s)} \in Good PROVE s \in Good
  <2> DEFINE p == pick(s)
             u == s \ {p}
  <2>1. p \in s /\ p \in S
    BY <1>2 DEF Picks
  <2>2. Fold(base, gun, u) = Fold(base, fun, Image(u))
    BY <1>2
  <2>3. Fold(base, gun, s) = op(gun[p], Fold(base, gun, u))
    <3>1. IsFiniteSet(s) /\ Picks(s)
      BY <1>2, FS_Subset DEF Picks
    <3> QED
      BY <1>2, <3>1, FoldStep
  <2>4. Image(s) \in SUBSET S /\ m[p] \in Image(s) /\ Image(u) = Image(s) \ {m[p]}
    BY <2>1
  <2> HIDE DEF Good, Image, u, p
  <2>5. Fold(base, fun, Image(s)) = op(fun[m[p]], Fold(base, fun, Image(u)))
    <3> DEFINE I == Image(s)
    <3>1. IsFiniteSet(I) /\ Picks(I)
      BY <2>4, FS_Subset DEF Picks
    <3>2. Commutes(base, fun, I, T)
      BY <2>4 DEF Commutes
    <3> HIDE DEF I
    <3>3. \A k \in I : Fold(base, fun, I) = op(fun[k], Fold(base, fun, I \ {k}))
      BY ONLY <3>1, <3>2, FoldAnyLast
    <3> QED
      BY <2>4, <3>3 DEF I
  <2>6. Fold(base, gun, s) = Fold(base, fun, Image(s))
    BY <2>1, <2>2, <2>3, <2>5
  <2> QED
    BY <2>6 DEF Good
<1>3. \A s \in SUBSET S : s \in Good
  <2> HIDE DEF Good
  <2> QED
    BY <1>1, <1>2, FoldInduction
<1>4. S \in Good
  BY <1>3
<1> QED
  BY <1>4
=============================================================================
