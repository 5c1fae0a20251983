-------------------------- MODULE WorkspaceProofs --------------------------
(***************************************************************************)
(* Proofs about the panes of the editor (EditorGroups), for any tabs and   *)
(* any number of columns from two, and about the statuses of threads       *)
(* (ThreadStatus), for any log and any list of threads.                    *)
(***************************************************************************)
EXTENDS MCWorkspace, FiniteSetTheorems, SequenceTheorems, WellFoundedInduction,
        NaturalsInduction, TLAPS

(***************************************************************************)
(* The invariant.  Fit says of panes what the reducers leave intact on     *)
(* their way, Trim what compactEditorColumns adds in the end.              *)
(***************************************************************************)
Pane == [tabs : Seq(Tabs), active : Tabs \cup {NoTabId}]
Panes == [Columns -> Pane]
EditorStates == [panes : Panes, focus : Columns, layout : {"single", "horizontal"}]

\* An element stands in a sequence once.
Once(s) == \A i, k \in DOMAIN s : s[i] = s[k] => i = k

\* Each tab once, and the active one is one of them.
SoundPane(p) ==
  /\ p \in Pane /\ Once(p.tabs)
  /\ p.active = NoTabId \/ p.active \in Held(p)
  /\ p.active = NoTabId => p.tabs = << >>

HeldIn(panes) == UNION {Held(panes[c]) : c \in Columns}

Fit(panes) ==
  /\ panes \in Panes
  /\ \A c \in Columns : SoundPane(panes[c])
  /\ \A c, d \in Columns : \A x \in Held(panes[c]) : x \in Held(panes[d]) => c = d

Trim(e) == e \in EditorStates /\ Fit(e.panes) /\ PackedLeft(e.panes) /\ LayoutFits(e)

EditorInv ==
  /\ Trim(editor)
  /\ source \subseteq Tabs /\ IsFiniteSet(source)
  /\ PanesMatchTabs

(***************************************************************************)
(* Sets of numbers in their order.                                         *)
(***************************************************************************)
Ascending(s) == \A i, j \in DOMAIN s : i < j => s[i] < s[j]

\* Among finite sets there is always one that has none of the others inside: the form
\* in which the library's induction over finite sets can be used.
LEMMA MinimalSet ==
  ASSUME NEW S, NEW F \in SUBSET FiniteSubsetsOf(S), F # {}
  PROVE  \E X \in F : \A Y \in F : ~(Y \subseteq X /\ Y # X)
  <1>1. \E X \in F : \A Y \in F : ~(<<Y, X>> \in StrictSubsetOrdering(S))
    BY FS_StrictSubsetOrderingWellFounded, WFMin
  <1> QED BY <1>1 DEF StrictSubsetOrdering, FiniteSubsetsOf

\* A finite set of numbers that is not empty has a greatest one.
LEMMA GreatestExists ==
  ASSUME NEW S \in SUBSET Int, IsFiniteSet(S), S # {}
  PROVE  \E m \in S : \A n \in S : n <= m
  <1> DEFINE Has(X) == \E m \in X : \A n \in X : n <= m
             F == {X \in FiniteSubsetsOf(S) : X # {} /\ ~Has(X)}
  <1> SUFFICES ASSUME F # {} PROVE FALSE
    BY DEF FiniteSubsetsOf
  <1>1. PICK X \in F : \A Y \in F : ~(Y \subseteq X /\ Y # X)
    <2>1. F \in SUBSET FiniteSubsetsOf(S)
      OBVIOUS
    <2> HIDE DEF F
    <2> QED BY <2>1, MinimalSet
  <1>2. PICK x \in X : TRUE
    BY <1>1
  <1>3. X \ {x} \in FiniteSubsetsOf(S)
    BY <1>1, FS_Subset DEF FiniteSubsetsOf
  <1>4. X \ {x} = {} \/ Has(X \ {x})
    <2>1. X \ {x} \notin F
      BY <1>1, <1>2
    <2> HIDE DEF Has
    <2> QED BY <1>3, <2>1
  <1>5. X \subseteq Int /\ ~Has(X)
    BY <1>1 DEF FiniteSubsetsOf
  <1> QED BY <1>2, <1>4, <1>5

\* A finite set of numbers can be put in increasing order.
LEMMA OrderExists ==
  ASSUME NEW S \in SUBSET Int, IsFiniteSet(S)
  PROVE  \E s \in [1..Cardinality(S) -> S] : Range(s) = S /\ Ascending(s)
  <1> DEFINE Has(X) == \E s \in [1..Cardinality(X) -> X] : Range(s) = X /\ Ascending(s)
             F == {X \in FiniteSubsetsOf(S) : ~Has(X)}
  <1> SUFFICES ASSUME F # {} PROVE FALSE
    BY DEF FiniteSubsetsOf
  <1>1. PICK X \in F : \A Y \in F : ~(Y \subseteq X /\ Y # X)
    <2>1. F \in SUBSET FiniteSubsetsOf(S)
      OBVIOUS
    <2> HIDE DEF F
    <2> QED BY <2>1, MinimalSet
  <1>2. X \subseteq Int /\ IsFiniteSet(X) /\ ~Has(X)
    BY <1>1 DEF FiniteSubsetsOf
  <1>3. X # {}
    <2> SUFFICES ASSUME X = {} PROVE Has(X)
      BY <1>2
    <2>1. Cardinality(X) = 0
      BY FS_EmptySet
    <2> DEFINE s == [i \in 1..0 |-> 0]
    <2>2. s \in [1..Cardinality(X) -> X] /\ Range(s) = X /\ Ascending(s)
      BY <2>1 DEF Range, Ascending
    <2> QED BY <2>2
  <1>4. PICK m \in X : \A n \in X : n <= m
    BY <1>2, <1>3, GreatestExists
  <1> DEFINE Y == X \ {m}
  <1>5. Y \in FiniteSubsetsOf(S) /\ Y \subseteq X /\ Y # X
    BY <1>1, <1>2, <1>4, FS_Subset DEF FiniteSubsetsOf
  <1>6. PICK s \in [1..Cardinality(Y) -> Y] : Range(s) = Y /\ Ascending(s)
    BY <1>1, <1>5
  <1> HIDE DEF Y
  <1>7. PICK k \in Nat : Cardinality(Y) = k /\ Cardinality(X) = k + 1
    BY <1>2, <1>4, FS_RemoveElement, FS_CardinalityType, FS_Subset DEF Y
  <1>11. s \in [1..k -> Y] /\ Range(s) = Y /\ Ascending(s)
    BY <1>6, <1>7
  <1>12. X = Y \cup {m} /\ m \notin Y
    BY <1>4 DEF Y
  <1> DEFINE t == [i \in 1..(k + 1) |-> IF i = k + 1 THEN m ELSE s[i]]
  <1>13. /\ DOMAIN t = 1..(k + 1) /\ t[k + 1] = m
         /\ \A i \in 1..k : t[i] = s[i] /\ s[i] \in Y
    BY <1>7, <1>11
  <1> HIDE DEF t
  <1>8. t \in [1..(k + 1) -> X]
    BY <1>7, <1>11, <1>12 DEF t
  <1>9. Range(t) = X
    <2>1. ASSUME NEW x \in Y PROVE x \in Range(t)
      <3>1. PICK i \in 1..k : x = s[i]
        BY <1>11 DEF Range
      <3>2. i \in 1..(k + 1) /\ t[i] = x
        BY <1>7, <1>13, <3>1
      <3> QED BY <1>13, <3>2 DEF Range
    <2>2. m \in Range(t)
      <3>1. k + 1 \in 1..(k + 1)
        BY <1>7
      <3> QED BY <1>13, <3>1 DEF Range
    <2>3. Range(t) \subseteq X
      BY <1>8 DEF Range
    <2> QED BY <1>12, <2>1, <2>2, <2>3
  <1>10. Ascending(t)
    <2> SUFFICES ASSUME NEW i \in 1..(k + 1), NEW j \in 1..(k + 1), i < j
                 PROVE  t[i] < t[j]
      BY <1>13 DEF Ascending
    <2>1. i \in 1..k /\ t[i] = s[i] /\ s[i] \in Y
      BY <1>7, <1>13
    <2>2. CASE j = k + 1
      <3>1. t[j] = m /\ s[i] <= m /\ s[i] # m /\ s[i] \in Int /\ m \in Int
        BY <1>2, <1>4, <1>12, <1>13, <2>1, <2>2
      <3> QED BY <2>1, <3>1
    <2>3. CASE j # k + 1
      <3>1. j \in 1..k /\ t[j] = s[j]
        BY <1>7, <1>13, <2>3
      <3> QED BY <1>11, <2>1, <3>1 DEF Ascending
    <2> QED BY <2>2, <2>3
  <1>14. Has(X)
    BY <1>7, <1>8, <1>9, <1>10
  <1> QED BY <1>2, <1>14

\* What InOrder returns.
LEMMA InOrderProperties ==
  ASSUME NEW S \in SUBSET Int, IsFiniteSet(S)
  PROVE  /\ InOrder(S) \in Seq(S) /\ Len(InOrder(S)) = Cardinality(S)
         /\ Range(InOrder(S)) = S
         /\ Ascending(InOrder(S))
  <1>1. InOrder(S) \in [1..Cardinality(S) -> S] /\ Range(InOrder(S)) = S /\ Ascending(InOrder(S))
    BY OrderExists DEF InOrder, Ascending
  <1>2. Cardinality(S) \in Nat
    BY FS_CardinalityType
  <1> QED BY <1>1, <1>2

\* A finite set as a sequence holds each of its elements once.
LEMMA SetToSeqHolds ==
  ASSUME NEW S, IsFiniteSet(S), NEW T, S \subseteq T
  PROVE  /\ SetToSeq(S) \in Seq(T)
         /\ \A n \in DOMAIN SetToSeq(S) : SetToSeq(S)[n] \in S
         /\ \A m, n \in DOMAIN SetToSeq(S) : SetToSeq(S)[m] = SetToSeq(S)[n] => m = n
  <1> DEFINE k == Cardinality(S)
  <1>1. k \in Nat /\ ExistsBijection(1..k, S)
    BY FS_CardinalityType
  <1>2. PICK f \in [1..k -> S] : IsInjective(f)
    <2>1. PICK f \in Bijection(1..k, S) : TRUE
      BY <1>1 DEF ExistsBijection
    <2> QED BY <2>1 DEF Bijection, Injection
  <1> DEFINE g == SetToSeq(S)
  <1>3. g \in [1..k -> S] /\ IsInjective(g)
    BY <1>2 DEF SetToSeq
  <1> HIDE DEF g, k
  <1>4. g \in [1..k -> T]
    BY <1>3
  <1>5. g \in Seq(T)
    BY <1>4, <1>1
  <1>6. \A n \in DOMAIN g : g[n] \in S
    BY <1>3
  <1>7. \A m, n \in DOMAIN g : g[m] = g[n] => m = n
    BY <1>3 DEF IsInjective
  <1> QED BY <1>5, <1>6, <1>7 DEF g

\* An empty set as a sequence.
LEMMA EmptyToSeq == SetToSeq({}) = << >>
  <1>1. SetToSeq({}) \in Seq({}) /\ \A n \in DOMAIN SetToSeq({}) : SetToSeq({})[n] \in {}
    BY SetToSeqHolds, FS_EmptySet, Zenon
  <1> QED BY <1>1

(***************************************************************************)
(* Sequences: what is taken out of one, put into one or put behind one.    *)
(***************************************************************************)

\* What is left of a sequence keeps its order, so nothing doubles.
LEMMA FilteredHolds ==
  ASSUME NEW A, NEW s \in Seq(A), NEW T
  PROVE  /\ Filtered(s, T) \in Seq(A)
         /\ Range(Filtered(s, T)) = Range(s) \cap T
         /\ Once(s) => Once(Filtered(s, T))
         /\ Len(Filtered(s, T)) = Cardinality({i \in DOMAIN s : s[i] \in T})
  <1> DEFINE n == Len(s)
             K == {i \in DOMAIN s : s[i] \in T}
             kept == InOrder(K)
             w == [i \in DOMAIN kept |-> s[kept[i]]]
  <1>1. n \in Nat /\ DOMAIN s = 1..n /\ \A i \in 1..n : s[i] \in A
    OBVIOUS
  <1>2. K \subseteq 1..n /\ 1..n \subseteq Int /\ IsFiniteSet(1..n)
    BY <1>1, FS_Interval
  <1>3. kept \in Seq(K) /\ Len(kept) = Cardinality(K) /\ Range(kept) = K /\ Ascending(kept)
    <2> HIDE DEF K, n
    <2>1. K \in SUBSET Int /\ IsFiniteSet(K)
      BY <1>2, FS_Subset
    <2> QED BY <2>1, InOrderProperties
  <1>4. PICK k \in Nat : k = Len(kept) /\ DOMAIN kept = 1..k /\ \A i \in 1..k : kept[i] \in K
    <2> HIDE DEF kept, K
    <2>1. kept \in Seq(K)
      BY <1>3
    <2> QED BY <2>1
  <1> HIDE DEF kept
  <1>5. DOMAIN w = 1..k /\ \A i \in 1..k : w[i] = s[kept[i]] /\ kept[i] \in 1..n /\ w[i] \in T
    BY <1>2, <1>4
  <1>6. w \in Seq(A) /\ Len(w) = k
    <2>1. \A i \in 1..k : w[i] \in A
      BY <1>1, <1>5
    <2>2. w = [i \in 1..k |-> w[i]]
      BY <1>4
    <2>3. w \in [1..k -> A]
      BY <2>1, <2>2
    <2> QED BY <1>5, <2>3
  <1>7. Range(w) = Range(s) \cap T
    <2>1. ASSUME NEW x \in Range(w) PROVE x \in Range(s) \cap T
      <3>1. PICK i \in 1..k : x = w[i]
        BY <1>5, <2>1 DEF Range
      <3> QED BY <1>1, <1>5, <3>1 DEF Range
    <2>2. ASSUME NEW x \in Range(s) \cap T PROVE x \in Range(w)
      <3>1. PICK j \in K : x = s[j]
        BY <2>2 DEF Range
      <3>2. PICK i \in 1..k : kept[i] = j
        BY <1>3, <1>4, <3>1 DEF Range
      <3>3. w[i] = x
        BY <1>5, <3>1, <3>2
      <3> QED BY <1>5, <3>3 DEF Range
    <2> QED BY <2>1, <2>2
  <1>8. ASSUME Once(s) PROVE Once(w)
    <2> SUFFICES ASSUME NEW i \in 1..k, NEW j \in 1..k, w[i] = w[j] PROVE i = j
      BY <1>5 DEF Once
    <2>1. kept[i] = kept[j] /\ kept[i] \in 1..n
      BY <1>1, <1>5, <1>8 DEF Once
    <2>2. \A a, b \in 1..k : a < b => kept[a] < kept[b]
      BY <1>3, <1>4 DEF Ascending
    <2> HIDE DEF n, w, K
    <2>3. kept[i] \in Int
      BY <1>1, <2>1
    <2>4. i \in Int /\ j \in Int
      BY <1>4
    <2> QED BY <2>1, <2>2, <2>3, <2>4
  <1>9. Filtered(s, T) = w
    BY DEF Filtered, kept
  <1>10. Len(w) = Cardinality(K)
    BY <1>3, <1>4, <1>6
  <1> HIDE DEF w
  <1> QED BY <1>6, <1>7, <1>8, <1>9, <1>10

\* Without one of its elements a sequence is shorter by one.
LEMMA OneLess ==
  ASSUME NEW A, NEW s \in Seq(A), Once(s), NEW x \in Range(s)
  PROVE  Len(Filtered(s, A \ {x})) = Len(s) - 1
  <1> DEFINE K == {i \in DOMAIN s : s[i] \in A \ {x}}
  <1>1. PICK n \in Nat : n = Len(s) /\ DOMAIN s = 1..n /\ \A i \in 1..n : s[i] \in A
    OBVIOUS
  <1>2. PICK k \in 1..n : s[k] = x
    BY <1>1 DEF Range
  <1>3. K = (1..n) \ {k}
    BY <1>1, <1>2 DEF Once
  <1>4. IsFiniteSet(1..n) /\ Cardinality(1..n) = n
    <2>1. 1 \in Int /\ n \in Int /\ (1 > n => n = 0)
      BY <1>1
    <2>2. /\ IsFiniteSet(1..n)
          /\ Cardinality(1..n) = IF 1 > n THEN 0 ELSE n - 1 + 1
      BY <2>1, FS_Interval, Zenon
    <2> QED BY <2>1, <2>2
  <1>5. Cardinality((1..n) \ {k}) = n - 1
    BY <1>2, <1>4, FS_RemoveElement
  <1> QED BY <1>1, <1>3, <1>5, FilteredHolds

\* Two sequences with nothing in common, one behind the other.
LEMMA BehindHolds ==
  ASSUME NEW A, NEW s \in Seq(A), NEW t \in Seq(A)
  PROVE  /\ s \o t \in Seq(A) /\ Len(s \o t) = Len(s) + Len(t)
         /\ Range(s \o t) = Range(s) \cup Range(t)
         /\ Once(s) /\ Once(t) /\ Range(s) \cap Range(t) = {} => Once(s \o t)
  <1> DEFINE u == s \o t
  <1> DEFINE m == Len(s)
             n == Len(t)
  <1>1. /\ m \in Nat /\ n \in Nat
        /\ DOMAIN s = 1..m /\ DOMAIN t = 1..n /\ DOMAIN u = 1..(m + n) /\ Len(u) = m + n
        /\ \A i \in 1..(m + n) : u[i] = IF i <= m THEN s[i] ELSE t[i - m]
    OBVIOUS
  <1>5. u \in Seq(A)
    OBVIOUS
  <1> HIDE DEF u, m, n
  <1>2. \A i \in 1..(m + n) : /\ i <= m => i \in 1..m /\ u[i] = s[i] /\ u[i] \in Range(s)
                              /\ ~(i <= m) => i - m \in 1..n /\ u[i] = t[i - m] /\ u[i] \in Range(t)
    <2>1. \A i \in 1..(m + n) : /\ i <= m => i \in 1..m /\ u[i] = s[i]
                                /\ ~(i <= m) => i - m \in 1..n /\ u[i] = t[i - m]
      BY <1>1
    <2> QED BY <1>1, <2>1 DEF Range
  <1>3. Range(u) = Range(s) \cup Range(t)
    <2>1. ASSUME NEW y \in Range(s) PROVE y \in Range(u)
      <3>1. PICK i \in 1..m : y = s[i]
        BY <1>1, <2>1 DEF Range
      <3>2. i \in 1..(m + n) /\ i <= m
        BY <1>1, <3>1
      <3> QED BY <1>1, <3>1, <3>2 DEF Range
    <2>2. ASSUME NEW y \in Range(t) PROVE y \in Range(u)
      <3>1. PICK i \in 1..n : y = t[i]
        BY <1>1, <2>2 DEF Range
      <3>2. i + m \in 1..(m + n) /\ ~(i + m <= m) /\ (i + m) - m = i
        BY <1>1, <3>1
      <3>3. u[i + m] = y
        BY <1>1, <3>1, <3>2
      <3> QED BY <1>1, <3>2, <3>3 DEF Range
    <2>3. ASSUME NEW y \in Range(u) PROVE y \in Range(s) \cup Range(t)
      BY <1>1, <1>2, <2>3 DEF Range
    <2> QED BY <2>1, <2>2, <2>3
  <1>4. ASSUME Once(s), Once(t), Range(s) \cap Range(t) = {} PROVE Once(u)
    <2> SUFFICES ASSUME NEW i \in 1..(m + n), NEW j \in 1..(m + n), u[i] = u[j] PROVE i = j
      BY <1>1 DEF Once
    <2>1. CASE i <= m /\ j <= m
      BY <1>1, <1>2, <1>4, <2>1 DEF Once
    <2>2. CASE ~(i <= m) /\ ~(j <= m)
      <3>1. i - m = j - m
        BY <1>1, <1>2, <1>4, <2>2 DEF Once
      <3> QED BY <1>1, <3>1
    <2>3. CASE (i <= m) # (j <= m)
      BY <1>2, <1>4, <2>3
    <2> QED BY <2>1, <2>2, <2>3
  <1> QED BY <1>1, <1>3, <1>4, <1>5 DEF u, m, n

\* An element put among others that are not it.
LEMMA InsertAtHolds ==
  ASSUME NEW A, NEW s \in Seq(A), NEW x \in A, x \notin Range(s), NEW k \in 1..(Len(s) + 1)
  PROVE  /\ InsertAt(s, k, x) \in Seq(A) /\ InsertAt(s, k, x) # << >>
         /\ Range(InsertAt(s, k, x)) = Range(s) \cup {x}
         /\ Once(s) => Once(InsertAt(s, k, x))
  <1> DEFINE a == SubSeq(s, 1, k - 1)
             b == SubSeq(s, k, Len(s))
  <1>1. PICK n \in Nat : n = Len(s) /\ DOMAIN s = 1..n /\ \A i \in 1..n : s[i] \in A
    OBVIOUS
  <1>2. k \in Int /\ 1 <= k /\ k <= n + 1
    BY <1>1
  <1>3. /\ a \in Seq(A) /\ DOMAIN a = 1..(k - 1) /\ \A i \in 1..(k - 1) : a[i] = s[i]
    BY <1>1, <1>2
  <1>4. /\ b \in Seq(A) /\ Len(b) = n + 1 - k /\ DOMAIN b = 1..(n + 1 - k)
        /\ \A i \in 1..(n + 1 - k) : b[i] = s[i + k - 1]
    <2>1. \A i \in k..n : s[i] \in A
      BY <1>1, <1>2
    <2>2. /\ SubSeq(s, k, n) \in Seq(A)
          /\ Len(SubSeq(s, k, n)) = IF k <= n THEN n - k + 1 ELSE 0
          /\ \A i \in 1..(n - k + 1) : SubSeq(s, k, n)[i] = s[k + i - 1]
      BY <1>1, <1>2, <2>1, SubSeqProperties
    <2>3. b = SubSeq(s, k, n)
      BY <1>1
    <2> HIDE DEF b
    <2>4. Len(b) = n + 1 - k
      BY <1>2, <2>2, <2>3
    <2>5. DOMAIN b = 1..Len(b)
      BY <2>2, <2>3
    <2>6. \A i \in 1..(n + 1 - k) : i \in 1..(n - k + 1) /\ i + k - 1 = k + i - 1
      BY <1>2
    <2> QED BY <2>2, <2>3, <2>4, <2>5, <2>6
  <1> HIDE DEF a, b
  <1>5. Range(s) = Range(a) \cup Range(b)
    <2>1. ASSUME NEW y \in Range(s) PROVE y \in Range(a) \cup Range(b)
      <3>1. PICK i \in 1..n : y = s[i]
        BY <1>1, <2>1 DEF Range
      <3>2. CASE i <= k - 1
        BY <1>2, <1>3, <3>1, <3>2 DEF Range
      <3>3. CASE ~(i <= k - 1)
        <4>1. i - k + 1 \in 1..(n + 1 - k) /\ (i - k + 1) + k - 1 = i
          BY <1>2, <3>3
        <4>2. b[i - k + 1] = y
          BY <1>4, <3>1, <4>1
        <4> QED BY <1>4, <4>1, <4>2 DEF Range
      <3> QED BY <3>2, <3>3
    <2>2. ASSUME NEW y \in Range(a) PROVE y \in Range(s)
      <3>1. PICK i \in 1..(k - 1) : y = a[i]
        BY <1>3, <2>2 DEF Range
      <3>2. i \in 1..n
        BY <1>2, <3>1
      <3> QED BY <1>1, <1>3, <3>1, <3>2 DEF Range
    <2>3. ASSUME NEW y \in Range(b) PROVE y \in Range(s)
      <3>1. PICK i \in 1..(n + 1 - k) : y = b[i]
        BY <1>4, <2>3 DEF Range
      <3>2. i + k - 1 \in 1..n
        BY <1>2, <3>1
      <3> QED BY <1>1, <1>4, <3>1, <3>2 DEF Range
    <2> QED BY <2>1, <2>2, <2>3
  <1>6. <<x>> \in Seq(A) /\ Range(<<x>>) = {x} /\ Once(<<x>>) /\ Len(<<x>>) = 1
    BY DEF Range, Once
  <1> DEFINE c == a \o <<x>>
  <1>7. c \in Seq(A) /\ Range(c) = Range(a) \cup {x} /\ Len(c) = Len(a) + 1
    <2>1. /\ a \o <<x>> \in Seq(A) /\ Len(a \o <<x>>) = Len(a) + Len(<<x>>)
          /\ Range(a \o <<x>>) = Range(a) \cup Range(<<x>>)
      BY <1>3, <1>6, BehindHolds, ZenonT(60)
    <2> QED BY <1>6, <2>1
  <1>8. ASSUME Once(s) PROVE Once(a) /\ Once(b) /\ Range(a) \cap Range(b) = {}
    <2>1. \A i \in 1..(k - 1) : i \in 1..n
      BY <1>2
    <2>2. \A i \in 1..(n + 1 - k) : i + k - 1 \in 1..n /\ ~(i + k - 1 \in 1..(k - 1))
      BY <1>2
    <2>3. Once(a)
      BY <1>1, <1>3, <1>8, <2>1 DEF Once
    <2>4. ASSUME NEW i \in 1..(n + 1 - k), NEW j \in 1..(n + 1 - k), b[i] = b[j] PROVE i = j
      <3>1. /\ i + k - 1 \in 1..n /\ j + k - 1 \in 1..n
            /\ s[i + k - 1] = s[j + k - 1]
        BY <1>4, <2>2, <2>4
      <3>2. i + k - 1 = j + k - 1
        BY <1>1, <1>8, <3>1, Zenon DEF Once
      <3> QED BY <1>2, <3>2
    <2>5. ASSUME NEW i \in 1..(k - 1), NEW j \in 1..(n + 1 - k), a[i] = b[j] PROVE FALSE
      <3>1. i \in 1..n /\ j + k - 1 \in 1..n /\ s[i] = s[j + k - 1]
        BY <1>3, <1>4, <2>1, <2>2, <2>5
      <3>2. i = j + k - 1
        BY <1>1, <1>8, <3>1, Zenon DEF Once
      <3> QED BY <2>2, <3>2
    <2> QED BY <1>3, <1>4, <2>3, <2>4, <2>5 DEF Once, Range
  <1>9. ASSUME Once(s) PROVE Once(c)
    <2>1. Range(a) \cap Range(<<x>>) = {}
      BY <1>5, <1>6
    <2> QED BY <1>3, <1>6, <1>8, <1>9, <2>1, BehindHolds
  <1> HIDE DEF c
  <1>10. /\ c \o b \in Seq(A) /\ Range(c \o b) = Range(c) \cup Range(b)
         /\ Len(c \o b) = Len(c) + Len(b)
    <2>1. c \in Seq(A) /\ b \in Seq(A)
      BY <1>4, <1>7
    <2> QED BY <2>1, BehindHolds, ZenonT(60)
  <1>11. c \o b # << >>
    <2>1. x \in Range(c \o b)
      BY <1>7, <1>10
    <2>2. Range(<< >>) = {}
      BY DEF Range
    <2> QED BY <2>1, <2>2
  <1>12. ASSUME Once(s) PROVE Once(c \o b)
    <2>1. Range(c) \cap Range(b) = {}
      BY <1>5, <1>7, <1>8, <1>12
    <2> QED BY <1>4, <1>7, <1>8, <1>9, <1>12, <2>1, BehindHolds
  <1>13. InsertAt(s, k, x) = c \o b
    BY DEF InsertAt, a, b, c
  <1> QED BY <1>5, <1>7, <1>10, <1>11, <1>12, <1>13

(***************************************************************************)
(* Panes and columns.                                                      *)
(***************************************************************************)

\* What the constants are.
LEMMA ColumnsAre ==
  /\ Columns \subseteq Nat /\ IsFiniteSet(Columns)
  /\ 1 \in Columns /\ 2 \in Columns
  /\ NoTabId \notin Tabs /\ Chats \cap Files = {}
  <1>1. MaxColumns \in Nat /\ MaxColumns >= 2
    BY EditorAssumption
  <1>2. IsFiniteSet(1..MaxColumns)
    BY <1>1, FS_Interval
  <1> QED BY <1>1, <1>2, EditorAssumption DEF Columns, Tabs

\* The first of some columns is one of them.
LEMMA FirstHolds ==
  ASSUME NEW S \in SUBSET Columns, S # {}
  PROVE  First(S) \in S
  <1>1. S \in SUBSET Int /\ IsFiniteSet(S)
    <2>1. IsFiniteSet(S)
      BY ColumnsAre, FS_Subset, Zenon
    <2>2. S \subseteq Int
      BY ColumnsAre
    <2> QED BY <2>1, <2>2
  <1>2. InOrder(S) \in Seq(S) /\ Range(InOrder(S)) = S /\ Ascending(InOrder(S))
    BY <1>1, InOrderProperties
  <1> DEFINE s == InOrder(S)
  <1> HIDE DEF s
  <1>3. PICK n \in Nat : DOMAIN s = 1..n /\ \A i \in 1..n : s[i] \in S
    BY <1>2 DEF s
  <1>4. PICK x \in S : TRUE
    OBVIOUS
  <1>5. 1 \in 1..n
    <2>1. PICK i \in 1..n : x = s[i]
      BY <1>2, <1>3, <1>4 DEF s, Range
    <2> QED BY <1>3, <2>1
  <1>6. ASSUME NEW d \in S PROVE s[1] <= d
    <2>1. PICK i \in 1..n : d = s[i]
      BY <1>2, <1>3, <1>6 DEF s, Range
    <2>2. i = 1 \/ s[1] < s[i]
      BY <1>2, <1>3, <1>5 DEF s, Ascending
    <2>3. s[1] \in Int /\ d \in Int
      BY <1>1, <1>3, <1>5
    <2> QED BY <2>1, <2>2, <2>3
  <1>7. \E c \in S : \A d \in S : c <= d
    BY <1>3, <1>5, <1>6
  <1> QED BY <1>7 DEF First

\* A pane holds tabs, and none if it is empty.
LEMMA PaneHolds ==
  ASSUME NEW p \in Pane
  PROVE  Held(p) \subseteq Tabs /\ (p.tabs = << >> <=> Held(p) = {})
  <1>1. p.tabs \in Seq(Tabs)
    BY DEF Pane
  <1>2. PICK n \in Nat : /\ DOMAIN p.tabs = 1..n /\ Len(p.tabs) = n
                         /\ \A i \in 1..n : p.tabs[i] \in Tabs
    BY <1>1
  <1>3. Held(p) \subseteq Tabs
    BY <1>2 DEF Held, Range
  <1>4. ASSUME p.tabs = << >> PROVE Held(p) = {}
    BY <1>4 DEF Held, Range
  <1>5. ASSUME p.tabs # << >> PROVE Held(p) # {}
    <2>1. n # 0
      BY <1>1, <1>2, <1>5
    <2>2. 1 \in DOMAIN p.tabs
      BY <1>2, <2>1
    <2> QED BY <2>2 DEF Held, Range
  <1> QED BY <1>3, <1>4, <1>5

\* The elements of a sequence that is not empty.
LEMMA EndsHold ==
  ASSUME NEW A, NEW s \in Seq(A), s # << >>
  PROVE  s[1] \in Range(s) /\ Last(s) \in Range(s)
  <1>1. PICK n \in Nat : DOMAIN s = 1..n /\ Len(s) = n
    OBVIOUS
  <1>2. n # 0
    BY <1>1
  <1>3. 1 \in DOMAIN s /\ n \in DOMAIN s
    BY <1>1, <1>2
  <1> QED BY <1>1, <1>3 DEF Last, Range

\* A pane with tabs, of which one is active.
LEMMA FilledPane ==
  ASSUME NEW s \in Seq(Tabs), Once(s), s # << >>, NEW a \in Range(s)
  PROVE  /\ SoundPane([tabs |-> s, active |-> a])
         /\ Held([tabs |-> s, active |-> a]) = Range(s)
  <1>1. a \in Tabs
    BY DEF Range
  <1>2. [tabs |-> s, active |-> a] \in Pane
    BY <1>1 DEF Pane
  <1> QED BY <1>1, <1>2, ColumnsAre DEF SoundPane, Held

\* An empty one.
LEMMA EmptyPaneHolds == SoundPane(EmptyPane) /\ Held(EmptyPane) = {}
  <1>1. EmptyPane \in Pane
    BY DEF EmptyPane, Pane
  <1>2. EmptyPane.tabs = << >> /\ EmptyPane.active = NoTabId
    BY DEF EmptyPane
  <1> QED BY <1>1, <1>2, PaneHolds DEF SoundPane, Once

\* A pane some of whose tabs are gone: the active one stays if it can, otherwise
\* another takes its place.
LEMMA RestOfPane ==
  ASSUME NEW p, SoundPane(p), NEW T, NEW left, NEW a,
         left = Filtered(p.tabs, T),
         left = << >> => a = NoTabId,
         left # << >> => a \in Range(left)
  PROVE  /\ SoundPane([tabs |-> left, active |-> a])
         /\ Held([tabs |-> left, active |-> a]) = Held(p) \cap T
  <1>1. p.tabs \in Seq(Tabs) /\ Once(p.tabs)
    BY DEF SoundPane, Pane
  <1>2. left \in Seq(Tabs) /\ Once(left) /\ Range(left) = Held(p) \cap T
    BY <1>1, FilteredHolds DEF Held
  <1>3. CASE left # << >>
    BY <1>2, <1>3, FilledPane
  <1>4. CASE left = << >>
    <2>1. [tabs |-> left, active |-> a] = EmptyPane
      BY <1>4 DEF EmptyPane
    <2>2. Range(<< >>) = {}
      BY DEF Range
    <2> QED BY <1>2, <1>4, <2>1, <2>2, EmptyPaneHolds
  <1> QED BY <1>3, <1>4

\* A pane without one of its tabs.
LEMMA LackingHolds ==
  ASSUME NEW p, SoundPane(p), NEW t
  PROVE  SoundPane(Lacking(p, t)) /\ Held(Lacking(p, t)) = Held(p) \ {t}
  <1> DEFINE left == Filtered(p.tabs, Tabs \ {t})
             a == IF p.active # t THEN p.active ELSE IF left # << >> THEN Last(left) ELSE NoTabId
  <1>1. p.tabs \in Seq(Tabs) /\ p \in Pane
    BY DEF SoundPane, Pane
  <1>2. left \in Seq(Tabs) /\ Range(left) = Held(p) \cap (Tabs \ {t})
    BY <1>1, FilteredHolds DEF Held
  <1>3. Held(p) \cap (Tabs \ {t}) = Held(p) \ {t}
    BY <1>1, PaneHolds
  <1>4. Lacking(p, t) = [tabs |-> left, active |-> a]
    BY DEF Lacking
  <1>5. Range(<< >>) = {}
    BY DEF Range
  <1>6. left # << >> => a \in Range(left)
    <2> SUFFICES ASSUME left # << >> PROVE a \in Range(left)
      OBVIOUS
    <2>1. Last(left) \in Range(left)
      BY <1>2, EndsHold
    <2>2. p.tabs # << >>
      <3> SUFFICES ASSUME p.tabs = << >> PROVE FALSE
        OBVIOUS
      <3>1. Held(p) = {}
        BY <1>1, PaneHolds
      <3> QED BY <1>2, <2>1, <3>1
    <2>3. p.active \in Held(p)
      BY <2>2 DEF SoundPane
    <2> QED BY <1>2, <1>3, <2>1, <2>3
  <1>7. left = << >> => a = NoTabId
    <2> SUFFICES ASSUME left = << >>, p.active # t PROVE p.active = NoTabId
      OBVIOUS
    <2>1. Held(p) \ {t} = {}
      BY <1>2, <1>3, <1>5
    <2> QED BY <2>1 DEF SoundPane
  <1> HIDE DEF left, a
  <1>8. left = Filtered(p.tabs, Tabs \ {t})
    BY DEF left
  <1>9. /\ SoundPane([tabs |-> left, active |-> a])
        /\ Held([tabs |-> left, active |-> a]) = Held(p) \cap (Tabs \ {t})
    BY <1>6, <1>7, <1>8, RestOfPane, Zenon
  <1> QED BY <1>3, <1>4, <1>9

\* A pane takes the place of another in a column; its tabs are nowhere else.
LEMMA PutHolds ==
  ASSUME NEW panes, Fit(panes), NEW c \in Columns, NEW q, SoundPane(q),
         \A d \in Columns : \A x \in Held(panes[d]) : x \in Held(q) => d = c
  PROVE  /\ Fit([panes EXCEPT ![c] = q])
         /\ HeldIn([panes EXCEPT ![c] = q]) = (HeldIn(panes) \ Held(panes[c])) \cup Held(q)
  <1> DEFINE new == [panes EXCEPT ![c] = q]
  <1>1. new \in Panes /\ new[c] = q /\ \A d \in Columns : d # c => new[d] = panes[d]
    BY DEF Fit, Panes, SoundPane
  <1> HIDE DEF new
  <1>2. \A d \in Columns : SoundPane(new[d])
    BY <1>1 DEF Fit
  <1>3. ASSUME NEW d \in Columns, NEW f \in Columns, NEW x \in Held(new[d]), x \in Held(new[f])
        PROVE  d = f
    <2>1. CASE d = c /\ f # c
      BY <1>1, <1>3, <2>1
    <2>2. CASE d # c /\ f = c
      BY <1>1, <1>3, <2>2
    <2>3. CASE d # c /\ f # c
      BY <1>1, <1>3, <2>3 DEF Fit
    <2> QED BY <2>1, <2>2, <2>3
  <1>4. Fit(new)
    BY <1>1, <1>2, <1>3 DEF Fit
  <1>5. ASSUME NEW x \in HeldIn(new) PROVE x \in (HeldIn(panes) \ Held(panes[c])) \cup Held(q)
    <2>1. PICK d \in Columns : x \in Held(new[d])
      BY <1>5 DEF HeldIn
    <2>2. CASE d = c
      BY <1>1, <2>1, <2>2
    <2>3. CASE d # c
      <3>1. x \in Held(panes[d])
        BY <1>1, <2>1, <2>3
      <3>2. x \notin Held(panes[c])
        BY <2>3, <3>1 DEF Fit
      <3> QED BY <3>1, <3>2 DEF HeldIn
    <2> QED BY <2>2, <2>3
  <1>6. ASSUME NEW x \in (HeldIn(panes) \ Held(panes[c])) \cup Held(q) PROVE x \in HeldIn(new)
    <2>1. CASE x \in Held(q)
      BY <1>1, <2>1 DEF HeldIn
    <2>2. CASE x \notin Held(q)
      <3>1. PICK d \in Columns : x \in Held(panes[d])
        BY <1>6, <2>2 DEF HeldIn
      <3>2. d # c
        BY <1>6, <2>2, <3>1
      <3> QED BY <1>1, <3>1, <3>2 DEF HeldIn
    <2> QED BY <2>1, <2>2
  <1>7. HeldIn(new) = (HeldIn(panes) \ Held(panes[c])) \cup Held(q)
    BY <1>5, <1>6
  <1> QED BY <1>4, <1>7 DEF new

\* The columns with tabs move to the left, and nothing is lost or doubled on the way.
LEMMA PackedHolds ==
  ASSUME NEW panes, Fit(panes)
  PROVE  /\ Fit(Packed(panes)) /\ PackedLeft(Packed(panes))
         /\ HeldIn(Packed(panes)) = HeldIn(panes)
         /\ Occupied(Packed(panes)) = 1..Cardinality(Occupied(panes))
         /\ Cardinality(Occupied(panes)) \in Nat
         /\ Cardinality(Occupied(Packed(panes))) = Cardinality(Occupied(panes))
  <1> DEFINE O == Occupied(panes)
             s == InOrder(O)
             new == Packed(panes)
  <1>1. O \in SUBSET Columns /\ O \in SUBSET Int /\ IsFiniteSet(O)
    <2>1. O \in SUBSET Columns
      BY DEF Occupied
    <2> HIDE DEF O
    <2>2. IsFiniteSet(O)
      BY <2>1, ColumnsAre, FS_Subset, Zenon
    <2> QED BY <2>1, <2>2, ColumnsAre
  <1>2. s \in Seq(O) /\ Len(s) = Cardinality(O) /\ Range(s) = O /\ Ascending(s)
    <2> HIDE DEF O
    <2> QED BY <1>1, InOrderProperties
  <1>3. PICK n \in Nat : n = Cardinality(O)
    BY <1>1, FS_CardinalityType
  <1>4. n <= MaxColumns /\ MaxColumns \in Nat /\ Columns = 1..MaxColumns
    <2>1. MaxColumns \in Nat
      BY EditorAssumption
    <2>2. IsFiniteSet(1..MaxColumns) /\ Cardinality(1..MaxColumns) = MaxColumns
      <3>1. 1 \in Int /\ MaxColumns \in Int /\ (1 > MaxColumns => MaxColumns = 0)
        BY <2>1
      <3>2. /\ IsFiniteSet(1..MaxColumns)
            /\ Cardinality(1..MaxColumns) = IF 1 > MaxColumns THEN 0 ELSE MaxColumns - 1 + 1
        BY <3>1, FS_Interval, Zenon
      <3> QED BY <3>1, <3>2
    <2> HIDE DEF O
    <2>3. O \in SUBSET (1..MaxColumns)
      BY <1>1 DEF Columns
    <2>4. Cardinality(O) <= Cardinality(1..MaxColumns)
      BY <2>2, <2>3, FS_Subset, Zenon
    <2> QED BY <1>3, <2>1, <2>2, <2>4 DEF Columns
  <1>5. DOMAIN s = 1..n /\ Len(s) = n /\ \A i \in 1..n : s[i] \in O
    <2> HIDE DEF O, s
    <2> QED BY <1>2, <1>3
  <1>6. \A c \in Columns : new[c] = IF c <= n THEN panes[s[c]] ELSE EmptyPane
    BY <1>5 DEF Packed
  <1>7. new = [c \in Columns |-> IF c <= n THEN panes[s[c]] ELSE EmptyPane]
    BY <1>5 DEF Packed
  <1> HIDE DEF s, new
  <1>8. \A c \in Columns : c <= n => c \in 1..n /\ s[c] \in Columns /\ panes[s[c]].tabs # << >>
    <2>1. \A c \in Columns : c <= n => c \in 1..n
      BY <1>3, <1>4
    <2> QED BY <1>5, <2>1 DEF Occupied
  <1>9. \A i, j \in 1..n : s[i] = s[j] => i = j
    <2>1. \A i, j \in 1..n : i < j => s[i] < s[j]
      BY <1>2, <1>5 DEF Ascending
    <2>2. \A i \in 1..n : s[i] \in Int
      BY <1>1, <1>5
    <2> HIDE DEF O
    <2> QED BY <1>3, <2>1, <2>2
  <1>10. \A c \in Columns : SoundPane(new[c])
    BY <1>6, <1>8, EmptyPaneHolds DEF Fit
  <1>11. new \in Panes
    <2>1. \A c \in Columns : new[c] \in Pane
      BY <1>10 DEF SoundPane
    <2> QED BY <1>7, <2>1 DEF Panes
  <1>12. ASSUME NEW c \in Columns, NEW x \in Held(new[c])
         PROVE  c \in 1..n /\ s[c] \in Columns /\ x \in Held(panes[s[c]])
    BY <1>6, <1>8, <1>12, EmptyPaneHolds
  <1>13. ASSUME NEW c \in Columns, NEW d \in Columns, NEW x \in Held(new[c]), x \in Held(new[d])
         PROVE  c = d
    <2>1. s[c] = s[d]
      BY <1>12, <1>13 DEF Fit
    <2> QED BY <1>9, <1>12, <1>13, <2>1
  <1>14. Fit(new)
    BY <1>10, <1>11, <1>13 DEF Fit
  <1>15. Occupied(new) = 1..n
    <2>1. ASSUME NEW c \in Columns PROVE new[c].tabs # << >> <=> c <= n
      BY <1>6, <1>8 DEF EmptyPane
    <2>2. 1..n = {c \in Columns : c <= n}
      BY <1>3, <1>4
    <2> QED BY <2>1, <2>2 DEF Occupied
  <1>16. Cardinality(1..n) = n
    <2>1. 1 \in Int /\ n \in Int /\ (1 > n => n = 0)
      BY <1>3
    <2>2. Cardinality(1..n) = IF 1 > n THEN 0 ELSE n - 1 + 1
      BY <2>1, FS_Interval, Zenon
    <2> QED BY <2>1, <2>2
  <1>17. ASSUME NEW x \in HeldIn(new) PROVE x \in HeldIn(panes)
    <2>1. PICK c \in Columns : x \in Held(new[c])
      BY <1>17 DEF HeldIn
    <2> QED BY <1>12, <2>1 DEF HeldIn
  <1>18. ASSUME NEW x \in HeldIn(panes) PROVE x \in HeldIn(new)
    <2>1. PICK d \in Columns : x \in Held(panes[d])
      BY <1>18 DEF HeldIn
    <2>2. panes[d].tabs # << >>
      <3>1. panes[d] \in Pane
        BY DEF Fit, SoundPane
      <3> QED BY <2>1, <3>1, PaneHolds
    <2>3. d \in O
      BY <2>2 DEF Occupied
    <2>4. PICK i \in 1..n : s[i] = d
      BY <1>2, <1>5, <2>3 DEF Range
    <2>5. i \in Columns /\ i <= n
      BY <1>3, <1>4
    <2>6. x \in Held(new[i])
      BY <1>6, <2>1, <2>4, <2>5
    <2> QED BY <2>5, <2>6 DEF HeldIn
  <1>19. HeldIn(new) = HeldIn(panes)
    BY <1>17, <1>18
  <1> QED BY <1>3, <1>14, <1>15, <1>16, <1>19 DEF new, PackedLeft

\* compactEditorColumns: the focus ends on a column that is on display.
LEMMA CompactHolds ==
  ASSUME NEW e, Fit(e.panes), e.focus \in Columns
  PROVE  Trim(Compact(e)) /\ HeldIn(Compact(e).panes) = HeldIn(e.panes)
  <1> DEFINE packed == Packed(e.panes)
             active == e.panes[e.focus].active
             moved  == Holding(packed, active)
             focus  == IF moved # {} THEN First(moved)
                       ELSE IF active # NoTabId \/ packed[e.focus].tabs # << >> THEN e.focus
                       ELSE 1
             n == Cardinality(Occupied(e.panes))
  <1>1. /\ Fit(packed) /\ PackedLeft(packed) /\ HeldIn(packed) = HeldIn(e.panes)
        /\ Occupied(packed) = 1..n /\ n \in Nat /\ Cardinality(Occupied(packed)) = n
    BY PackedHolds
  <1>2. Compact(e) = Columned(packed, focus)
    BY DEF Compact
  <1> HIDE DEF packed
  <1>3. ASSUME NEW c \in Columns, packed[c].tabs # << >> PROVE c \in Occupied(packed)
    BY <1>3 DEF Occupied
  <1>4. ASSUME NEW c \in moved PROVE c \in Columns /\ c \in Occupied(packed)
    <2>1. c \in Columns /\ Held(packed[c]) # {} /\ packed[c] \in Pane
      BY <1>1, <1>4 DEF Holding, Fit, SoundPane
    <2> QED BY <1>3, <2>1, PaneHolds
  <1>5. active # NoTabId => moved # {}
    <2> SUFFICES ASSUME active # NoTabId PROVE moved # {}
      OBVIOUS
    <2>1. active \in Held(e.panes[e.focus])
      BY DEF Fit, SoundPane
    <2>2. active \in HeldIn(packed)
      BY <1>1, <2>1 DEF HeldIn
    <2> QED BY <2>2 DEF HeldIn, Holding
  <1>6. focus \in Columns /\ (focus = 1 \/ focus \in Occupied(packed))
    <2>1. CASE moved # {}
      <3>1. moved \in SUBSET Columns
        BY DEF Holding
      <3> HIDE DEF moved
      <3>2. First(moved) \in moved
        BY <2>1, <3>1, FirstHolds
      <3> QED BY <1>4, <2>1, <3>2
    <2>2. CASE moved = {}
      <3>1. active = NoTabId
        BY <1>5, <2>2
      <3> HIDE DEF active, moved
      <3> QED BY <1>3, <2>2, <3>1, ColumnsAre
    <2> QED BY <2>1, <2>2
  <1> HIDE DEF focus
  <1> DEFINE new == Columned(packed, focus)
  <1>7. /\ new.panes = packed /\ new.focus = focus
        /\ new.layout = IF Cardinality(Occupied(packed)) > 1 THEN "horizontal" ELSE "single"
        /\ new \in EditorStates
    <2>1. packed \in Panes
      BY <1>1 DEF Fit
    <2> QED BY <1>6, <2>1 DEF Columned, EditorStates
  <1> HIDE DEF new
  <1>8. focus \in Shown(new)
    <2> HIDE DEF n
    <2>1. focus = 1 \/ focus <= Cardinality(Occupied(packed))
      BY <1>1, <1>6
    <2> QED BY <1>6, <1>7, <2>1 DEF Shown
  <1>9. LayoutFits(new)
    BY <1>7, <1>8 DEF LayoutFits
  <1>10. Trim(new) /\ HeldIn(new.panes) = HeldIn(e.panes)
    BY <1>1, <1>7, <1>9 DEF Trim
  <1> QED BY <1>2, <1>10 DEF new

\* Tabs that are nowhere yet are put behind those of a pane, which keeps its active tab
\* or takes another of its own.
LEMMA JoinHolds ==
  ASSUME NEW panes, Fit(panes), NEW c \in Columns,
         NEW s \in Seq(Tabs), Once(s), s # << >>,
         \A x \in Range(s) : x \notin HeldIn(panes),
         NEW a, a \in Held(panes[c]) \cup Range(s)
  PROVE  LET new == [panes EXCEPT ![c] = [tabs |-> @.tabs \o s, active |-> a]]
         IN  Fit(new) /\ HeldIn(new) = HeldIn(panes) \cup Range(s)
  <1> DEFINE p == panes[c]
             u == p.tabs \o s
             q == [tabs |-> u, active |-> a]
  <1>1. p.tabs \in Seq(Tabs) /\ Once(p.tabs)
    BY DEF Fit, SoundPane, Pane
  <1>2. Range(p.tabs) \cap Range(s) = {}
    BY DEF HeldIn, Held
  <1>3. u \in Seq(Tabs) /\ Range(u) = Held(p) \cup Range(s) /\ Once(u)
    <2> DEFINE b == p.tabs
    <2>1. b \in Seq(Tabs) /\ Once(b) /\ Range(b) \cap Range(s) = {} /\ u = b \o s
      BY <1>1, <1>2
    <2>2. Held(p) = Range(b)
      BY DEF Held
    <2> HIDE DEF b, p, u
    <2>3. /\ b \o s \in Seq(Tabs) /\ Range(b \o s) = Range(b) \cup Range(s) /\ Once(b \o s)
      BY <2>1, BehindHolds
    <2> QED BY <2>1, <2>2, <2>3
  <1>4. u # << >>
    <2>1. Range(<< >>) = {}
      BY DEF Range
    <2>2. s[1] \in Range(s)
      BY EndsHold
    <2> QED BY <1>3, <2>1, <2>2
  <1>5. a \in Range(u)
    BY <1>3
  <1> HIDE DEF u
  <1>6. SoundPane(q) /\ Held(q) = Range(u)
    BY <1>3, <1>4, <1>5, FilledPane
  <1>7. [panes EXCEPT ![c] = [tabs |-> @.tabs \o s, active |-> a]] = [panes EXCEPT ![c] = q]
    BY DEF u
  <1> HIDE DEF q
  <1>8. ASSUME NEW d \in Columns, NEW x \in Held(panes[d]), x \in Held(q) PROVE d = c
    BY <1>3, <1>6, <1>8 DEF Fit, HeldIn
  <1>9. /\ Fit([panes EXCEPT ![c] = q])
        /\ HeldIn([panes EXCEPT ![c] = q]) = (HeldIn(panes) \ Held(p)) \cup Held(q)
    BY <1>6, <1>8, PutHolds
  <1>10. Held(p) \subseteq HeldIn(panes)
    BY DEF HeldIn
  <1> HIDE DEF p
  <1>11. (HeldIn(panes) \ Held(p)) \cup Held(q) = HeldIn(panes) \cup Range(s)
    BY <1>3, <1>6, <1>10
  <1> QED BY <1>7, <1>9, <1>11

\* The parts of reconcileEditorGroups: a pane without the tabs that are gone, ...
KeptPane(p, tabs) ==
  LET left == Filtered(p.tabs, tabs) IN
  [tabs |-> left, active |-> IF p.active \in Range(left) THEN p.active
                             ELSE IF left # << >> THEN left[1] ELSE NoTabId]

KeptPanes(panes, tabs) == [c \in Columns |-> KeptPane(panes[c], tabs)]

\* ... the files put into a column, ...
FiledPanes(panes, c, files) ==
  IF files = << >> THEN panes
  ELSE [panes EXCEPT ![c] = [tabs |-> @.tabs \o files, active |-> Last(files)]]

\* ... and the others.
JoinedPanes(panes, c, others, new, activate) ==
  IF others = << >> THEN panes
  ELSE [panes EXCEPT ![c] =
          [tabs   |-> @.tabs \o others,
           active |-> IF activate \in new THEN activate
                      ELSE IF @.active # NoTabId THEN @.active ELSE others[1]]]

\* What stays after the tabs that are gone.
LEMMA KeptHolds ==
  ASSUME NEW panes, Fit(panes), NEW tabs
  PROVE  Fit(KeptPanes(panes, tabs)) /\ HeldIn(KeptPanes(panes, tabs)) = HeldIn(panes) \cap tabs
  <1> DEFINE kept == KeptPanes(panes, tabs)
  <1>1. ASSUME NEW c \in Columns
        PROVE  SoundPane(KeptPane(panes[c], tabs))
               /\ Held(KeptPane(panes[c], tabs)) = Held(panes[c]) \cap tabs
    <2> DEFINE p == panes[c]
               left == Filtered(p.tabs, tabs)
               a == IF p.active \in Range(left) THEN p.active
                    ELSE IF left # << >> THEN left[1] ELSE NoTabId
    <2>1. SoundPane(p) /\ p.tabs \in Seq(Tabs)
      BY DEF Fit, SoundPane, Pane
    <2>2. KeptPane(p, tabs) = [tabs |-> left, active |-> a]
      BY DEF KeptPane
    <2> HIDE DEF p
    <2>3. left \in Seq(Tabs)
      BY <2>1, FilteredHolds
    <2>4. left # << >> => a \in Range(left)
      BY <2>3, EndsHold
    <2>5. left = << >> => a = NoTabId
      <3>1. Range(<< >>) = {}
        BY DEF Range
      <3> QED BY <3>1
    <2>6. left = Filtered(p.tabs, tabs)
      OBVIOUS
    <2> HIDE DEF left, a
    <2>7. /\ SoundPane([tabs |-> left, active |-> a])
          /\ Held([tabs |-> left, active |-> a]) = Held(p) \cap tabs
      BY <2>1, <2>4, <2>5, <2>6, RestOfPane, Zenon
    <2> QED BY <2>2, <2>7 DEF p
  <1>2. kept = [c \in Columns |-> KeptPane(panes[c], tabs)]
    BY DEF KeptPanes
  <1>3. \A c \in Columns : SoundPane(kept[c]) /\ Held(kept[c]) = Held(panes[c]) \cap tabs
    BY <1>1, <1>2
  <1>4. kept \in Panes
    BY <1>1, <1>2 DEF Panes, SoundPane
  <1> HIDE DEF kept
  <1>5. Fit(kept)
    BY <1>3, <1>4 DEF Fit
  <1>6. HeldIn(kept) = HeldIn(panes) \cap tabs
    BY <1>3 DEF HeldIn
  <1> QED BY <1>5, <1>6 DEF kept

\* A finite set of tabs as a sequence.
LEMMA TabsInSequence ==
  ASSUME NEW S, S \subseteq Tabs, IsFiniteSet(S)
  PROVE  /\ SetToSeq(S) \in Seq(Tabs) /\ Once(SetToSeq(S))
         /\ Range(SetToSeq(S)) = S
  <1> DEFINE s == SetToSeq(S)
  <1>1. /\ s \in Seq(Tabs)
        /\ \A n \in DOMAIN s : s[n] \in S
        /\ \A m, n \in DOMAIN s : s[m] = s[n] => m = n
    BY SetToSeqHolds, Zenon
  <1>2. Len(s) = Cardinality(S) /\ s \in [1..Cardinality(S) -> S] /\ Cardinality(S) \in Nat
    <2> DEFINE k == Cardinality(S)
    <2>1. k \in Nat /\ ExistsBijection(1..k, S)
      BY FS_CardinalityType
    <2>2. PICK f \in [1..k -> S] : IsInjective(f)
      <3>1. PICK f \in Bijection(1..k, S) : TRUE
        BY <2>1 DEF ExistsBijection
      <3> QED BY <3>1 DEF Bijection, Injection
    <2>3. s \in [1..k -> S]
      BY <2>2 DEF SetToSeq
    <2> HIDE DEF s, k
    <2>4. Len(s) = k
      BY <2>1, <2>3
    <2> QED BY <2>1, <2>3, <2>4 DEF k
  <1> HIDE DEF s
  <1>3. PICK k \in Nat : k = Cardinality(S) /\ s \in [1..k -> S]
    BY <1>2
  <1>4. s \in Injection(1..k, S)
    BY <1>1, <1>3 DEF Injection, IsInjective
  <1>5. IsFiniteSet(1..k) /\ Cardinality(1..k) = k
    <2>1. 1 \in Int /\ k \in Int /\ (1 > k => k = 0)
      BY <1>3
    <2>2. IsFiniteSet(1..k) /\ Cardinality(1..k) = IF 1 > k THEN 0 ELSE k - 1 + 1
      BY <2>1, FS_Interval, Zenon
    <2> QED BY <2>1, <2>2
  <1>6. s \in Surjection(1..k, S)
    BY <1>3, <1>4, <1>5, FS_Injection
  <1>7. Range(s) = S
    BY <1>3, <1>6 DEF Surjection, Range
  <1> QED BY <1>1, <1>7 DEF s, Once

\* reconcileEditorGroups: the panes hold the tabs that are listed.
LEMMA ReconciledHolds ==
  ASSUME NEW e \in EditorStates, Fit(e.panes), NEW tabs, tabs \subseteq Tabs, IsFiniteSet(tabs),
         NEW opened, NEW activate
  PROVE  Trim(Reconciled(e, tabs, opened, activate))
         /\ HeldIn(Reconciled(e, tabs, opened, activate).panes) = tabs
  <1> DEFINE kept   == KeptPanes(e.panes, tabs)
             new    == tabs \ HeldIn(kept)
             files  == SetToSeq(new \cap opened)
             others == SetToSeq(new \ opened)
             target == IF files = << >> THEN e.focus ELSE IF desktop THEN 2 ELSE 1
             filed  == FiledPanes(kept, target, files)
             joined == JoinedPanes(filed, target, others, new, activate)
             made   == [e EXCEPT !.focus = target, !.panes = joined]
  <1>1. Reconciled(e, tabs, opened, activate) = Compact(made)
    BY DEF Reconciled, KeptPanes, KeptPane, FiledPanes, JoinedPanes, HeldIn
  <1>2. Fit(kept) /\ HeldIn(kept) = HeldIn(e.panes) \cap tabs
    BY KeptHolds
  <1> HIDE DEF kept
  <1>3. /\ new \cap opened \subseteq Tabs /\ IsFiniteSet(new \cap opened)
        /\ new \ opened \subseteq Tabs /\ IsFiniteSet(new \ opened)
    <2>1. new \cap opened \in SUBSET tabs /\ new \ opened \in SUBSET tabs
      OBVIOUS
    <2> HIDE DEF new
    <2>2. IsFiniteSet(new \cap opened) /\ IsFiniteSet(new \ opened)
      BY <2>1, FS_Subset, Zenon
    <2> QED BY <2>1, <2>2
  <1>4. files \in Seq(Tabs) /\ Once(files) /\ Range(files) = new \cap opened
    <2> HIDE DEF new
    <2> QED BY <1>3, TabsInSequence, Zenon
  <1>5. others \in Seq(Tabs) /\ Once(others) /\ Range(others) = new \ opened
    <2> HIDE DEF new
    <2> QED BY <1>3, TabsInSequence, Zenon
  <1>6. target \in Columns
    BY ColumnsAre DEF EditorStates
  <1>7. \A x \in new : x \in tabs /\ x \notin HeldIn(kept)
    OBVIOUS
  <1>8. Range(<< >>) = {}
    BY DEF Range
  <1>9. new = (new \cap opened) \cup (new \ opened)
    OBVIOUS
  <1>10. HeldIn(kept) \cup new = tabs
    BY <1>2
  <1> HIDE DEF new, files, others, target
  <1>11. Fit(filed) /\ HeldIn(filed) = HeldIn(kept) \cup (new \cap opened)
         /\ (new \cap opened) \subseteq Held(filed[target])
    <2>1. CASE files = << >>
      BY <1>2, <1>4, <1>8, <2>1 DEF FiledPanes
    <2>2. CASE files # << >>
      <3>1. Last(files) \in Range(files)
        BY <1>4, <2>2, EndsHold
      <3> DEFINE put == [kept EXCEPT ![target] = [tabs |-> @.tabs \o files, active |-> Last(files)]]
      <3>2. Fit(put) /\ HeldIn(put) = HeldIn(kept) \cup Range(files)
        BY <1>2, <1>4, <1>6, <1>7, <2>2, <3>1, JoinHolds
      <3>3. filed = put
        BY <2>2 DEF FiledPanes
      <3>4. Range(files) \subseteq Held(put[target])
        <4>1. put[target].tabs = kept[target].tabs \o files
          BY <1>2, <1>6 DEF Fit, Panes
        <4>2. kept[target].tabs \in Seq(Tabs)
          BY <1>2, <1>6 DEF Fit, SoundPane, Pane
        <4> DEFINE b == kept[target].tabs
        <4>3. b \in Seq(Tabs) /\ Held(put[target]) = Range(b \o files)
          BY <4>1, <4>2 DEF Held
        <4> HIDE DEF b, put
        <4>4. Range(b \o files) = Range(b) \cup Range(files)
          BY <1>4, <4>3, BehindHolds
        <4> QED BY <4>3, <4>4
      <3> HIDE DEF put, filed
      <3> QED BY <1>4, <3>2, <3>3, <3>4
    <2> QED BY <2>1, <2>2
  <1> HIDE DEF filed
  <1>12. Fit(joined) /\ HeldIn(joined) = tabs
    <2>1. CASE others = << >>
      <3>1. joined = filed
        BY <2>1 DEF JoinedPanes
      <3> QED BY <1>5, <1>8, <1>9, <1>10, <1>11, <2>1, <3>1
    <2>2. CASE others # << >>
      <3> DEFINE a == IF activate \in new THEN activate
                      ELSE IF filed[target].active # NoTabId THEN filed[target].active
                      ELSE others[1]
                 put == [filed EXCEPT ![target] = [tabs |-> @.tabs \o others, active |-> a]]
      <3>1. others[1] \in Range(others)
        BY <1>5, <2>2, EndsHold
      <3>2. SoundPane(filed[target])
        BY <1>6, <1>11 DEF Fit
      <3>3. a \in Held(filed[target]) \cup Range(others)
        BY <1>5, <1>9, <1>11, <3>1, <3>2 DEF SoundPane
      <3>4. \A x \in Range(others) : x \notin HeldIn(filed)
        BY <1>5, <1>7, <1>11
      <3>5. joined = put
        BY <1>6, <1>11, <2>2 DEF JoinedPanes, Fit, Panes
      <3> HIDE DEF a, joined
      <3>6. Fit(put) /\ HeldIn(put) = HeldIn(filed) \cup Range(others)
        BY <1>5, <1>6, <1>11, <2>2, <3>3, <3>4, JoinHolds
      <3> HIDE DEF put
      <3> QED BY <1>5, <1>9, <1>10, <1>11, <3>5, <3>6
    <2> QED BY <2>1, <2>2
  <1> HIDE DEF joined
  <1>13. made.panes = joined /\ made.focus = target
    BY DEF EditorStates
  <1> HIDE DEF made
  <1>14. Trim(Compact(made)) /\ HeldIn(Compact(made).panes) = HeldIn(made.panes)
    BY <1>6, <1>12, <1>13, CompactHolds
  <1> QED BY <1>1, <1>12, <1>13, <1>14

(***************************************************************************)
(* What the handlers do to the panes.                                      *)
(***************************************************************************)

\* Packed panes show the columns that hold tabs.
LEMMA OccupiedIsShown ==
  ASSUME NEW e, Trim(e)
  PROVE  /\ \A c \in Columns : e.panes[c].tabs # << >> => c \in Shown(e)
         /\ Cardinality(Occupied(e.panes)) \in Nat
  <1>1. Occupied(e.panes) = 1..Cardinality(Occupied(e.panes))
    BY DEF Trim, PackedLeft
  <1>2. Cardinality(Occupied(e.panes)) \in Nat
    <2>1. Occupied(e.panes) \in SUBSET Columns
      BY DEF Occupied
    <2>2. IsFiniteSet(Occupied(e.panes))
      BY <2>1, ColumnsAre, FS_Subset, Zenon
    <2> QED BY <2>2, FS_CardinalityType, Zenon
  <1>3. ASSUME NEW c \in Columns, e.panes[c].tabs # << >> PROVE c \in Shown(e)
    <2>1. c \in Occupied(e.panes)
      BY <1>3 DEF Occupied
    <2> DEFINE n == Cardinality(Occupied(e.panes))
    <2>2. c \in 1..n
      BY <1>1, <2>1
    <2> HIDE DEF n
    <2>3. c <= n
      BY <2>2
    <2> QED BY <2>3 DEF Shown, n
  <1> QED BY <1>2, <1>3

\* A pane is arranged anew, and a column on display gets the focus.
LEMMA ArrangedHolds ==
  ASSUME NEW e, Trim(e), NEW c \in Columns,
         NEW q, SoundPane(q), Held(q) = Held(e.panes[c]),
         NEW n \in EditorStates, n.panes = [e.panes EXCEPT ![c] = q],
         n.focus \in Shown(e), n.layout = e.layout
  PROVE  Trim(n) /\ HeldIn(n.panes) = HeldIn(e.panes)
  <1>1. Fit(e.panes) /\ e.panes \in Panes
    BY DEF Trim, Fit
  <1>2. ASSUME NEW d \in Columns, NEW x \in Held(e.panes[d]), x \in Held(q) PROVE d = c
    BY <1>1, <1>2 DEF Fit
  <1>3. /\ Fit(n.panes)
        /\ HeldIn(n.panes) = (HeldIn(e.panes) \ Held(e.panes[c])) \cup Held(q)
    BY <1>1, <1>2, PutHolds
  <1>4. HeldIn(n.panes) = HeldIn(e.panes)
    BY <1>3 DEF HeldIn
  <1>5. n.panes[c] = q /\ \A d \in Columns : d # c => n.panes[d] = e.panes[d]
    BY <1>1 DEF Panes
  <1>6. q.tabs = << >> <=> e.panes[c].tabs = << >>
    <2>1. q \in Pane /\ e.panes[c] \in Pane
      BY <1>1 DEF SoundPane, Fit
    <2> QED BY <2>1, PaneHolds
  <1>7. Occupied(n.panes) = Occupied(e.panes)
    BY <1>5, <1>6 DEF Occupied
  <1>8. PackedLeft(n.panes) /\ LayoutFits(n)
    BY <1>7 DEF Trim, PackedLeft, LayoutFits, Shown
  <1> QED BY <1>3, <1>4, <1>8 DEF Trim

\* A tab of a pane becomes its active one.
LEMMA ActivatedHolds ==
  ASSUME NEW e, Trim(e), NEW c \in Columns, NEW t \in Held(e.panes[c])
  PROVE  LET n == [e EXCEPT !.focus = c, !.panes[c].active = t]
         IN  Trim(n) /\ HeldIn(n.panes) = HeldIn(e.panes)
  <1> DEFINE n == [e EXCEPT !.focus = c, !.panes[c].active = t]
             s == e.panes[c].tabs
             q == [tabs |-> s, active |-> t]
  <1>1. e \in EditorStates /\ e.panes \in Panes /\ e.panes[c] \in Pane
        /\ SoundPane(e.panes[c])
    BY DEF Trim, Fit, SoundPane
  <1>2. s \in Seq(Tabs) /\ Once(s) /\ t \in Range(s) /\ s # << >>
    <2>1. s # << >>
      BY <1>1, PaneHolds
    <2> QED BY <1>1, <2>1 DEF SoundPane, Pane, Held
  <1>3. SoundPane(q) /\ Held(q) = Held(e.panes[c])
    <2> HIDE DEF s
    <2>1. SoundPane(q) /\ Held(q) = Range(s)
      BY <1>2, FilledPane
    <2> QED BY <2>1 DEF Held, s
  <1>4. n.panes = [e.panes EXCEPT ![c] = q] /\ n.focus = c /\ n.layout = e.layout
    <2>1. [e.panes[c] EXCEPT !.active = t] = q
      BY <1>1 DEF Pane
    <2>2. n.panes = [e.panes EXCEPT ![c] = [e.panes[c] EXCEPT !.active = t]]
      BY <1>1 DEF EditorStates
    <2> QED BY <1>1, <2>1, <2>2 DEF EditorStates
  <1>5. n \in EditorStates
    <2>1. q \in Pane
      BY <1>3 DEF SoundPane
    <2> HIDE DEF q
    <2>2. [e.panes EXCEPT ![c] = q] \in Panes
      BY <1>1, <2>1 DEF Panes
    <2>3. n = [e EXCEPT !.focus = c, !.panes = [e.panes EXCEPT ![c] = q]]
      BY <1>1, <1>4 DEF EditorStates
    <2> QED BY <1>1, <2>2, <2>3 DEF EditorStates
  <1>6. n.focus \in Shown(e)
    BY <1>2, <1>4, OccupiedIsShown
  <1> HIDE DEF q, n
  <1>7. Trim(n) /\ HeldIn(n.panes) = HeldIn(e.panes)
    BY <1>3, <1>4, <1>5, <1>6, ArrangedHolds
  <1> QED BY <1>7 DEF n

\* alignEditorActiveTabWithSelection.
LEMMA AlignedHolds ==
  ASSUME NEW e, Trim(e), NEW t
  PROVE  Trim(Aligned(e, t)) /\ HeldIn(Aligned(e, t).panes) = HeldIn(e.panes)
  <1>1. CASE t \notin Held(e.panes[e.focus])
    BY <1>1 DEF Aligned
  <1>2. CASE t \in Held(e.panes[e.focus])
    <2>1. e \in EditorStates
      BY DEF Trim
    <2>2. e.focus \in Columns
      BY <2>1 DEF EditorStates
    <2>3. Aligned(e, t) = [e EXCEPT !.focus = e.focus, !.panes[e.focus].active = t]
      BY <1>2, <2>1 DEF Aligned, EditorStates
    <2> DEFINE n == [e EXCEPT !.focus = e.focus, !.panes[e.focus].active = t]
    <2>4. Trim(n) /\ HeldIn(n.panes) = HeldIn(e.panes)
      BY <1>2, <2>2, ActivatedHolds
    <2> HIDE DEF n
    <2>5. Aligned(e, t) = n
      BY <2>3 DEF n
    <2> QED BY <2>4, <2>5
  <1> QED BY <1>1, <1>2

\* moveTabToQuadrant: a tab leaves its column and is put into another.
LEMMA MovedHolds ==
  ASSUME NEW e, Trim(e), NEW t \in Placed(e), NEW c \in Columns, NEW i \in 1..AtEnd(e, c)
  PROVE  Trim(Moved(e, t, c, i)) /\ HeldIn(Moved(e, t, c, i).panes) = HeldIn(e.panes)
  <1> DEFINE from == First(Holding(e.panes, t))
  <1>1. from \in Columns /\ t \in Held(e.panes[from])
    <2>1. Holding(e.panes, t) \in SUBSET Columns /\ Holding(e.panes, t) # {}
      BY DEF Holding, Placed
    <2>2. from \in Holding(e.panes, t)
      BY <2>1, FirstHolds
    <2> QED BY <2>2 DEF Holding
  <1> HIDE DEF from
  <1>2. CASE from = c
    <2>1. Moved(e, t, c, i) = e
      BY <1>2 DEF Moved, from
    <2> QED BY <2>1
  <1>3. CASE from # c
    <2> DEFINE u == InsertAt(e.panes[c].tabs, i, t)
               q == [tabs |-> u, active |-> t]
               left == [e.panes EXCEPT ![from] = Lacking(e.panes[from], t)]
               put == [left EXCEPT ![c] = q]
               made == [e EXCEPT !.focus = c, !.panes[from] = Lacking(@, t),
                                 !.panes[c] = [tabs |-> InsertAt(@.tabs, i, t), active |-> t]]
    <2>1. e \in EditorStates /\ Fit(e.panes) /\ e.panes \in Panes
      BY DEF Trim, Fit
    <2>2. SoundPane(e.panes[c]) /\ SoundPane(e.panes[from])
      BY <1>1, <2>1 DEF Fit
    <2>3. t \in Tabs /\ t \notin Held(e.panes[c])
      <3>1. t \notin Held(e.panes[c])
        BY <1>1, <1>3, <2>1 DEF Fit
      <3>2. Held(e.panes[from]) \subseteq Tabs
        BY <2>2, PaneHolds DEF SoundPane
      <3> QED BY <1>1, <3>1, <3>2
    <2>4. SoundPane(Lacking(e.panes[from], t))
          /\ Held(Lacking(e.panes[from], t)) = Held(e.panes[from]) \ {t}
      BY <2>2, LackingHolds
    <2>5. Fit(left) /\ HeldIn(left) = (HeldIn(e.panes) \ Held(e.panes[from]))
                                        \cup (Held(e.panes[from]) \ {t})
      <3>1. \A d \in Columns : \A x \in Held(e.panes[d]) :
              x \in Held(Lacking(e.panes[from], t)) => d = from
        BY <1>1, <2>1, <2>4 DEF Fit
      <3> DEFINE l == Lacking(e.panes[from], t)
      <3>2. /\ SoundPane(l) /\ Held(l) = Held(e.panes[from]) \ {t}
            /\ left = [e.panes EXCEPT ![from] = l]
        BY <2>4
      <3>3. \A d \in Columns : \A x \in Held(e.panes[d]) : x \in Held(l) => d = from
        BY <3>1
      <3> HIDE DEF l, left
      <3>4. /\ Fit([e.panes EXCEPT ![from] = l])
            /\ HeldIn([e.panes EXCEPT ![from] = l])
                 = (HeldIn(e.panes) \ Held(e.panes[from])) \cup Held(l)
        BY <1>1, <2>1, <3>2, <3>3, PutHolds
      <3> QED BY <3>2, <3>4
    <2>6. left[c] = e.panes[c] /\ \A d \in Columns : Held(left[d]) = Held(e.panes[d]) \ {t}
      <3>1. /\ left[c] = e.panes[c]
            /\ \A d \in Columns : left[d] = IF d = from THEN Lacking(e.panes[from], t)
                                            ELSE e.panes[d]
        BY <1>1, <1>3, <2>1 DEF Panes
      <3>2. \A d \in Columns : d # from => t \notin Held(e.panes[d])
        BY <1>1, <2>1 DEF Fit
      <3> HIDE DEF left
      <3>3. ASSUME NEW d \in Columns PROVE Held(left[d]) = Held(e.panes[d]) \ {t}
        BY <2>4, <3>1, <3>2
      <3> QED BY <3>1, <3>3
    <2> HIDE DEF left
    <2>7. SoundPane(q) /\ Held(q) = Held(e.panes[c]) \cup {t}
      <3> DEFINE s == e.panes[c].tabs
      <3>1. s \in Seq(Tabs) /\ Once(s) /\ Range(s) = Held(e.panes[c]) /\ i \in 1..(Len(s) + 1)
            /\ u = InsertAt(s, i, t)
        BY <2>2 DEF SoundPane, Pane, Held, AtEnd
      <3> HIDE DEF s, u
      <3>2. /\ InsertAt(s, i, t) \in Seq(Tabs) /\ InsertAt(s, i, t) # << >>
            /\ Range(InsertAt(s, i, t)) = Range(s) \cup {t}
            /\ Once(s) => Once(InsertAt(s, i, t))
        BY <2>3, <3>1, InsertAtHolds
      <3>3. u \in Seq(Tabs) /\ u # << >> /\ Once(u) /\ t \in Range(u)
            /\ Range(u) = Held(e.panes[c]) \cup {t}
        BY <3>1, <3>2
      <3> QED BY <3>3, FilledPane
    <2> HIDE DEF u, q
    <2>8. \A d \in Columns : \A x \in Held(left[d]) : x \in Held(q) => d = c
      BY <2>1, <2>6, <2>7 DEF Fit
    <2> HIDE DEF made
    <2>9. Fit(put) /\ HeldIn(put) = (HeldIn(left) \ Held(left[c])) \cup Held(q)
      <3>1. Fit(left)
        BY <2>5
      <3>2. SoundPane(q)
        BY <2>7
      <3> QED BY ONLY <3>1, <3>2, <2>8, c \in Columns, PutHolds
    <2>10. HeldIn(put) = HeldIn(e.panes)
      <3>1. t \in HeldIn(e.panes) /\ Held(e.panes[c]) \subseteq HeldIn(e.panes)
            /\ Held(e.panes[from]) \subseteq HeldIn(e.panes)
        BY <1>1 DEF HeldIn
      <3> HIDE DEF put
      <3> QED BY <1>1, <2>3, <2>5, <2>6, <2>7, <2>9, <3>1
    <2>11. made.panes = put /\ made.focus = c
      BY <1>1, <1>3, <2>1 DEF EditorStates, Panes, left, q, u, made
    <2>12. Moved(e, t, c, i) = Compact(made)
      BY <1>3 DEF Moved, from, made
    <2> HIDE DEF put
    <2>13. Trim(Compact(made)) /\ HeldIn(Compact(made).panes) = HeldIn(made.panes)
      BY <2>9, <2>11, CompactHolds
    <2> QED BY <2>10, <2>11, <2>12, <2>13
  <1> QED BY <1>2, <1>3

\* A tab is closed in its pane.
LEMMA ClosedHolds ==
  ASSUME NEW e, Trim(e), NEW c \in Columns, NEW t \in Held(e.panes[c])
  PROVE  LET n == Compact([e EXCEPT !.panes[c] = Lacking(@, t)])
         IN  Trim(n) /\ HeldIn(n.panes) = HeldIn(e.panes) \ {t}
  <1> DEFINE l == Lacking(e.panes[c], t)
             made == [e EXCEPT !.panes[c] = Lacking(@, t)]
  <1>1. e \in EditorStates /\ Fit(e.panes) /\ SoundPane(e.panes[c])
    BY DEF Trim, Fit
  <1>2. SoundPane(l) /\ Held(l) = Held(e.panes[c]) \ {t}
    BY <1>1, LackingHolds
  <1>3. made.panes = [e.panes EXCEPT ![c] = l] /\ made.focus = e.focus /\ e.focus \in Columns
    BY <1>1 DEF EditorStates
  <1> HIDE DEF l, made
  <1>4. \A d \in Columns : \A x \in Held(e.panes[d]) : x \in Held(l) => d = c
    BY <1>1, <1>2 DEF Fit
  <1>5. /\ Fit(made.panes)
        /\ HeldIn(made.panes) = (HeldIn(e.panes) \ Held(e.panes[c])) \cup Held(l)
    BY <1>1, <1>2, <1>3, <1>4, PutHolds
  <1>6. HeldIn(made.panes) = HeldIn(e.panes) \ {t}
    <2>1. Held(e.panes[c]) \subseteq HeldIn(e.panes)
      BY DEF HeldIn
    <2> QED BY <1>2, <1>5, <2>1
  <1>7. Trim(Compact(made)) /\ HeldIn(Compact(made).panes) = HeldIn(made.panes)
    BY <1>3, <1>5, CompactHolds
  <1> QED BY <1>6, <1>7 DEF made

\* A tab is put elsewhere in its own pane.
LEMMA ReorderedHolds ==
  ASSUME NEW e, Trim(e), NEW c \in Columns, NEW t \in Held(e.panes[c]),
         NEW i \in DOMAIN e.panes[c].tabs
  PROVE  LET n == [e EXCEPT !.panes[c].tabs = InsertAt(Filtered(@, Tabs \ {t}), i, t)]
         IN  Trim(n) /\ HeldIn(n.panes) = HeldIn(e.panes)
  <1> DEFINE n == [e EXCEPT !.panes[c].tabs = InsertAt(Filtered(@, Tabs \ {t}), i, t)]
             s == e.panes[c].tabs
             r == Filtered(s, Tabs \ {t})
             u == InsertAt(r, i, t)
             a == e.panes[c].active
             q == [tabs |-> u, active |-> a]
  <1>1. e \in EditorStates /\ e.panes \in Panes /\ e.panes[c] \in Pane /\ SoundPane(e.panes[c])
    BY DEF Trim, Fit, SoundPane
  <1>2. s \in Seq(Tabs) /\ Once(s) /\ t \in Range(s) /\ Range(s) = Held(e.panes[c])
        /\ i \in 1..Len(s) /\ t \in Tabs
    BY <1>1, PaneHolds DEF SoundPane, Pane, Held
  <1>3. a \in Range(s)
    <2>1. s # << >>
      BY <1>1, PaneHolds
    <2> QED BY <1>1, <1>2, <2>1 DEF SoundPane
  <1>4. n.panes = [e.panes EXCEPT ![c] = q] /\ n.focus = e.focus /\ n.layout = e.layout
    <2>1. [e.panes[c] EXCEPT !.tabs = u] = q
      BY <1>1 DEF Pane
    <2>2. n.panes = [e.panes EXCEPT ![c] = [e.panes[c] EXCEPT !.tabs = u]]
      BY <1>1 DEF EditorStates
    <2> QED BY <1>1, <2>1, <2>2 DEF EditorStates
  <1>5. n = [e EXCEPT !.panes = [e.panes EXCEPT ![c] = q]]
    BY <1>1, <1>4 DEF EditorStates
  <1> HIDE DEF s, a, n
  <1>6. /\ r \in Seq(Tabs) /\ Once(r) /\ Range(r) = Range(s) \cap (Tabs \ {t})
        /\ Len(r) = Len(s) - 1
    BY <1>2, FilteredHolds, OneLess
  <1>7. i \in 1..(Len(r) + 1)
    BY <1>2, <1>6
  <1>8. u \in Seq(Tabs) /\ u # << >> /\ Range(u) = Range(r) \cup {t} /\ Once(u)
    <2> HIDE DEF r
    <2>1. t \notin Range(r)
      BY <1>6
    <2>2. /\ InsertAt(r, i, t) \in Seq(Tabs) /\ InsertAt(r, i, t) # << >>
          /\ Range(InsertAt(r, i, t)) = Range(r) \cup {t}
          /\ Once(r) => Once(InsertAt(r, i, t))
      BY <1>2, <1>6, <1>7, <2>1, InsertAtHolds
    <2> QED BY <1>6, <2>2
  <1> HIDE DEF u, r
  <1>9. Range(u) = Range(s)
    <2>1. Range(s) \subseteq Tabs
      BY <1>2 DEF Range
    <2> QED BY <1>2, <1>6, <1>8, <2>1
  <1>10. SoundPane(q) /\ Held(q) = Held(e.panes[c])
    BY <1>2, <1>3, <1>8, <1>9, FilledPane
  <1> HIDE DEF q
  <1>11. n \in EditorStates
    <2>1. q \in Pane
      BY <1>10 DEF SoundPane
    <2>2. [e.panes EXCEPT ![c] = q] \in Panes
      BY <1>1, <2>1 DEF Panes
    <2> QED BY <1>1, <1>5, <2>2 DEF EditorStates
  <1>12. n.focus \in Shown(e)
    BY <1>4 DEF Trim, LayoutFits
  <1> HIDE DEF n
  <1>13. Trim(n) /\ HeldIn(n.panes) = HeldIn(e.panes)
    BY <1>4, <1>10, <1>11, <1>12, ArrangedHolds
  <1> QED BY <1>13 DEF n

(***************************************************************************)
(* Every step.                                                             *)
(***************************************************************************)

\* What the invariant says after a step.
LEMMA PanesKept ==
  ASSUME Trim(editor'), source' \subseteq Tabs, IsFiniteSet(source'),
         changed' = {} => HeldIn(editor'.panes) = source' \ closing'
  PROVE  EditorInv'
  BY DEF EditorInv, PanesMatchTabs, Placed, HeldIn

\* The hooks: tabs come and go, and another one is selected.
LEMMA HooksKeep ==
  ASSUME EditorInv, NEW t \in Tabs, TabAppears(t) \/ TabVanishes(t) \/ Navigate(t)
  PROVE  EditorInv'
  <1>1. Trim(editor) /\ source \subseteq Tabs /\ IsFiniteSet(source)
    BY DEF EditorInv
  <1>2. editor' = editor /\ changed' # {}
    <2>1. ASSUME Navigate(t) PROVE editor' = editor /\ changed' # {}
      BY <2>1 DEF Navigate, SelectTab
    <2>2. ASSUME TabAppears(t) PROVE editor' = editor /\ changed' # {}
      BY <2>2 DEF TabAppears
    <2>3. ASSUME TabVanishes(t) PROVE editor' = editor /\ changed' # {}
      BY <2>3 DEF TabVanishes
    <2> QED BY <2>1, <2>2, <2>3
  <1>3. source' \in {source, source \cup {t}, source \ {t}}
    BY DEF TabAppears, TabVanishes, Navigate
  <1>4. source' \subseteq Tabs /\ IsFiniteSet(source')
    <2>1. IsFiniteSet(source \cup {t}) /\ IsFiniteSet(source \ {t})
      BY <1>1, FS_AddElement, FS_RemoveElement, Zenon
    <2> QED BY <1>1, <1>3, <2>1
  <1> QED BY <1>1, <1>2, <1>4, PanesKept

\* A file opened from the explorer has its place before the hooks list it.
LEMMA OpenFileKeeps ==
  ASSUME EditorInv, NEW f \in Files, OpenFile(f)
  PROVE  EditorInv'
  <1>1. Trim(editor) /\ source \subseteq Tabs /\ IsFiniteSet(source)
    BY DEF EditorInv
  <1>2. source' = source \cup {f} /\ changed' # {}
    BY DEF OpenFile
  <1>3. source' \subseteq Tabs /\ IsFiniteSet(source')
    <2>1. IsFiniteSet(source \cup {f})
      BY <1>1, FS_AddElement, Zenon
    <2> QED BY <1>1, <1>2, <2>1 DEF Tabs
  <1>4. \/ editor' = editor
        \/ editor' = Reconciled(editor, source', {f}, NoTabId)
    BY <1>2 DEF OpenFile
  <1>5. Trim(editor')
    <2>1. editor \in EditorStates /\ Fit(editor.panes)
      BY <1>1 DEF Trim
    <2>2. Trim(Reconciled(editor, source', {f}, NoTabId))
      BY <1>3, <2>1, ReconciledHolds
    <2> QED BY <1>1, <1>4, <2>2
  <1> QED BY <1>2, <1>3, <1>5, PanesKept

\* The effects bring the panes up to the tabs that are listed.
LEMMA EffectsKeep ==
  ASSUME EditorInv, Effects
  PROVE  EditorInv'
  <1> DEFINE opened == explorer \cap source
             fitted == Reconciled(editor, source, opened, selection)
  <1>1. Trim(editor) /\ source \subseteq Tabs /\ IsFiniteSet(source)
    BY DEF EditorInv
  <1>2. Trim(fitted) /\ HeldIn(fitted.panes) = source
    <2>1. editor \in EditorStates /\ Fit(editor.panes)
      BY <1>1 DEF Trim
    <2> QED BY <1>1, <2>1, ReconciledHolds
  <1>3. /\ editor' \in {fitted, Aligned(fitted, selection)}
        /\ closing' = closing \ Placed(editor')
        /\ source' = source
    BY DEF Effects
  <1> HIDE DEF fitted
  <1>4. Trim(Aligned(fitted, selection))
        /\ HeldIn(Aligned(fitted, selection).panes) = HeldIn(fitted.panes)
    BY <1>2, AlignedHolds
  <1>5. Trim(editor') /\ HeldIn(editor'.panes) = source'
    BY <1>2, <1>3, <1>4
  <1>6. source' \ closing' = source'
    <2>1. Placed(editor') = source'
      BY <1>5 DEF Placed, HeldIn
    <2> QED BY <1>3, <2>1
  <1> QED BY <1>1, <1>3, <1>5, <1>6, PanesKept

\* A step that leaves the lists alone, and the tabs in the panes.
LEMMA ArrangingKeeps ==
  ASSUME EditorInv, Trim(editor'), HeldIn(editor'.panes) = HeldIn(editor.panes),
         source' = source, closing' = closing, changed' = {} => changed = {}
  PROVE  EditorInv'
  <1>1. source \subseteq Tabs /\ IsFiniteSet(source)
    BY DEF EditorInv
  <1>2. changed = {} => HeldIn(editor.panes) = source \ closing
    BY DEF EditorInv, PanesMatchTabs, Placed, HeldIn
  <1> QED BY <1>1, <1>2, PanesKept

\* A column is clicked or chosen with the keyboard.
LEMMA FocusKeeps ==
  ASSUME EditorInv, NEW c \in Columns, FocusColumn(c)
  PROVE  EditorInv'
  <1>1. Trim(editor) /\ editor \in EditorStates
    BY DEF EditorInv, Trim
  <1>2. /\ c \in Shown(editor) /\ editor' = [editor EXCEPT !.focus = c]
        /\ source' = source /\ closing' = closing /\ (changed' = {} => changed = {})
    BY DEF FocusColumn, SelectTab
  <1>3. editor' \in EditorStates /\ editor'.panes = editor.panes /\ editor'.focus = c
        /\ editor'.layout = editor.layout
    BY <1>1, <1>2 DEF EditorStates
  <1>4. Trim(editor')
    BY <1>1, <1>2, <1>3 DEF Trim, LayoutFits, Shown
  <1> QED BY <1>2, <1>3, <1>4, ArrangingKeeps

\* A tab is picked in its pane.
LEMMA PickKeeps ==
  ASSUME EditorInv, NEW c \in Columns, NEW t \in Tabs, PickTab(c, t)
  PROVE  EditorInv'
  <1>1. Trim(editor)
    BY DEF EditorInv
  <1>2. /\ t \in Held(editor.panes[c])
        /\ editor' = [editor EXCEPT !.focus = c, !.panes[c].active = t]
        /\ source' = source /\ closing' = closing /\ (changed' = {} => changed = {})
    BY DEF PickTab, SelectTab
  <1>3. Trim(editor') /\ HeldIn(editor'.panes) = HeldIn(editor.panes)
    BY <1>1, <1>2, ActivatedHolds
  <1> QED BY <1>2, <1>3, ArrangingKeeps

\* A tab is put elsewhere in its own strip.
LEMMA ReorderKeeps ==
  ASSUME EditorInv, NEW c \in Columns, NEW t \in Tabs, NEW i, ReorderTab(c, t, i)
  PROVE  EditorInv'
  <1>1. Trim(editor)
    BY DEF EditorInv
  <1>2. /\ t \in Held(editor.panes[c]) /\ i \in DOMAIN editor.panes[c].tabs
        /\ editor' = [editor EXCEPT !.panes[c].tabs = InsertAt(Filtered(@, Tabs \ {t}), i, t)]
        /\ source' = source /\ closing' = closing /\ changed' = changed
    BY DEF ReorderTab
  <1>3. Trim(editor') /\ HeldIn(editor'.panes) = HeldIn(editor.panes)
    BY <1>1, <1>2, ReorderedHolds
  <1> QED BY <1>2, <1>3, ArrangingKeeps

\* A tab is closed: a file at once, a chat or terminal when that is agreed to.
LEMMA CloseKeeps ==
  ASSUME EditorInv, NEW c \in Columns, NEW t \in Tabs, CloseTab(c, t)
  PROVE  EditorInv'
  <1>1. /\ Trim(editor) /\ source \subseteq Tabs /\ IsFiniteSet(source)
        /\ changed = {} => HeldIn(editor.panes) = source \ closing
    BY DEF EditorInv, PanesMatchTabs, Placed, HeldIn
  <1>2. /\ t \in Held(editor.panes[c])
        /\ editor' = Compact([editor EXCEPT !.panes[c] = Lacking(@, t)])
        /\ source' = source \ (Files \cap {t})
        /\ closing' = closing \cup (Chats \cap {t})
        /\ changed' = {} => changed = {} /\ t \notin Files
    BY DEF CloseTab
  <1>3. Trim(editor') /\ HeldIn(editor'.panes) = HeldIn(editor.panes) \ {t}
    BY <1>1, <1>2, ClosedHolds
  <1>4. source' \subseteq Tabs /\ IsFiniteSet(source')
    <2>1. source' \in SUBSET source
      BY <1>2
    <2>2. IsFiniteSet(source')
      BY <1>1, <2>1, FS_Subset, Zenon
    <2> QED BY <1>1, <2>1, <2>2
  <1>5. ASSUME changed' = {} PROVE HeldIn(editor'.panes) = source' \ closing'
    <2>1. t \in Chats /\ t \notin Files /\ HeldIn(editor.panes) = source \ closing
      BY <1>1, <1>2, <1>5 DEF Tabs
    <2>2. source' = source /\ closing' = closing \cup {t}
      BY <1>2, <2>1
    <2> QED BY <1>3, <2>1, <2>2
  <1> QED BY <1>3, <1>4, <1>5, PanesKept

\* The end of a strip is one of its places.
LEMMA EndIsPlace ==
  ASSUME NEW e, Trim(e), NEW c \in Columns
  PROVE  AtEnd(e, c) \in 1..AtEnd(e, c)
  <1>1. e.panes[c].tabs \in Seq(Tabs)
    BY DEF Trim, Fit, SoundPane, Pane
  <1>2. Len(e.panes[c].tabs) \in Nat
    BY <1>1
  <1> QED BY <1>2 DEF AtEnd

\* A tab is dropped on the strip of another column.
LEMMA DropKeeps ==
  ASSUME EditorInv, NEW c \in Columns, NEW t \in Tabs, NEW i, DropTab(t, c, i)
  PROVE  EditorInv'
  <1>1. Trim(editor)
    BY DEF EditorInv
  <1>2. /\ t \in Placed(editor) /\ i \in 1..AtEnd(editor, c)
        /\ editor' = Moved(editor, t, c, i)
        /\ source' = source /\ closing' = closing /\ (changed' = {} => changed = {})
    BY DEF DropTab, SelectTab
  <1>3. Trim(editor') /\ HeldIn(editor'.panes) = HeldIn(editor.panes)
    BY <1>1, <1>2, MovedHolds
  <1> QED BY <1>2, <1>3, ArrangingKeeps

\* The column a pane is split into is one.
LEMMA RightIsColumn ==
  ASSUME NEW e, NEW c \in Columns
  PROVE  RightOf(e, c) \in Columns
  <1> DEFINE empty == {d \in Columns : d > c /\ e.panes[d].tabs = << >>}
  <1>1. CASE empty # {}
    <2>1. empty \in SUBSET Columns
      OBVIOUS
    <2>2. RightOf(e, c) = First(empty)
      BY <1>1 DEF RightOf
    <2> HIDE DEF empty
    <2>3. First(empty) \in empty
      BY <1>1, <2>1, FirstHolds
    <2> QED BY <2>1, <2>2, <2>3
  <1>2. CASE empty = {}
    <2>1. RightOf(e, c) = IF c < MaxColumns THEN c + 1 ELSE c
      BY <1>2 DEF RightOf
    <2>2. MaxColumns \in Nat /\ c \in 1..MaxColumns
      BY EditorAssumption DEF Columns
    <2>3. c < MaxColumns => c + 1 \in 1..MaxColumns
      BY <2>2
    <2> QED BY <2>1, <2>3 DEF Columns
  <1> QED BY <1>1, <1>2

\* A tab is dropped on the edge of a pane.
LEMMA DropOnEdgeKeeps ==
  ASSUME EditorInv, NEW c \in Columns, NEW t \in Tabs, NEW edge \in {"left", "right"},
         DropOnEdge(t, c, edge)
  PROVE  EditorInv'
  <1> DEFINE to == IF edge = "left" THEN c - 1 ELSE RightOf(editor, c)
  <1>1. Trim(editor)
    BY DEF EditorInv
  <1>2. /\ t \in Placed(editor) /\ (edge = "left" => c > 1)
        /\ editor' = Moved(editor, t, to, AtEnd(editor, to))
        /\ source' = source /\ closing' = closing /\ (changed' = {} => changed = {})
    BY DEF DropOnEdge, SelectTab
  <1>3. to \in Columns
    <2>1. CASE edge = "left"
      <3>1. MaxColumns \in Nat /\ c \in 1..MaxColumns /\ c > 1
        BY <1>2, <2>1, EditorAssumption DEF Columns
      <3>2. c - 1 \in 1..MaxColumns
        BY <3>1
      <3> QED BY <2>1, <3>2 DEF Columns
    <2>2. CASE edge # "left"
      BY <2>2, RightIsColumn
    <2> QED BY <2>1, <2>2
  <1> HIDE DEF to
  <1>4. AtEnd(editor, to) \in 1..AtEnd(editor, to)
    BY <1>1, <1>3, EndIsPlace
  <1>5. Trim(editor') /\ HeldIn(editor'.panes) = HeldIn(editor.panes)
    BY <1>1, <1>2, <1>3, <1>4, MovedHolds
  <1> QED BY <1>2, <1>5, ArrangingKeeps

\* A pane is split with its active tab.
LEMMA SplitKeeps ==
  ASSUME EditorInv, SplitActiveTab
  PROVE  EditorInv'
  <1> DEFINE t  == editor.panes[editor.focus].active
             to == RightOf(editor, editor.focus)
  <1>1. Trim(editor) /\ editor.focus \in Columns
    BY DEF EditorInv, Trim, EditorStates
  <1>2. /\ t # NoTabId /\ editor' = Moved(editor, t, to, AtEnd(editor, to))
        /\ source' = source /\ closing' = closing /\ changed' = changed
    BY DEF SplitActiveTab
  <1>3. t \in Placed(editor)
    <2>1. SoundPane(editor.panes[editor.focus])
      BY <1>1 DEF Trim, Fit
    <2>2. t \in Held(editor.panes[editor.focus])
      BY <1>2, <2>1 DEF SoundPane
    <2> QED BY <1>1, <2>2 DEF Placed
  <1>4. to \in Columns
    BY <1>1, RightIsColumn
  <1> HIDE DEF t, to
  <1>5. AtEnd(editor, to) \in 1..AtEnd(editor, to)
    BY <1>1, <1>4, EndIsPlace
  <1>6. Trim(editor') /\ HeldIn(editor'.panes) = HeldIn(editor.panes)
    BY <1>1, <1>2, <1>3, <1>4, <1>5, MovedHolds
  <1> QED BY <1>2, <1>6, ArrangingKeeps

\* The invariant holds at first, ...
LEMMA EditorInvInit == EditorInit => EditorInv
  <1> SUFFICES ASSUME EditorInit PROVE EditorInv
    OBVIOUS
  <1>1. /\ editor.panes = [c \in Columns |-> EmptyPane] /\ editor.focus = 1
        /\ editor.layout = "single" /\ source = {} /\ closing = {}
        /\ editor = [panes |-> [c \in Columns |-> EmptyPane], focus |-> 1, layout |-> "single"]
    BY DEF EditorInit
  <1>2. \A c \in Columns : /\ editor.panes[c] = EmptyPane
                           /\ SoundPane(editor.panes[c]) /\ Held(editor.panes[c]) = {}
                           /\ editor.panes[c].tabs = << >>
    BY <1>1, EmptyPaneHolds DEF EmptyPane
  <1>3. editor.panes \in Panes
    BY <1>1, <1>2 DEF Panes, SoundPane
  <1>4. Fit(editor.panes)
    BY <1>2, <1>3 DEF Fit
  <1>5. editor \in EditorStates
    BY <1>1, <1>3, ColumnsAre DEF EditorStates
  <1>6. Occupied(editor.panes) = {} /\ Cardinality({}) = 0
    BY <1>2, FS_EmptySet DEF Occupied
  <1>7. PackedLeft(editor.panes)
    BY <1>6 DEF PackedLeft
  <1>8. LayoutFits(editor)
    <2>1. editor.focus \in Shown(editor)
      BY <1>1, ColumnsAre DEF Shown
    <2>2. Cardinality(Occupied(editor.panes)) = 0
      BY <1>6
    <2>3. ~(Cardinality(Occupied(editor.panes)) > 1)
      BY <2>2
    <2>4. editor.layout # "horizontal"
      BY <1>1
    <2> QED BY <2>1, <2>3, <2>4 DEF LayoutFits
  <1>9. PanesMatchTabs
    BY <1>1, <1>2 DEF PanesMatchTabs, Placed
  <1> QED BY <1>1, <1>4, <1>5, <1>7, <1>8, <1>9, FS_EmptySet DEF EditorInv, Trim

\* ... is kept by every step, ...
LEMMA EditorInvStep == EditorInv /\ [EditorNext]_editorVars => EditorInv'
  <1> SUFFICES ASSUME EditorInv, [EditorNext]_editorVars PROVE EditorInv'
    OBVIOUS
  <1>1. CASE Effects
    BY <1>1, EffectsKeep
  <1>2. CASE SplitActiveTab
    BY <1>2, SplitKeeps
  <1>3. CASE Resize
    <2>1. /\ editor' = editor /\ source' = source /\ closing' = closing /\ changed' # {}
      BY <1>3 DEF Resize
    <2>2. Trim(editor')
      BY <2>1 DEF EditorInv
    <2> QED BY <2>1, <2>2, ArrangingKeeps
  <1>4. ASSUME NEW t \in Tabs, TabAppears(t) \/ TabVanishes(t) \/ Navigate(t) PROVE EditorInv'
    BY <1>4, HooksKeep
  <1>5. ASSUME NEW f \in Files, OpenFile(f) PROVE EditorInv'
    BY <1>5, OpenFileKeeps
  <1>6. ASSUME NEW c \in Columns, FocusColumn(c) PROVE EditorInv'
    BY <1>6, FocusKeeps
  <1>7. ASSUME NEW t \in Tabs, NEW c \in Columns, PickTab(c, t) \/ CloseTab(c, t)
        PROVE  EditorInv'
    BY <1>7, PickKeeps, CloseKeeps
  <1>8. ASSUME NEW t \in Tabs, NEW c \in Columns, NEW edge \in {"left", "right"},
               DropOnEdge(t, c, edge)
        PROVE  EditorInv'
    BY <1>8, DropOnEdgeKeeps
  <1>9. ASSUME NEW t \in Tabs, NEW c \in Columns, NEW i, DropTab(t, c, i) \/ ReorderTab(c, t, i)
        PROVE  EditorInv'
    BY <1>9, DropKeeps, ReorderKeeps
  <1>10. CASE UNCHANGED editorVars
    <2>1. editor' = editor /\ source' = source /\ closing' = closing /\ changed' = changed
      BY <1>10 DEF editorVars
    <2>2. Trim(editor')
      BY <2>1 DEF EditorInv
    <2> QED BY <2>1, <2>2, ArrangingKeeps
  <1> QED BY <1>1, <1>2, <1>3, <1>4, <1>5, <1>6, <1>7, <1>8, <1>9, <1>10 DEF EditorNext

\* ... and says that the panes are sound.
LEMMA EditorInvImplies == EditorInv => PanesAreSound
  <1> SUFFICES ASSUME EditorInv PROVE PanesAreSound
    OBVIOUS
  <1>1. Fit(editor.panes) /\ PackedLeft(editor.panes) /\ LayoutFits(editor) /\ PanesMatchTabs
    BY DEF EditorInv, Trim
  <1>2. OnePlaceEach(editor.panes)
    <2> SUFFICES ASSUME NEW c \in Columns, NEW d \in Columns,
                        NEW i \in DOMAIN editor.panes[c].tabs,
                        NEW k \in DOMAIN editor.panes[d].tabs,
                        editor.panes[c].tabs[i] = editor.panes[d].tabs[k]
                 PROVE  c = d /\ i = k
      BY DEF OnePlaceEach
    <2>1. editor.panes[c].tabs[i] \in Held(editor.panes[c])
          /\ editor.panes[c].tabs[i] \in Held(editor.panes[d])
      BY DEF Held, Range
    <2>2. c = d
      BY <1>1, <2>1 DEF Fit
    <2>3. Once(editor.panes[c].tabs)
      BY <1>1 DEF Fit, SoundPane
    <2> QED BY <2>2, <2>3 DEF Once
  <1>3. ActiveIsOwn(editor.panes)
    <2> SUFFICES ASSUME NEW c \in Columns
                 PROVE  IF editor.panes[c].tabs = << >> THEN editor.panes[c].active = NoTabId
                        ELSE editor.panes[c].active \in Held(editor.panes[c])
      BY DEF ActiveIsOwn
    <2>1. SoundPane(editor.panes[c]) /\ editor.panes[c] \in Pane
      BY <1>1 DEF Fit, SoundPane
    <2>2. editor.panes[c].tabs = << >> => Held(editor.panes[c]) = {}
      BY <2>1, PaneHolds
    <2> QED BY <2>1, <2>2 DEF SoundPane
  <1> QED BY <1>1, <1>2, <1>3 DEF PanesAreSound

(***************************************************************************)
(* Whatever is opened, closed, dragged and taken away elsewhere, in any    *)
(* order and before or after the effects run: a tab is in one pane, once,  *)
(* the panes are packed to the left, the active tab of a pane is one of    *)
(* its own, the focus is on display, and once the effects have run the     *)
(* panes hold what is listed (editorColumns.ts:47, editorGroups.ts:116).   *)
(***************************************************************************)
THEOREM PanesStaySound == EditorSpec => []PanesAreSound
  <1> QED BY EditorInvInit, EditorInvStep, EditorInvImplies, PTL DEF EditorSpec

-----------------------------------------------------------------------------
(***************************************************************************)
(* The statuses.  FoldLeft is defined by a function on sets of places;     *)
(* what it comes to is read off place by place first, and from that what   *)
(* each walk says of the log as a whole is shown from one place to the     *)
(* next.                                                                   *)
(***************************************************************************)

\* A set of natural numbers that is not empty has a least one.
LEMMA LeastNatural ==
  ASSUME NEW T \in SUBSET Nat, T # {}
  PROVE  \E m \in T : \A k \in T : m <= k
  <1>1. \E m \in T : \A k \in T : ~(<<k, m>> \in OpToRel(<, Nat))
    BY NatLessThanWellFounded, WFMin
  <1>2. PICK m \in T : \A k \in T : ~(<<k, m>> \in OpToRel(<, Nat))
    BY <1>1
  <1>3. \A k \in T : ~(k < m)
    BY <1>2 DEF OpToRel
  <1> QED BY <1>3

\* What holds at the beginning and from each place to the next holds at every place.
LEMMA Throughout ==
  ASSUME NEW n \in Nat, NEW T, 0 \in T, \A k \in 1..n : k - 1 \in T => k \in T
  PROVE  \A k \in 0..n : k \in T
  <1> DEFINE U == (0..n) \ T
  <1> SUFFICES ASSUME U # {} PROVE FALSE
    OBVIOUS
  <1>1. U \in SUBSET Nat
    OBVIOUS
  <1> HIDE DEF U
  <1>2. PICK m \in U : \A k \in U : m <= k
    BY <1>1, LeastNatural
  <1>3. m \in 1..n /\ m - 1 \in 0..n
    BY <1>2 DEF U
  <1>4. m - 1 \in T
    BY <1>2, <1>3 DEF U
  <1> QED BY <1>2, <1>3, <1>4 DEF U

\* A greatest element is the maximum.
LEMMA MaxIs ==
  ASSUME NEW S \in SUBSET Int, NEW m \in S, \A y \in S : m >= y
  PROVE  Max(S) = m
  <1>1. \E x \in S : \A y \in S : x >= y
    OBVIOUS
  <1>2. Max(S) \in S /\ \A y \in S : Max(S) >= y
    BY <1>1, Zenon DEF Max
  <1>3. Max(S) >= m /\ m >= Max(S)
    BY <1>2
  <1>4. Max(S) \in Int /\ m \in Int
    BY <1>2
  <1> HIDE DEF Max
  <1> QED BY <1>3, <1>4

\* f is what FoldLeft computes along 1..n, for every set of places.
Folds(f, n, base, along) ==
  /\ f[{}] = base
  /\ \A S \in SUBSET (1..n) : S # {} => f[S] = along[<<f[S \ {Max(S)}], Max(S)>>]

\* The function by which FoldLeft is defined exists.
LEMMA FoldExists ==
  ASSUME NEW n \in Nat, NEW A, NEW base \in A, NEW along \in [A \X (1..n) -> A]
  PROVE  \E f \in [SUBSET (1..n) -> A] : Folds(f, n, base, along)
  <1> DEFINE Solved(k) == \E f \in [SUBSET (1..k) -> A] : Folds(f, k, base, along)
             T == {k \in 0..n : Solved(k)}
  <1>1. 0 \in T
    <2> DEFINE f == [S \in SUBSET (1..0) |-> base]
    <2>1. \A S \in SUBSET (1..0) : S = {}
      OBVIOUS
    <2>2. f \in [SUBSET (1..0) -> A] /\ Folds(f, 0, base, along)
      BY <2>1 DEF Folds
    <2> HIDE DEF f
    <2>3. Solved(0)
      BY <2>2
    <2> HIDE DEF Solved
    <2> QED BY <2>3
  <1>2. ASSUME NEW k \in 1..n, k - 1 \in T PROVE k \in T
    <2>1. PICK g \in [SUBSET (1..(k - 1)) -> A] : Folds(g, k - 1, base, along)
      BY <1>2
    <2> DEFINE f == [S \in SUBSET (1..k) |->
                       IF k \in S THEN along[<<g[S \ {k}], k>>] ELSE g[S]]
    <2>2. \A S \in SUBSET (1..k) : /\ k \in S => Max(S) = k /\ S \ {k} \in SUBSET (1..(k - 1))
                                   /\ k \notin S => S \in SUBSET (1..(k - 1))
      <3>1. ASSUME NEW S \in SUBSET (1..k), k \in S PROVE Max(S) = k
        <4>1. S \in SUBSET Int /\ \A y \in S : k >= y
          BY <3>1
        <4> QED BY <3>1, <4>1, MaxIs
      <3> QED BY <3>1
    <2>3. \A S \in SUBSET (1..(k - 1)) : S \in SUBSET (1..k) /\ k \notin S
      OBVIOUS
    <2>4. f \in [SUBSET (1..k) -> A]
      BY <2>2
    <2>5. \A S \in SUBSET (1..(k - 1)) : f[S] = g[S]
      BY <2>3
    <2>6. f[{}] = base
      BY <2>1 DEF Folds
    <2>7. ASSUME NEW S \in SUBSET (1..k), S # {}
          PROVE f[S] = along[<<f[S \ {Max(S)}], Max(S)>>]
      <3>1. CASE k \in S
        <4>1. f[S \ {k}] = g[S \ {k}]
          BY <2>2, <2>5, <3>1
        <4> QED BY <2>2, <3>1, <4>1
      <3>2. CASE k \notin S
        <4>1. S \in SUBSET (1..(k - 1)) /\ f[S] = g[S]
          BY <2>2, <3>2
        <4>2. g[S] = along[<<g[S \ {Max(S)}], Max(S)>>]
          BY <2>1, <2>7, <4>1 DEF Folds
        <4>3. f[S \ {Max(S)}] = g[S \ {Max(S)}]
          BY <2>5, <4>1
        <4> QED BY <4>1, <4>2, <4>3
      <3> QED BY <3>1, <3>2
    <2> HIDE DEF f
    <2>8. Folds(f, k, base, along)
      BY <2>6, <2>7 DEF Folds
    <2>9. Solved(k)
      BY <2>4, <2>8
    <2> HIDE DEF Solved
    <2> QED BY <2>9
  <1> HIDE DEF T
  <1>3. n \in T
    BY <1>1, <1>2, Throughout
  <1> QED BY <1>3 DEF T

\* The same of an f whose values are not known to be in A.
FoldsWithin(f, n, A, base, along) ==
  /\ f[{}] = base
  /\ \A S \in SUBSET (1..n) : S # {} /\ f[S \ {Max(S)}] \in A =>
        f[S] = along[<<f[S \ {Max(S)}], Max(S)>>]

\* w holds what a walk along 1..n has come to, place by place.
Walks(w, n, base, along) ==
  w[0] = base /\ \A k \in 1..n : w[k] = along[<<w[k - 1], k>>]

\* Such a walk comes to r.
Walkable(r, n, A, base, along) == \E w \in [0..n -> A] : Walks(w, n, base, along) /\ w[n] = r

\* What is folded along a sequence can be read off place by place.
LEMMA FoldWalks ==
  ASSUME NEW n \in Nat, NEW A, NEW base \in A, NEW along \in [A \X (1..n) -> A],
         NEW f, FoldsWithin(f, n, A, base, along)
  PROVE  Walkable(f[1..n], n, A, base, along)
  <1>1. f[1..0] = base
    <2>1. 1..0 = {}
      OBVIOUS
    <2> QED BY <2>1 DEF FoldsWithin
  <1>2. ASSUME NEW k \in 1..n, f[1..(k - 1)] \in A
        PROVE  f[1..k] = along[<<f[1..(k - 1)], k>>]
    <2>1. 1..k \in SUBSET (1..n) /\ 1..k # {} /\ (1..k) \ {k} = 1..(k - 1)
      OBVIOUS
    <2>2. Max(1..k) = k
      <3>1. 1..k \in SUBSET Int /\ k \in 1..k /\ \A y \in 1..k : k >= y
        OBVIOUS
      <3> QED BY <3>1, MaxIs
    <2>3. f[(1..k) \ {k}] \in A
      BY <1>2, <2>1
    <2> QED BY <2>1, <2>2, <2>3 DEF FoldsWithin
  <1>3. \A k \in 0..n : f[1..k] \in A
    <2> DEFINE T == {k \in 0..n : f[1..k] \in A}
    <2>1. 0 \in T
      BY <1>1
    <2>2. ASSUME NEW k \in 1..n, k - 1 \in T PROVE k \in T
      <3>1. f[1..(k - 1)] \in A
        BY <2>2
      <3>2. along[<<f[1..(k - 1)], k>>] \in A
        BY <3>1
      <3> QED BY <1>2, <3>1, <3>2
    <2> HIDE DEF T
    <2>3. \A k \in 0..n : k \in T
      BY <2>1, <2>2, Throughout
    <2> QED BY <2>3 DEF T
  <1> DEFINE w == [k \in 0..n |-> f[1..k]]
  <1>4. w \in [0..n -> A] /\ \A k \in 0..n : w[k] = f[1..k]
    BY <1>3
  <1> HIDE DEF w
  <1>5. \A k \in 1..n : k - 1 \in 0..n /\ k \in 0..n
    OBVIOUS
  <1>6. \A k \in 1..n : w[k] = along[<<w[k - 1], k>>]
    BY <1>2, <1>3, <1>4, <1>5
  <1>7. w[0] = base /\ w[n] = f[1..n]
    BY <1>1, <1>4
  <1> QED BY <1>4, <1>6, <1>7 DEF Walks, Walkable

\* Places have a maximum.
LEMMA MaxBelow ==
  ASSUME NEW n \in Nat, NEW S \in SUBSET (1..n), S # {}
  PROVE  Max(S) \in S
  <1>1. S \in SUBSET Int /\ IsFiniteSet(S)
    <2>1. IsFiniteSet(1..n)
      BY 1 \in Int, n \in Int, FS_Interval
    <2>2. IsFiniteSet(S)
      BY <2>1, FS_Subset
    <2> QED BY <2>2
  <1>2. PICK m \in S : \A k \in S : k <= m
    BY <1>1, GreatestExists
  <1>3. \A k \in S : m >= k
    BY <1>1, <1>2
  <1> QED BY <1>1, <1>3, MaxIs

\* The walk over requests.
LEMMA PendingWalk ==
  ASSUME NEW evs \in Seq(Events)
  PROVE  \E w \in [0..Len(evs) -> SUBSET Gates] :
           /\ w[0] = {} /\ w[Len(evs)] = PendingRequests(evs)
           /\ \A k \in 1..Len(evs) :
                w[k] = IF evs[k].kind = "asked" THEN w[k - 1] \cup {evs[k].of}
                ELSE IF evs[k].kind = "settled" THEN w[k - 1] \ {evs[k].of}
                ELSE IF evs[k].kind = "terminal" THEN {} ELSE w[k - 1]
  <1> DEFINE n == Len(evs)
             A == SUBSET Gates
             Step(pending, e) ==
                IF e.kind = "asked" THEN pending \cup {e.of}
                ELSE IF e.kind = "settled" THEN pending \ {e.of}
                ELSE IF e.kind = "terminal" THEN {} ELSE pending
             Fold(f) == f = [s \in SUBSET DOMAIN evs |->
                               IF s = {} THEN {} ELSE Step(f[s \ {Max(s)}], evs[Max(s)])]
             fold == CHOOSE f : Fold(f)
  <1>1. n \in Nat /\ DOMAIN evs = 1..n /\ \A k \in 1..n : evs[k] \in Events
    OBVIOUS
  <1>2. PICK along \in [A \X (1..n) -> A] :
           \A a \in A, k \in 1..n : along[<<a, k>>] = Step(a, evs[k])
    <2> DEFINE s == [x \in A \X (1..n) |-> Step(x[1], evs[x[2]])]
    <2>1. \A k \in 1..n : evs[k].kind = "asked" => evs[k].of \in Gates
      BY <1>1 DEF Events, Plain, PlanEvents, Decisions
    <2>2. s \in [A \X (1..n) -> A]
      BY <2>1
    <2>3. \A a \in A, k \in 1..n : s[<<a, k>>] = Step(a, evs[k])
      OBVIOUS
    <2> QED BY <2>2, <2>3
  <1>3. PendingRequests(evs) = fold[1..n]
    <2>1. PendingRequests(evs) = fold[DOMAIN evs]
      BY DEF PendingRequests, FoldLeft, MapThenFoldSet
    <2> QED BY <1>1, <2>1
  <1>4. {} \in A
    OBVIOUS
  <1> HIDE DEF A, n
  <1>5. PICK g \in [SUBSET (1..n) -> A] : Folds(g, n, {}, along)
    BY <1>1, <1>2, <1>4, FoldExists
  <1>6. \A S \in SUBSET (1..n) : S # {} => Max(S) \in 1..n /\ S \ {Max(S)} \in SUBSET (1..n)
    BY <1>1, MaxBelow
  <1> HIDE DEF Step
  <1>7. Fold(g)
    <2>1. \A S \in SUBSET (1..n) : S # {} =>
             along[<<g[S \ {Max(S)}], Max(S)>>] = Step(g[S \ {Max(S)}], evs[Max(S)])
      BY <1>2, <1>5, <1>6 DEF Folds
    <2> QED BY <1>1, <1>5, <2>1 DEF Folds
  <1> HIDE DEF fold
  <1>8. Fold(fold)
    BY <1>7, Zenon DEF fold
  <1>9. FoldsWithin(fold, n, A, {}, along)
    <2>1. fold[{}] = {}
      BY <1>1, <1>8
    <2>2. ASSUME NEW S \in SUBSET (1..n), S # {}, fold[S \ {Max(S)}] \in A
          PROVE  fold[S] = along[<<fold[S \ {Max(S)}], Max(S)>>]
      <3>1. fold[S] = Step(fold[S \ {Max(S)}], evs[Max(S)])
        BY <1>1, <1>8, <2>2
      <3> QED BY <1>2, <1>6, <2>2, <3>1
    <2> QED BY <2>1, <2>2 DEF FoldsWithin
  <1>10. PICK w \in [0..n -> A] : Walks(w, n, {}, along) /\ w[n] = fold[1..n]
    <2>1. Walkable(fold[1..n], n, A, {}, along)
      BY <1>1, <1>2, <1>4, <1>9, FoldWalks
    <2> QED BY <2>1 DEF Walkable
  <1>11. \A k \in 1..n : w[k] = Step(w[k - 1], evs[k])
    <2>1. \A k \in 1..n : w[k - 1] \in A
      <3>1. \A k \in 1..n : k - 1 \in 0..n
        BY <1>1
      <3> QED BY <3>1
    <2> QED BY <1>2, <1>10, <2>1 DEF Walks
  <1> QED BY <1>3, <1>10, <1>11 DEF n, A, Step, Walks

\* The walk over running tools and other activity.
LEMMA RunningWalk ==
  ASSUME NEW evs \in Seq(Events), NEW kinds
  PROVE  \E w \in [0..Len(evs) -> [tools : SUBSET Tools, saw : BOOLEAN]] :
           /\ w[0] = Idle
           /\ Running(evs, kinds) <=> w[Len(evs)].tools # {} \/ w[Len(evs)].saw
           /\ \A k \in 1..Len(evs) :
                w[k] = IF evs[k].kind = "terminal" THEN Idle
                       ELSE IF evs[k].kind = "started"
                            THEN [tools |-> w[k - 1].tools \cup {evs[k].of}, saw |-> TRUE]
                       ELSE IF evs[k].kind = "finished"
                            THEN [tools |-> w[k - 1].tools \ {evs[k].of}, saw |-> TRUE]
                       ELSE [w[k - 1] EXCEPT !.saw = @ \/ evs[k].kind \in kinds]
  <1> DEFINE n == Len(evs)
             A == [tools : SUBSET Tools, saw : BOOLEAN]
             Step(acc, e) ==
                IF e.kind = "terminal" THEN Idle
                ELSE IF e.kind = "started"
                     THEN [tools |-> acc.tools \cup {e.of}, saw |-> TRUE]
                ELSE IF e.kind = "finished"
                     THEN [tools |-> acc.tools \ {e.of}, saw |-> TRUE]
                ELSE [acc EXCEPT !.saw = @ \/ e.kind \in kinds]
             Fold(f) == f = [s \in SUBSET DOMAIN evs |->
                               IF s = {} THEN Idle ELSE Step(f[s \ {Max(s)}], evs[Max(s)])]
             fold == CHOOSE f : Fold(f)
  <1>1. n \in Nat /\ DOMAIN evs = 1..n /\ \A k \in 1..n : evs[k] \in Events
    OBVIOUS
  <1>2. PICK along \in [A \X (1..n) -> A] :
           \A a \in A, k \in 1..n : along[<<a, k>>] = Step(a, evs[k])
    <2> DEFINE s == [x \in A \X (1..n) |-> Step(x[1], evs[x[2]])]
    <2>1. \A k \in 1..n : evs[k].kind = "started" => evs[k].of \in Tools
      BY <1>1 DEF Events, Plain, PlanEvents, Decisions
    <2>2. \A a \in A, k \in 1..n : Step(a, evs[k]) \in A
      <3> SUFFICES ASSUME NEW a \in A, NEW k \in 1..n PROVE Step(a, evs[k]) \in A
        OBVIOUS
      <3>1. ASSUME NEW b \in BOOLEAN PROVE [a EXCEPT !.saw = b] \in A
        OBVIOUS
      <3>2. [a EXCEPT !.saw = @ \/ evs[k].kind \in kinds] \in A
        <4>1. (a.saw \/ evs[k].kind \in kinds) \in BOOLEAN
          OBVIOUS
        <4> HIDE DEF A
        <4> QED BY <3>1, <4>1, Zenon
      <3> QED BY <2>1, <3>2 DEF Idle
    <2> HIDE DEF A, Step
    <2>3. s \in [A \X (1..n) -> A]
      BY <2>2
    <2>4. \A a \in A, k \in 1..n : s[<<a, k>>] = Step(a, evs[k])
      OBVIOUS
    <2> QED BY <2>3, <2>4
  <1>3. Running(evs, kinds) <=> fold[1..n].tools # {} \/ fold[1..n].saw
    <2>1. Running(evs, kinds) <=> fold[DOMAIN evs].tools # {} \/ fold[DOMAIN evs].saw
      BY DEF Running, FoldLeft, MapThenFoldSet
    <2> QED BY <1>1, <2>1
  <1>4. Idle \in A
    BY DEF Idle
  <1> HIDE DEF A, n
  <1>5. PICK g \in [SUBSET (1..n) -> A] : Folds(g, n, Idle, along)
    BY <1>1, <1>2, <1>4, FoldExists
  <1>6. \A S \in SUBSET (1..n) : S # {} => Max(S) \in 1..n /\ S \ {Max(S)} \in SUBSET (1..n)
    BY <1>1, MaxBelow
  <1> HIDE DEF Step
  <1>7. Fold(g)
    <2>1. \A S \in SUBSET (1..n) : S # {} =>
             along[<<g[S \ {Max(S)}], Max(S)>>] = Step(g[S \ {Max(S)}], evs[Max(S)])
      BY <1>2, <1>5, <1>6 DEF Folds
    <2> QED BY <1>1, <1>5, <2>1 DEF Folds
  <1> HIDE DEF fold
  <1>8. Fold(fold)
    BY <1>7, Zenon DEF fold
  <1>9. FoldsWithin(fold, n, A, Idle, along)
    <2>1. fold[{}] = Idle
      BY <1>1, <1>8
    <2>2. ASSUME NEW S \in SUBSET (1..n), S # {}, fold[S \ {Max(S)}] \in A
          PROVE  fold[S] = along[<<fold[S \ {Max(S)}], Max(S)>>]
      <3>1. fold[S] = Step(fold[S \ {Max(S)}], evs[Max(S)])
        BY <1>1, <1>8, <2>2
      <3> QED BY <1>2, <1>6, <2>2, <3>1
    <2> QED BY <2>1, <2>2 DEF FoldsWithin
  <1>10. PICK w \in [0..n -> A] : Walks(w, n, Idle, along) /\ w[n] = fold[1..n]
    <2>1. Walkable(fold[1..n], n, A, Idle, along)
      BY <1>1, <1>2, <1>4, <1>9, FoldWalks
    <2> QED BY <2>1 DEF Walkable
  <1>11. \A k \in 1..n : w[k] = Step(w[k - 1], evs[k])
    <2>1. \A k \in 1..n : w[k - 1] \in A
      <3>1. \A k \in 1..n : k - 1 \in 0..n
        BY <1>1
      <3> QED BY <3>1
    <2> QED BY <1>2, <1>10, <2>1 DEF Walks
  <1>12. w[0] = Idle /\ (Running(evs, kinds) <=> w[n].tools # {} \/ w[n].saw)
    BY <1>3, <1>10 DEF Walks
  <1> QED BY <1>11, <1>12 DEF n, A, Step

PlanStates == [at : Nat, status : {"none", "pending", "approved", "sending"}]

\* A plan exists no earlier than it was announced.
LEMMA PlanIndexIs ==
  ASSUME NEW evs \in Seq(Events), NEW i \in 1..Len(evs)
  PROVE  /\ PlanIndex(evs, i) \in 0..Len(evs)
         /\ PlanIndex(evs, i) > 0 => PlanIndex(evs, i) >= i /\ evs[i].kind \in {"plan", "sketch"}
  <1> DEFINE writes == {j \in DOMAIN evs : j > i /\ evs[j].kind = "written"}
  <1>1. writes # {} => Min(writes) \in writes
    <2>1. writes \in SUBSET Nat
      OBVIOUS
    <2> HIDE DEF writes
    <2> QED BY <2>1, LeastNatural DEF Min
  <1>2. Min(writes) \in writes => Min(writes) \in 1..Len(evs) /\ Min(writes) > i
    OBVIOUS
  <1> HIDE DEF writes
  <1> QED BY <1>1, <1>2 DEF PlanIndex, writes

\* The walk over plans and the decisions on them.
LEMMA PlanWalk ==
  ASSUME NEW evs \in Seq(Events)
  PROVE  \E w \in [0..Len(evs) -> PlanStates] :
           /\ w[0] = NoPlan /\ w[Len(evs)] = LatestPlan(evs)
           /\ \A k \in 1..Len(evs) :
                w[k] = IF PlanIndex(evs, k) > 0
                          THEN [at |-> PlanIndex(evs, k), status |-> "pending"]
                       ELSE IF w[k - 1] = NoPlan \/ evs[k].kind = "dismissed"
                          THEN IF evs[k].kind = "dismissed" THEN NoPlan ELSE w[k - 1]
                       ELSE IF evs[k].kind = "approved"
                          THEN [w[k - 1] EXCEPT !.status = "approved"]
                       ELSE IF evs[k].kind = "revision"
                          THEN [w[k - 1] EXCEPT !.status = "sending"]
                       ELSE w[k - 1]
  <1> DEFINE n == Len(evs)
             A == PlanStates
             Step(plan, i) ==
                IF PlanIndex(evs, i) > 0 THEN [at |-> PlanIndex(evs, i), status |-> "pending"]
                ELSE IF plan = NoPlan \/ evs[i].kind = "dismissed"
                     THEN IF evs[i].kind = "dismissed" THEN NoPlan ELSE plan
                ELSE IF evs[i].kind = "approved" THEN [plan EXCEPT !.status = "approved"]
                ELSE IF evs[i].kind = "revision" THEN [plan EXCEPT !.status = "sending"]
                ELSE plan
             places == [i \in DOMAIN evs |-> i]
             Fold(f) == f = [s \in SUBSET DOMAIN places |->
                               IF s = {} THEN NoPlan
                               ELSE Step(f[s \ {Max(s)}], places[Max(s)])]
             fold == CHOOSE f : Fold(f)
  <1>1. n \in Nat /\ DOMAIN evs = 1..n /\ DOMAIN places = 1..n /\ \A k \in 1..n : places[k] = k
    OBVIOUS
  <1>2. PICK along \in [A \X (1..n) -> A] :
           \A a \in A, k \in 1..n : along[<<a, k>>] = Step(a, k)
    <2> DEFINE s == [x \in A \X (1..n) |-> Step(x[1], x[2])]
    <2>1. \A k \in 1..n : PlanIndex(evs, k) \in Nat
      BY PlanIndexIs
    <2>2. \A a \in A, k \in 1..n : Step(a, k) \in A
      BY <2>1, Z3 DEF PlanStates, NoPlan
    <2> HIDE DEF A, Step
    <2>3. s \in [A \X (1..n) -> A]
      BY <2>2
    <2>4. \A a \in A, k \in 1..n : s[<<a, k>>] = Step(a, k)
      OBVIOUS
    <2> QED BY <2>3, <2>4
  <1>3. LatestPlan(evs) = fold[1..n]
    <2>1. LatestPlan(evs) = fold[DOMAIN places]
      BY DEF LatestPlan, FoldLeftDomain, FoldLeft, MapThenFoldSet
    <2> QED BY <1>1, <2>1
  <1>4. NoPlan \in A
    BY DEF NoPlan, PlanStates
  <1> HIDE DEF A, n, places
  <1>5. PICK g \in [SUBSET (1..n) -> A] : Folds(g, n, NoPlan, along)
    BY <1>1, <1>2, <1>4, FoldExists
  <1>6. \A S \in SUBSET (1..n) : S # {} => Max(S) \in 1..n /\ S \ {Max(S)} \in SUBSET (1..n)
    BY <1>1, MaxBelow
  <1> HIDE DEF Step
  <1>7. Fold(g)
    <2>1. \A S \in SUBSET (1..n) : S # {} =>
             along[<<g[S \ {Max(S)}], Max(S)>>] = Step(g[S \ {Max(S)}], places[Max(S)])
      BY <1>1, <1>2, <1>5, <1>6 DEF Folds
    <2> QED BY <1>1, <1>5, <2>1 DEF Folds
  <1> HIDE DEF fold
  <1>8. Fold(fold)
    BY <1>7, Zenon DEF fold
  <1>9. FoldsWithin(fold, n, A, NoPlan, along)
    <2>1. fold[{}] = NoPlan
      BY <1>1, <1>8
    <2>2. ASSUME NEW S \in SUBSET (1..n), S # {}, fold[S \ {Max(S)}] \in A
          PROVE  fold[S] = along[<<fold[S \ {Max(S)}], Max(S)>>]
      <3>1. fold[S] = Step(fold[S \ {Max(S)}], places[Max(S)])
        BY <1>1, <1>8, <2>2
      <3>2. Max(S) \in 1..n /\ places[Max(S)] = Max(S)
        BY <1>1, <1>6, <2>2
      <3>3. fold[S] = Step(fold[S \ {Max(S)}], Max(S))
        BY <3>1, <3>2
      <3> QED BY <1>2, <2>2, <3>2, <3>3
    <2> QED BY <2>1, <2>2 DEF FoldsWithin
  <1>10. PICK w \in [0..n -> A] : Walks(w, n, NoPlan, along) /\ w[n] = fold[1..n]
    <2>1. Walkable(fold[1..n], n, A, NoPlan, along)
      BY <1>1, <1>2, <1>4, <1>9, FoldWalks
    <2> QED BY <2>1 DEF Walkable
  <1>11. \A k \in 1..n : w[k] = Step(w[k - 1], k)
    <2>1. \A k \in 1..n : w[k - 1] \in A
      <3>1. \A k \in 1..n : k - 1 \in 0..n
        BY <1>1
      <3> QED BY <3>1
    <2> QED BY <1>2, <1>10, <2>1 DEF Walks
  <1>12. w[0] = NoPlan /\ w[n] = LatestPlan(evs)
    BY <1>3, <1>10 DEF Walks
  <1> QED BY <1>11, <1>12 DEF n, A, Step

BadgeStates(n) == [kind : DOMAIN Priority, thread : 0..n]

\* The walk over the threads of a worktree.
LEMMA BadgeWalk ==
  ASSUME badges \in Seq(Summaries)
  PROVE  \E w \in [0..Len(badges) -> BadgeStates(Len(badges))] :
           /\ w[0] = [kind |-> "idle", thread |-> 0] /\ w[Len(badges)] = WorktreeBadge
           /\ \A k \in 1..Len(badges) :
                w[k] = IF /\ badges[k].tabOpen \/ badges[k].active
                          /\ Preferred(badges[k], w[k - 1])
                       THEN [kind |-> badges[k].status, thread |-> k] ELSE w[k - 1]
  <1> DEFINE n == Len(badges)
             A == BadgeStates(n)
             none == [kind |-> "idle", thread |-> 0]
             Step(best, i) ==
                LET s == badges[i] IN
                IF (s.tabOpen \/ s.active) /\ Preferred(s, best)
                THEN [kind |-> s.status, thread |-> i] ELSE best
             places == [i \in DOMAIN badges |-> i]
             Fold(f) == f = [s \in SUBSET DOMAIN places |->
                               IF s = {} THEN none
                               ELSE Step(f[s \ {Max(s)}], places[Max(s)])]
             fold == CHOOSE f : Fold(f)
  <1>1. n \in Nat /\ DOMAIN badges = 1..n /\ DOMAIN places = 1..n /\ \A k \in 1..n : places[k] = k
    OBVIOUS
  <1>2. PICK along \in [A \X (1..n) -> A] :
           \A a \in A, k \in 1..n : along[<<a, k>>] = Step(a, k)
    <2> DEFINE s == [x \in A \X (1..n) |-> Step(x[1], x[2])]
    <2>1. \A k \in 1..n : badges[k].status \in DOMAIN Priority
      <3>1. \A k \in 1..n : badges[k] \in Summaries
        BY <1>1
      <3> QED BY <3>1 DEF Summaries
    <2>2. \A a \in A, k \in 1..n : Step(a, k) \in A
      BY <2>1 DEF BadgeStates
    <2> HIDE DEF A, Step
    <2>3. s \in [A \X (1..n) -> A]
      BY <2>2
    <2>4. \A a \in A, k \in 1..n : s[<<a, k>>] = Step(a, k)
      OBVIOUS
    <2> QED BY <2>3, <2>4
  <1>3. WorktreeBadge = fold[1..n]
    <2>1. WorktreeBadge = fold[DOMAIN places]
      BY DEF WorktreeBadge, FoldLeftDomain, FoldLeft, MapThenFoldSet
    <2> QED BY <1>1, <2>1
  <1>4. none \in A
    BY DEF BadgeStates, Priority
  <1> HIDE DEF A, n, places, none
  <1>5. PICK g \in [SUBSET (1..n) -> A] : Folds(g, n, none, along)
    BY <1>1, <1>2, <1>4, FoldExists
  <1>6. \A S \in SUBSET (1..n) : S # {} => Max(S) \in 1..n /\ S \ {Max(S)} \in SUBSET (1..n)
    BY <1>1, MaxBelow
  <1> HIDE DEF Step
  <1>7. Fold(g)
    <2>1. \A S \in SUBSET (1..n) : S # {} =>
             along[<<g[S \ {Max(S)}], Max(S)>>] = Step(g[S \ {Max(S)}], places[Max(S)])
      BY <1>1, <1>2, <1>5, <1>6 DEF Folds
    <2> QED BY <1>1, <1>5, <2>1 DEF Folds
  <1> HIDE DEF fold
  <1>8. Fold(fold)
    BY <1>7, Zenon DEF fold
  <1>9. FoldsWithin(fold, n, A, none, along)
    <2>1. fold[{}] = none
      BY <1>1, <1>8
    <2>2. ASSUME NEW S \in SUBSET (1..n), S # {}, fold[S \ {Max(S)}] \in A
          PROVE  fold[S] = along[<<fold[S \ {Max(S)}], Max(S)>>]
      <3>1. fold[S] = Step(fold[S \ {Max(S)}], places[Max(S)])
        BY <1>1, <1>8, <2>2
      <3>2. Max(S) \in 1..n /\ places[Max(S)] = Max(S)
        BY <1>1, <1>6, <2>2
      <3>3. fold[S] = Step(fold[S \ {Max(S)}], Max(S))
        BY <3>1, <3>2
      <3> QED BY <1>2, <2>2, <3>2, <3>3
    <2> QED BY <2>1, <2>2 DEF FoldsWithin
  <1>10. PICK w \in [0..n -> A] : Walks(w, n, none, along) /\ w[n] = fold[1..n]
    <2>1. Walkable(fold[1..n], n, A, none, along)
      BY <1>1, <1>2, <1>4, <1>9, FoldWalks
    <2> QED BY <2>1 DEF Walkable
  <1>11. \A k \in 1..n : w[k] = Step(w[k - 1], k)
    <2>1. \A k \in 1..n : w[k - 1] \in A
      <3>1. \A k \in 1..n : k - 1 \in 0..n
        BY <1>1
      <3> QED BY <3>1
    <2> QED BY <1>2, <1>10, <2>1 DEF Walks
  <1>12. w[0] = none /\ w[n] = WorktreeBadge
    BY <1>3, <1>10 DEF Walks
  <1> QED BY <1>11, <1>12 DEF n, A, Step, none

(***************************************************************************)
(* What the walks come to, said of the log as a whole.                     *)
(***************************************************************************)

\* Places up to k after i, and how they grow.
LEMMA PlacesGrow ==
  ASSUME NEW n \in Nat, NEW k \in 1..n
  PROVE  /\ 1..k = (1..(k - 1)) \cup {k} /\ k - 1 \in 0..n
         /\ \A i \in 1..(k - 1) : (i + 1)..k = ((i + 1)..(k - 1)) \cup {k}
         /\ (k + 1)..k = {}
  OBVIOUS

\* An event is a record whose second field goes with its first.
LEMMA EventIs ==
  ASSUME NEW e \in Events
  PROVE  /\ e.kind = "asked" => e.of \in Gates
         /\ \A g : e = Event("settled", g) <=> e.kind = "settled" /\ e.of = g
  BY DEF Events, Event, Plain, PlanEvents, Decisions

\* The walk over requests ends with those that are neither settled nor of an earlier turn.
LEMMA PendingMeans ==
  ASSUME NEW evs \in Seq(Events)
  PROVE  PendingRequests(evs) # {} <=> IsWaiting(evs)
  <1> DEFINE n == Len(evs)
             Open(i, g, k) ==
                /\ evs[i].kind = "asked" /\ evs[i].of = g
                /\ \A j \in (i + 1)..k : evs[j] # Event("settled", g) /\ evs[j].kind # "terminal"
             Asks(g, k) == \E i \in 1..k : Open(i, g, k)
  <1>1. n \in Nat /\ DOMAIN evs = 1..n /\ \A k \in 1..n : evs[k] \in Events
    OBVIOUS
  <1> HIDE DEF n
  <1>2. PICK w \in [0..n -> SUBSET Gates] :
           /\ w[0] = {} /\ w[n] = PendingRequests(evs)
           /\ \A k \in 1..n :
                w[k] = IF evs[k].kind = "asked" THEN w[k - 1] \cup {evs[k].of}
                ELSE IF evs[k].kind = "settled" THEN w[k - 1] \ {evs[k].of}
                ELSE IF evs[k].kind = "terminal" THEN {} ELSE w[k - 1]
    BY PendingWalk DEF n
  <1> DEFINE Right(k) == \A g : g \in w[k] <=> Asks(g, k)
             T == {k \in 0..n : Right(k)}
  <1>3. 0 \in T
    BY <1>1, <1>2
  <1>4. ASSUME NEW k \in 1..n, k - 1 \in T PROVE k \in T
    <2> SUFFICES ASSUME NEW g PROVE g \in w[k] <=> Asks(g, k)
      <3>1. Right(k) => k \in T
        BY <1>1
      <3> QED BY <3>1
    <2>1. g \in w[k - 1] <=> Asks(g, k - 1)
      BY <1>4
    <2>2. Asks(g, k) <=> \/ evs[k].kind = "asked" /\ evs[k].of = g
                         \/ /\ Asks(g, k - 1)
                            /\ evs[k] # Event("settled", g) /\ evs[k].kind # "terminal"
      <3>1. Open(k, g, k) <=> evs[k].kind = "asked" /\ evs[k].of = g
        BY <1>1, PlacesGrow
      <3>2. \A i \in 1..(k - 1) :
               Open(i, g, k) <=> /\ Open(i, g, k - 1)
                                 /\ evs[k] # Event("settled", g) /\ evs[k].kind # "terminal"
        BY <1>1, PlacesGrow
      <3> HIDE DEF Open
      <3> QED BY <1>1, <3>1, <3>2, PlacesGrow
    <2> HIDE DEF Asks
    <2>3. evs[k] = Event("settled", g) <=> evs[k].kind = "settled" /\ evs[k].of = g
      BY <1>1, EventIs
    <2> QED BY <1>2, <2>1, <2>2, <2>3
  <1> HIDE DEF T
  <1>5. n \in T
    BY <1>1, <1>3, <1>4, Throughout
  <1>6. \A g : g \in PendingRequests(evs) <=> Asks(g, n)
    BY <1>2, <1>5 DEF T
  <1>7. \A i \in 1..n : (\A j \in (i + 1)..n : evs[j].kind # "terminal") <=> i \in SinceTurn(evs)
    BY <1>1 DEF SinceTurn
  <1>8. ASSUME NEW g, Asks(g, n) PROVE IsWaiting(evs)
    <2>1. PICK i \in 1..n : Open(i, g, n)
      BY <1>8
    <2>2. i \in SinceTurn(evs)
      BY <1>7, <2>1
    <2>3. \A j \in 1..n : j > i => j \in (i + 1)..n
      BY <1>1
    <2> QED BY <1>1, <2>1, <2>2, <2>3 DEF IsWaiting
  <1>9. ASSUME IsWaiting(evs) PROVE \E g : Asks(g, n)
    <2>1. PICK i \in SinceTurn(evs) :
             /\ evs[i].kind = "asked"
             /\ \A j \in DOMAIN evs : j > i => evs[j] # Event("settled", evs[i].of)
      BY <1>9 DEF IsWaiting
    <2>2. i \in 1..n
      BY <1>1 DEF SinceTurn
    <2>3. \A j \in (i + 1)..n : j \in 1..n /\ j > i
      BY <1>1, <2>2
    <2>4. Open(i, evs[i].of, n)
      BY <1>1, <1>7, <2>1, <2>2, <2>3
    <2> HIDE DEF Open
    <2> QED BY <2>2, <2>4
  <1> HIDE DEF Asks
  <1> QED BY <1>6, <1>8, <1>9

\* The walk over tools and activity ends with what the turn at hand has done.
LEMMA RunningMeans ==
  ASSUME NEW evs \in Seq(Events), NEW kinds, "terminal" \notin kinds
  PROVE  Running(evs, kinds) <=> IsBusy(evs, kinds)
  <1> DEFINE n == Len(evs)
             acts == kinds \cup {"started", "finished"}
             Acted(i, k) == evs[i].kind \in acts
                            /\ \A j \in (i + 1)..k : evs[j].kind # "terminal"
             Busy(k) == \E i \in 1..k : Acted(i, k)
  <1>1. n \in Nat /\ DOMAIN evs = 1..n /\ "terminal" \notin acts
    OBVIOUS
  <1>2. PICK w \in [0..n -> [tools : SUBSET Tools, saw : BOOLEAN]] :
           /\ w[0] = Idle
           /\ Running(evs, kinds) <=> w[n].tools # {} \/ w[n].saw
           /\ \A k \in 1..n :
                w[k] = IF evs[k].kind = "terminal" THEN Idle
                       ELSE IF evs[k].kind = "started"
                            THEN [tools |-> w[k - 1].tools \cup {evs[k].of}, saw |-> TRUE]
                       ELSE IF evs[k].kind = "finished"
                            THEN [tools |-> w[k - 1].tools \ {evs[k].of}, saw |-> TRUE]
                       ELSE [w[k - 1] EXCEPT !.saw = @ \/ evs[k].kind \in kinds]
    BY RunningWalk
  <1> HIDE DEF n
  <1> DEFINE Right(k) == /\ w[k].tools # {} => w[k].saw
                         /\ w[k].saw <=> Busy(k)
             T == {k \in 0..n : Right(k)}
  <1>3. 0 \in T
    BY <1>1, <1>2 DEF Idle
  <1>4. ASSUME NEW k \in 1..n, k - 1 \in T PROVE k \in T
    <2> SUFFICES Right(k)
      BY <1>1
    <2>1. /\ w[k - 1].tools # {} => w[k - 1].saw
          /\ w[k - 1].saw <=> Busy(k - 1)
      BY <1>4
    <2>2. Busy(k) <=> evs[k].kind \in acts \/ (Busy(k - 1) /\ evs[k].kind # "terminal")
      <3>1. Acted(k, k) <=> evs[k].kind \in acts
        BY <1>1, PlacesGrow
      <3>2. \A i \in 1..(k - 1) : Acted(i, k) <=> Acted(i, k - 1) /\ evs[k].kind # "terminal"
        BY <1>1, PlacesGrow
      <3> HIDE DEF Acted
      <3> QED BY <1>1, <3>1, <3>2, PlacesGrow
    <2> HIDE DEF Busy
    <2>3. w[k - 1] \in [tools : SUBSET Tools, saw : BOOLEAN]
      BY <1>1, <1>2, PlacesGrow
    <2>4. CASE evs[k].kind = "terminal"
      <3>1. w[k] = [tools |-> {}, saw |-> FALSE]
        BY <1>2, <2>4 DEF Idle
      <3>2. w[k].tools = {} /\ ~w[k].saw
        BY <3>1
      <3> QED BY <1>1, <2>2, <2>4, <3>2
    <2>5. CASE evs[k].kind \in {"started", "finished"}
      <3>1. w[k].saw
        <4>1. CASE evs[k].kind = "started"
          <5>1. w[k] = [tools |-> w[k - 1].tools \cup {evs[k].of}, saw |-> TRUE]
            BY <1>2, <4>1
          <5> QED BY <5>1
        <4>2. CASE evs[k].kind = "finished"
          <5>1. w[k] = [tools |-> w[k - 1].tools \ {evs[k].of}, saw |-> TRUE]
            BY <1>2, <4>2
          <5> QED BY <5>1
        <4> QED BY <2>5, <4>1, <4>2
      <3> QED BY <2>2, <2>5, <3>1
    <2>6. CASE evs[k].kind \notin {"terminal", "started", "finished"}
      <3>1. w[k] = [w[k - 1] EXCEPT !.saw = @ \/ evs[k].kind \in kinds]
        BY <1>2, <2>6
      <3>2. /\ w[k].tools = w[k - 1].tools
            /\ w[k].saw <=> w[k - 1].saw \/ evs[k].kind \in kinds
        BY <2>3, <3>1
      <3>3. evs[k].kind \in acts <=> evs[k].kind \in kinds
        BY <2>6
      <3> HIDE DEF acts
      <3>4. /\ w[k].tools # {} => w[k].saw
            /\ w[k].saw <=> Busy(k)
        BY <2>1, <2>2, <2>6, <3>2, <3>3, Zenon
      <3> QED BY <3>4
    <2> QED BY <2>4, <2>5, <2>6
  <1> HIDE DEF T
  <1>5. n \in T
    <2>1. \A k \in 0..n : k \in T
      BY <1>1, <1>3, <1>4, Throughout
    <2> QED BY <1>1, <2>1
  <1>6. Running(evs, kinds) <=> Busy(n)
    BY <1>2, <1>5 DEF T
  <1>7. \A i \in 1..n : (\A j \in (i + 1)..n : evs[j].kind # "terminal") <=> i \in SinceTurn(evs)
    BY <1>1 DEF SinceTurn
  <1>8. Busy(n) <=> IsBusy(evs, kinds)
    <2>1. SinceTurn(evs) \subseteq 1..n
      BY <1>1 DEF SinceTurn
    <2> QED BY <1>7, <2>1 DEF IsBusy
  <1> HIDE DEF Busy
  <1> QED BY <1>6, <1>8

\* A plan of event i is the last one up to k, with no decision after it.
OpenPlan(evs, i, k) ==
  /\ PlanIndex(evs, i) > 0
  /\ \A j \in (i + 1)..k : evs[j].kind \notin Decisions /\ PlanIndex(evs, j) = 0

\* The walk over plans ends with the last one, pending if nothing was decided after it.
LEMMA PlanMeans ==
  ASSUME NEW evs \in Seq(Events)
  PROVE  /\ LatestPlan(evs).status = "pending" =>
              \E i \in 1..Len(evs) : /\ OpenPlan(evs, i, Len(evs))
                                     /\ LatestPlan(evs).at = PlanIndex(evs, i)
         /\ \A i \in 1..Len(evs) : OpenPlan(evs, i, Len(evs)) =>
              LatestPlan(evs).status = "pending" /\ LatestPlan(evs).at = PlanIndex(evs, i)
  <1> DEFINE n == Len(evs)
  <1>1. n \in Nat /\ DOMAIN evs = 1..n
    OBVIOUS
  <1>2. PICK w \in [0..n -> PlanStates] :
           /\ w[0] = NoPlan /\ w[n] = LatestPlan(evs)
           /\ \A k \in 1..n :
                w[k] = IF PlanIndex(evs, k) > 0
                          THEN [at |-> PlanIndex(evs, k), status |-> "pending"]
                       ELSE IF w[k - 1] = NoPlan \/ evs[k].kind = "dismissed"
                          THEN IF evs[k].kind = "dismissed" THEN NoPlan ELSE w[k - 1]
                       ELSE IF evs[k].kind = "approved"
                          THEN [w[k - 1] EXCEPT !.status = "approved"]
                       ELSE IF evs[k].kind = "revision"
                          THEN [w[k - 1] EXCEPT !.status = "sending"]
                       ELSE w[k - 1]
    BY PlanWalk
  <1>3. \A k \in 1..n : PlanIndex(evs, k) \in 0..n
    BY PlanIndexIs
  <1> HIDE DEF n
  <1> DEFINE Is(k, i) == w[k].status = "pending" /\ w[k].at = PlanIndex(evs, i)
             Right(k) == /\ w[k].status = "pending" =>
                              \E i \in 1..k : OpenPlan(evs, i, k) /\ Is(k, i)
                         /\ \A i \in 1..k : OpenPlan(evs, i, k) => Is(k, i)
             T == {k \in 0..n : Right(k)}
  <1>4. 0 \in T
    BY <1>1, <1>2 DEF NoPlan
  <1>5. ASSUME NEW k \in 1..n, k - 1 \in T PROVE k \in T
    <2> SUFFICES Right(k)
      BY <1>1
    <2>1. Right(k - 1)
      BY <1>5
    <2>2. OpenPlan(evs, k, k) <=> PlanIndex(evs, k) > 0
      BY <1>1, PlacesGrow DEF OpenPlan
    <2>3. \A i \in 1..(k - 1) :
             OpenPlan(evs, i, k) <=> /\ OpenPlan(evs, i, k - 1)
                                     /\ evs[k].kind \notin Decisions /\ PlanIndex(evs, k) = 0
      BY <1>1, PlacesGrow DEF OpenPlan
    <2>4. 1..k = (1..(k - 1)) \cup {k} /\ w[k - 1] \in PlanStates
      BY <1>1, <1>2, PlacesGrow
    <2>5. CASE PlanIndex(evs, k) > 0
      <3>1. w[k] = [at |-> PlanIndex(evs, k), status |-> "pending"]
        BY <1>2, <2>5
      <3>2. Is(k, k)
        BY <3>1
      <3>3. \A i \in 1..(k - 1) : ~OpenPlan(evs, i, k)
        BY <2>3, <2>5
      <3> HIDE DEF Is
      <3> QED BY <2>2, <2>4, <2>5, <3>2, <3>3
    <2>6. CASE ~(PlanIndex(evs, k) > 0) /\ evs[k].kind \in Decisions
      <3>1. w[k].status # "pending"
        <4>1. CASE evs[k].kind = "dismissed" \/ w[k - 1] = NoPlan
          <5>1. w[k] = NoPlan
            BY <1>2, <2>6, <4>1
          <5> QED BY <5>1 DEF NoPlan
        <4>2. CASE evs[k].kind = "approved" /\ w[k - 1] # NoPlan
          <5>1. w[k] = [w[k - 1] EXCEPT !.status = "approved"]
            BY <1>2, <2>6, <4>2
          <5> QED BY <2>4, <5>1 DEF PlanStates
        <4>3. CASE evs[k].kind = "revision" /\ w[k - 1] # NoPlan
          <5>1. w[k] = [w[k - 1] EXCEPT !.status = "sending"]
            BY <1>2, <2>6, <4>3
          <5> QED BY <2>4, <5>1 DEF PlanStates
        <4> QED BY <2>6, <4>1, <4>2, <4>3 DEF Decisions
      <3>2. \A i \in 1..k : ~OpenPlan(evs, i, k)
        BY <2>2, <2>3, <2>4, <2>6
      <3> QED BY <3>1, <3>2
    <2>7. CASE ~(PlanIndex(evs, k) > 0) /\ evs[k].kind \notin Decisions
      <3>1. w[k] = w[k - 1]
        BY <1>2, <2>7 DEF Decisions
      <3>2. PlanIndex(evs, k) = 0
        BY <1>3, <2>7
      <3>3. \A i \in 1..(k - 1) : OpenPlan(evs, i, k) <=> OpenPlan(evs, i, k - 1)
        BY <2>3, <2>7, <3>2
      <3>4. \A i : Is(k, i) <=> Is(k - 1, i)
        BY <3>1
      <3>5. ~OpenPlan(evs, k, k)
        BY <2>2, <3>2
      <3>6. w[k].status = "pending" <=> w[k - 1].status = "pending"
        BY <3>1
      <3> HIDE DEF Is
      <3> QED BY <2>1, <2>4, <3>3, <3>4, <3>5, <3>6
    <2> QED BY <2>5, <2>6, <2>7
  <1> HIDE DEF T
  <1>6. n \in T
    <2>1. \A k \in 0..n : k \in T
      BY <1>1, <1>4, <1>5, Throughout
    <2> QED BY <1>1, <2>1
  <1>7. Right(n)
    BY <1>6 DEF T
  <1> QED BY <1>2, <1>7 DEF n

\* What stands after a place, as findPlanReviewReadyIdx looks for it, has a least place.
LEMMA LeastPlace ==
  ASSUME NEW n \in Nat, NEW S \in SUBSET (1..n), S # {}
  PROVE  Min(S) \in S /\ Min(S) > 0
  <1>1. S \in SUBSET Nat
    OBVIOUS
  <1>2. Min(S) \in S
    BY <1>1, LeastNatural DEF Min
  <1>3. Min(S) \in 1..n
    BY <1>2
  <1> QED BY <1>2, <1>3

\* The walk for the plan says that a plan waits for review when the log says so.
LEMMA ReviewMeans ==
  ASSUME NEW evs \in Seq(Events)
  PROVE  ReviewReadyAt(evs, LatestPlan(evs)) > 0 <=> \E i \in DOMAIN evs : IsReviewable(evs, i)
  <1> DEFINE n == Len(evs)
             plan == LatestPlan(evs)
             left == Event("finished", ExitTool)
             ended == Event("terminal", "none")
             After(a, E) == {j \in DOMAIN evs : j > a /\ evs[j] \in E}
  <1>1. n \in Nat /\ DOMAIN evs = 1..n
    OBVIOUS
  <1>2. \A E : After(plan.at, E) # {} => Min(After(plan.at, E)) > 0
    <2>1. \A E : After(plan.at, E) \in SUBSET (1..n)
      BY <1>1
    <2> HIDE DEF After
    <2> QED BY <1>1, <2>1, LeastPlace
  <1>3. ReviewReadyAt(evs, plan) > 0 <=>
          plan.status = "pending" /\ (After(plan.at, {left}) # {} \/ After(plan.at, {ended}) # {})
    <2>1. ReviewReadyAt(evs, plan) =
             IF plan.status # "pending" THEN 0
             ELSE IF After(plan.at, {left}) # {} THEN Min(After(plan.at, {left}))
             ELSE IF After(plan.at, {ended}) # {} THEN Min(After(plan.at, {ended})) ELSE 0
      BY Zenon DEF ReviewReadyAt
    <2> HIDE DEF After, plan, left, ended
    <2>2. /\ After(plan.at, {left}) # {} => Min(After(plan.at, {left})) > 0
          /\ After(plan.at, {ended}) # {} => Min(After(plan.at, {ended})) > 0
      BY <1>2
    <2>3. CASE plan.status # "pending"
      BY <2>1, <2>3
    <2>4. CASE plan.status = "pending" /\ After(plan.at, {left}) # {}
      BY <2>1, <2>2, <2>4
    <2>5. CASE plan.status = "pending" /\ After(plan.at, {left}) = {}
                 /\ After(plan.at, {ended}) # {}
      BY <2>1, <2>2, <2>5
    <2>6. CASE plan.status = "pending" /\ After(plan.at, {left}) = {}
                 /\ After(plan.at, {ended}) = {}
      <3>1. ReviewReadyAt(evs, plan) = 0
        BY <2>1, <2>6, Zenon
      <3>2. ~(ReviewReadyAt(evs, plan) > 0)
        BY <3>1
      <3> QED BY <2>6, <3>2, Zenon
    <2> QED BY <2>3, <2>4, <2>5, <2>6
  <1>4. After(plan.at, {left}) # {} \/ After(plan.at, {ended}) # {} <=>
          \E j \in DOMAIN evs : j > plan.at /\ evs[j] \in {ended, left}
    OBVIOUS
  <1>5. \A i \in 1..n : OpenPlan(evs, i, n) <=>
          /\ PlanIndex(evs, i) > 0
          /\ \A j \in DOMAIN evs : j > i => evs[j].kind \notin Decisions /\ PlanIndex(evs, j) = 0
    BY <1>1 DEF OpenPlan
  <1>6. \A i \in 1..n : IsReviewable(evs, i) <=>
          /\ OpenPlan(evs, i, n)
          /\ \E j \in DOMAIN evs : j > PlanIndex(evs, i) /\ evs[j] \in {ended, left}
    BY <1>5 DEF IsReviewable
  <1> HIDE DEF plan, After, left, ended
  <1>7. /\ plan.status = "pending" =>
             \E i \in 1..n : OpenPlan(evs, i, n) /\ plan.at = PlanIndex(evs, i)
        /\ \A i \in 1..n : OpenPlan(evs, i, n) =>
             plan.status = "pending" /\ plan.at = PlanIndex(evs, i)
    BY PlanMeans DEF plan
  <1> QED BY <1>1, <1>3, <1>4, <1>6, <1>7 DEF plan

\* The runtime's status is what its window of the log says.
LEMMA RuntimeStatusMeans ==
  ASSUME NEW evs \in Seq(Events)
  PROVE  RuntimeStatus(evs) = Meaning(evs, \E i \in DOMAIN evs : IsReviewable(evs, i),
                                      IsBusy(evs, RuntimeActivity))
  <1>1. "terminal" \notin RuntimeActivity
    BY DEF RuntimeActivity, PlanEvents
  <1> QED BY <1>1, PendingMeans, ReviewMeans, RunningMeans, Zenon DEF RuntimeStatus, Meaning

\* The window holds the end of the log, or all of it.
LEMMA RecentIs ==
  ASSUME log \in Seq(Events)
  PROVE  /\ Recent \in Seq(Events)
         /\ Len(log) <= Window => Recent = log
         /\ \E d \in Nat : /\ Len(log) = Len(Recent) + d
                           /\ \A i \in 1..Len(Recent) : Recent[i] = log[i + d]
  <1> DEFINE n == Len(log)
             m == n - Window + 1
             a == IF m > 1 THEN m ELSE 1
  <1>1. n \in Nat /\ Window \in Nat /\ \A i \in 1..n : log[i] \in Events
    BY StatusAssumption
  <1>2. Max({1, m}) = a
    <2>1. {1, m} \in SUBSET Int /\ a \in {1, m} /\ \A y \in {1, m} : a >= y
      BY <1>1
    <2> HIDE DEF m, a
    <2> QED BY <2>1, MaxIs
  <1>3. Recent = SubSeq(log, a, n)
    BY <1>2 DEF Recent
  <1>4. a \in 1..(n + 1)
    BY <1>1
  <1>5. /\ Recent \in Seq(Events) /\ Len(Recent) = n + 1 - a
        /\ \A i \in 1..(n + 1 - a) : Recent[i] = log[i + (a - 1)]
    <2> HIDE DEF a
    <2> QED BY <1>1, <1>3, <1>4
  <1>6. n <= Window => a = 1
    BY <1>1
  <1>7. a = 1 => Recent = log
    <2> HIDE DEF a
    <2> QED BY <1>1, <1>3
  <1> HIDE DEF a
  <1>8. a - 1 \in Nat /\ n = Len(Recent) + (a - 1)
    BY <1>1, <1>4, <1>5
  <1> QED BY <1>5, <1>6, <1>7, <1>8

\* A turn that ended in the window is the same there and in the whole log.
LEMMA TurnInWindow ==
  ASSUME log \in Seq(Events), \E i \in DOMAIN Recent : Recent[i].kind = "terminal"
  PROVE  /\ IsWaiting(log) <=> IsWaiting(Recent)
         /\ \A kinds : "terminal" \notin kinds => (IsBusy(log, kinds) <=> IsBusy(Recent, kinds))
  <1> DEFINE n == Len(log)
             r == Len(Recent)
  <1>1. PICK d \in Nat : n = r + d /\ \A i \in 1..r : Recent[i] = log[i + d]
    BY RecentIs
  <1>2. /\ n \in Nat /\ r \in Nat /\ DOMAIN log = 1..n /\ DOMAIN Recent = 1..r
    BY RecentIs
  <1>3. PICK t \in 1..r : Recent[t].kind = "terminal"
    BY <1>2
  <1> HIDE DEF n, r
  <1>4. \A i \in 1..r : i + d \in 1..n /\ (\A j \in 1..r : j > i <=> j + d > i + d)
    BY <1>1, <1>2
  <1>5. \A i \in 1..n : i > d => i - d \in 1..r /\ (i - d) + d = i
    BY <1>1, <1>2
  <1>6. \A i \in SinceTurn(log) : i \in 1..n /\ i > d
    <2>1. log[t + d].kind = "terminal" /\ t + d \in 1..n
      BY <1>1, <1>3, <1>4
    <2>2. \A i \in SinceTurn(log) : i \in 1..n /\ ~(t + d > i)
      BY <1>2, <2>1 DEF SinceTurn
    <2> QED BY <1>1, <1>2, <1>3, <2>2
  <1>7. ASSUME NEW i \in 1..r PROVE i \in SinceTurn(Recent) <=> i + d \in SinceTurn(log)
    <2>1. i \in SinceTurn(Recent) <=> \A j \in 1..r : j > i => Recent[j].kind # "terminal"
      BY <1>2 DEF SinceTurn
    <2>2. i + d \in SinceTurn(log) <=> \A j \in 1..n : j > i + d => log[j].kind # "terminal"
      BY <1>2, <1>4 DEF SinceTurn
    <2>3. ASSUME \A j \in 1..r : j > i => Recent[j].kind # "terminal",
                 NEW j \in 1..n, j > i + d PROVE log[j].kind # "terminal"
      <3>1. j - d \in 1..r /\ (j - d) + d = j /\ j - d > i
        BY <1>1, <1>2, <2>3
      <3>2. Recent[j - d] = log[j]
        BY <1>1, <3>1
      <3> QED BY <2>3, <3>1, <3>2
    <2>4. ASSUME \A j \in 1..n : j > i + d => log[j].kind # "terminal",
                 NEW j \in 1..r, j > i PROVE Recent[j].kind # "terminal"
      BY <1>1, <1>4, <2>4
    <2> QED BY <2>1, <2>2, <2>3, <2>4
  <1>8. SinceTurn(Recent) \subseteq 1..r
    BY <1>2 DEF SinceTurn
  <1>9. ASSUME NEW kinds PROVE IsBusy(log, kinds) <=> IsBusy(Recent, kinds)
    <2>1. ASSUME IsBusy(log, kinds) PROVE IsBusy(Recent, kinds)
      <3>1. PICK i \in SinceTurn(log) : log[i].kind \in kinds \cup {"started", "finished"}
        BY <2>1 DEF IsBusy
      <3>2. i - d \in 1..r /\ (i - d) + d = i
        BY <1>5, <1>6
      <3>3. Recent[i - d] = log[i] /\ i - d \in SinceTurn(Recent)
        BY <1>1, <1>7, <3>2
      <3> QED BY <3>1, <3>3 DEF IsBusy
    <2>2. ASSUME IsBusy(Recent, kinds) PROVE IsBusy(log, kinds)
      <3>1. PICK i \in SinceTurn(Recent) : Recent[i].kind \in kinds \cup {"started", "finished"}
        BY <2>2 DEF IsBusy
      <3>2. Recent[i] = log[i + d] /\ i + d \in SinceTurn(log)
        BY <1>1, <1>7, <1>8
      <3> QED BY <3>1, <3>2 DEF IsBusy
    <2> QED BY <2>1, <2>2
  <1>10. ASSUME IsWaiting(log) PROVE IsWaiting(Recent)
    <2>1. PICK i \in SinceTurn(log) :
             /\ log[i].kind = "asked"
             /\ \A j \in DOMAIN log : j > i => log[j] # Event("settled", log[i].of)
      BY <1>10 DEF IsWaiting
    <2>2. i - d \in 1..r /\ (i - d) + d = i
      BY <1>5, <1>6
    <2>3. Recent[i - d] = log[i] /\ i - d \in SinceTurn(Recent)
      BY <1>1, <1>7, <2>2
    <2>4. \A j \in 1..r : j > i - d => Recent[j] # Event("settled", log[i].of)
      <3> SUFFICES ASSUME NEW j \in 1..r, j > i - d
                   PROVE  Recent[j] # Event("settled", log[i].of)
        OBVIOUS
      <3>1. j + d \in 1..n /\ j + d > i
        BY <1>1, <1>2, <1>4, <1>6
      <3>2. Recent[j] = log[j + d]
        BY <1>1
      <3> QED BY <1>2, <2>1, <3>1, <3>2
    <2> QED BY <1>2, <2>1, <2>3, <2>4 DEF IsWaiting
  <1>11. ASSUME IsWaiting(Recent) PROVE IsWaiting(log)
    <2>1. PICK i \in SinceTurn(Recent) :
             /\ Recent[i].kind = "asked"
             /\ \A j \in DOMAIN Recent : j > i => Recent[j] # Event("settled", Recent[i].of)
      BY <1>11 DEF IsWaiting
    <2>2. Recent[i] = log[i + d] /\ i + d \in SinceTurn(log) /\ i \in 1..r
      BY <1>1, <1>7, <1>8
    <2>3. ASSUME NEW j \in 1..n, j > i + d PROVE log[j] # Event("settled", Recent[i].of)
      <3>1. j - d \in 1..r /\ (j - d) + d = j /\ j - d > i
        BY <1>1, <1>2, <2>2, <2>3
      <3>2. Recent[j - d] = log[j]
        BY <1>1, <3>1
      <3> QED BY <1>2, <2>1, <3>1, <3>2
    <2> QED BY <1>2, <2>1, <2>2, <2>3 DEF IsWaiting
  <1> QED BY <1>9, <1>10, <1>11

\* Without a plan in the log nothing waits for review.
LEMMA NoPlanNoReview ==
  ASSUME NEW evs \in Seq(Events), \A i \in DOMAIN evs : evs[i].kind \notin PlanEvents
  PROVE  ~(ReviewReadyAt(evs, LatestPlan(evs)) > 0)
  <1>1. \A i \in DOMAIN evs : ~(PlanIndex(evs, i) > 0)
    BY PlanIndexIs DEF PlanEvents
  <1> QED BY <1>1, ReviewMeans DEF IsReviewable

\* Runtime and client differ only as ClientAgrees allows.
LEMMA ClientAgreesAlways ==
  ASSUME log \in Seq(Events)
  PROVE  ClientAgrees
  <1> DEFINE carried == CarriedOn(log, ReviewReadyAt(log, LatestPlan(log)))
             todo == \E i \in DOMAIN log : log[i].kind = "todo"
             beyond == Len(log) > Window /\ \A i \in DOMAIN Recent : Recent[i].kind # "terminal"
             planned == Len(log) > Window /\ \E i \in DOMAIN log : log[i].kind \in PlanEvents
  <1> SUFFICES ASSUME ~carried, ~todo, ~beyond, ~planned
               PROVE  ClientStatus(log, FALSE) = RuntimeStatus(Recent)
    BY DEF ClientAgrees
  <1>1. /\ "terminal" \notin RuntimeActivity /\ "terminal" \notin ClientActivity
        /\ ClientActivity = RuntimeActivity \cup {"todo"}
    BY DEF RuntimeActivity, ClientActivity, PlanEvents
  <1>2. Recent \in Seq(Events)
    BY RecentIs
  <1>3. IsBusy(log, ClientActivity) <=> IsBusy(log, RuntimeActivity)
    <2>1. \A i \in DOMAIN log : log[i].kind \in ClientActivity <=> log[i].kind \in RuntimeActivity
      BY <1>1
    <2>2. SinceTurn(log) \subseteq DOMAIN log
      BY DEF SinceTurn
    <2> QED BY <2>1, <2>2 DEF IsBusy
  <1>4. /\ PendingRequests(log) # {} <=> PendingRequests(Recent) # {}
        /\ Running(log, ClientActivity) <=> Running(Recent, RuntimeActivity)
        /\ ReviewReadyAt(log, LatestPlan(log)) > 0 <=>
             ReviewReadyAt(Recent, LatestPlan(Recent)) > 0
    <2>1. CASE Len(log) <= Window
      <3>1. Recent = log
        BY <2>1, RecentIs
      <3> QED BY <1>1, <1>3, <3>1, RunningMeans
    <2>2. CASE ~(Len(log) <= Window)
      <3>1. Len(log) > Window
        BY <2>2, StatusAssumption
      <3>2. \E i \in DOMAIN Recent : Recent[i].kind = "terminal"
        BY <3>1
      <3>3. /\ IsWaiting(log) <=> IsWaiting(Recent)
            /\ IsBusy(log, RuntimeActivity) <=> IsBusy(Recent, RuntimeActivity)
        BY <1>1, <3>2, TurnInWindow
      <3>4. \A i \in DOMAIN log : log[i].kind \notin PlanEvents
        BY <3>1
      <3>5. \A i \in DOMAIN Recent : Recent[i].kind \notin PlanEvents
        <4>1. PICK d \in Nat : /\ Len(log) = Len(Recent) + d
                               /\ \A i \in 1..Len(Recent) : Recent[i] = log[i + d]
          BY RecentIs
        <4>2. \A i \in 1..Len(Recent) : i + d \in 1..Len(log)
          BY <1>2, <4>1
        <4>3. DOMAIN Recent = 1..Len(Recent) /\ DOMAIN log = 1..Len(log)
          BY <1>2
        <4> QED BY <3>4, <4>1, <4>2, <4>3
      <3> QED BY <1>1, <1>2, <1>3, <3>3, <3>4, <3>5, PendingMeans, RunningMeans,
                 NoPlanNoReview
    <2> QED BY <2>1, <2>2
  <1> HIDE DEF todo, beyond, planned
  <1> QED BY <1>4, Zenon DEF ClientStatus, RuntimeStatus

(***************************************************************************)
(* The badge of a worktree.                                                *)
(***************************************************************************)
Listed(i) == badges[i].tabOpen \/ badges[i].active

\* Thread i comes before thread k: more urgent, or active, or later.
Ahead(i, k) ==
  LET p == Priority[badges[i].status]
      q == Priority[badges[k].status]
  IN  \/ p < q
      \/ p = q /\ badges[i].active /\ ~badges[k].active
      \/ p = q /\ (badges[i].active <=> badges[k].active)
         /\ badges[i].updatedAt > badges[k].updatedAt

ApartInTime == \A i, k \in DOMAIN badges : badges[i].updatedAt = badges[k].updatedAt => i = k

\* Urgencies are numbers, one for each status.
LEMMA PriorityIs ==
  /\ DOMAIN Priority = {"waiting_approval", "review_plan", "running", "idle"}
  /\ \A s \in DOMAIN Priority : Priority[s] \in Int /\ Priority[s] <= Priority["idle"]
  /\ \A s, t \in DOMAIN Priority : Priority[s] = Priority[t] => s = t
  BY DEF Priority

\* The three parts of a rank, compared one after the other.
LEMMA BeforeIsAhead ==
  ASSUME badges \in Seq(Summaries), NEW i \in DOMAIN badges, NEW k \in DOMAIN badges
  PROVE  LET Rank(j) == <<Priority[badges[j].status], IF badges[j].active THEN 0 ELSE 1,
                          -badges[j].updatedAt>>
         IN  (\E n \in 1..3 : /\ Rank(i)[n] < Rank(k)[n]
                              /\ \A m \in 1..(n - 1) : Rank(i)[m] = Rank(k)[m])
             <=> Ahead(i, k)
  <1> DEFINE Rank(j) == <<Priority[badges[j].status], IF badges[j].active THEN 0 ELSE 1,
                          -badges[j].updatedAt>>
  <1>1. /\ badges[i] \in Summaries /\ badges[k] \in Summaries
    OBVIOUS
  <1>2. /\ Priority[badges[i].status] \in Int /\ Priority[badges[k].status] \in Int
        /\ badges[i].updatedAt \in Int /\ badges[k].updatedAt \in Int
        /\ badges[i].active \in BOOLEAN /\ badges[k].active \in BOOLEAN
    BY <1>1, PriorityIs DEF Summaries
  <1> DEFINE R(n) == /\ Rank(i)[n] < Rank(k)[n]
                     /\ \A m \in 1..(n - 1) : Rank(i)[m] = Rank(k)[m]
  <1>3. 1..3 = {1, 2, 3} /\ 1..(1 - 1) = {} /\ 1..(2 - 1) = {1} /\ 1..(3 - 1) = {1, 2}
    OBVIOUS
  <1>4. R(1) <=> Rank(i)[1] < Rank(k)[1]
    BY <1>3
  <1>5. R(2) <=> Rank(i)[2] < Rank(k)[2] /\ Rank(i)[1] = Rank(k)[1]
    BY <1>3
  <1>6. R(3) <=> Rank(i)[3] < Rank(k)[3] /\ Rank(i)[1] = Rank(k)[1] /\ Rank(i)[2] = Rank(k)[2]
    BY <1>3
  <1> DEFINE R1 == Rank(i)[1] < Rank(k)[1]
             R2 == Rank(i)[2] < Rank(k)[2] /\ Rank(i)[1] = Rank(k)[1]
             R3 == Rank(i)[3] < Rank(k)[3] /\ Rank(i)[1] = Rank(k)[1] /\ Rank(i)[2] = Rank(k)[2]
  <1>7. R1 \/ R2 \/ R3 <=> Ahead(i, k)
    BY <1>2 DEF Ahead
  <1>8. (\E n \in 1..3 : R(n)) <=> R1 \/ R2 \/ R3
    <2> HIDE DEF R
    <2>1. (\E n \in 1..3 : R(n)) <=> R(1) \/ R(2) \/ R(3)
      BY <1>3
    <2> QED BY <1>4, <1>5, <1>6, <2>1, Zenon
  <1> QED BY <1>7, <1>8, Zenon

\* Of two threads that are apart in time one is ahead, and what is ahead of it is so too.
LEMMA AheadOrders ==
  ASSUME badges \in Seq(Summaries), ApartInTime,
         NEW i \in DOMAIN badges, NEW k \in DOMAIN badges
  PROVE  /\ i # k => Ahead(i, k) \/ Ahead(k, i)
         /\ \A j \in DOMAIN badges : Ahead(i, j) /\ Ahead(j, k) => Ahead(i, k)
  <1>1. ASSUME NEW j \in DOMAIN badges
        PROVE  /\ Priority[badges[j].status] \in Int /\ badges[j].updatedAt \in Int
               /\ badges[j].active \in BOOLEAN
    <2>1. badges[j] \in Summaries
      OBVIOUS
    <2> QED BY <2>1, PriorityIs DEF Summaries
  <1>2. i # k => badges[i].updatedAt # badges[k].updatedAt
    BY DEF ApartInTime
  <1>3. i # k => Ahead(i, k) \/ Ahead(k, i)
    BY <1>1, <1>2 DEF Ahead
  <1>4. ASSUME NEW j \in DOMAIN badges, Ahead(i, j), Ahead(j, k) PROVE Ahead(i, k)
    BY <1>1, <1>4 DEF Ahead
  <1> QED BY <1>3, <1>4

\* The walk over the threads ends with the one ahead of all others.
LEMMA BadgeMeans ==
  ASSUME badges \in Seq(Summaries), ApartInTime
  PROVE  LET n == Len(badges)
             b == WorktreeBadge
         IN  \/ b = [kind |-> "idle", thread |-> 0] /\ \A i \in 1..n : ~Listed(i)
             \/ /\ b.thread \in 1..n /\ Listed(b.thread) /\ b.kind = badges[b.thread].status
                /\ \A i \in 1..n : Listed(i) /\ i # b.thread => Ahead(b.thread, i)
  <1> DEFINE n == Len(badges)
             none == [kind |-> "idle", thread |-> 0]
             Right(b, k) ==
                \/ b = none /\ \A i \in 1..k : ~Listed(i)
                \/ /\ b.thread \in 1..k /\ Listed(b.thread) /\ b.kind = badges[b.thread].status
                   /\ \A i \in 1..k : Listed(i) /\ i # b.thread => Ahead(b.thread, i)
  <1>1. n \in Nat /\ DOMAIN badges = 1..n /\ \A k \in 1..n : badges[k] \in Summaries
    OBVIOUS
  <1>2. PICK w \in [0..n -> BadgeStates(n)] :
           /\ w[0] = none /\ w[n] = WorktreeBadge
           /\ \A k \in 1..n :
                w[k] = IF Listed(k) /\ Preferred(badges[k], w[k - 1])
                       THEN [kind |-> badges[k].status, thread |-> k] ELSE w[k - 1]
    BY BadgeWalk DEF Listed
  <1> HIDE DEF n
  <1>3. \A k \in 1..n : /\ badges[k].status \in DOMAIN Priority /\ badges[k].active \in BOOLEAN
                        /\ Priority[badges[k].status] \in Int
    BY <1>1, PriorityIs DEF Summaries
  <1> DEFINE T == {k \in 0..n : Right(w[k], k)}
  <1>4. 0 \in T
    BY <1>1, <1>2
  <1>5. ASSUME NEW k \in 1..n, k - 1 \in T PROVE k \in T
    <2> SUFFICES Right(w[k], k)
      BY <1>1
    <2>1. Right(w[k - 1], k - 1)
      BY <1>5
    <2>2. 1..k = (1..(k - 1)) \cup {k} /\ k \notin 1..(k - 1) /\ 1..k \subseteq 1..n
      BY <1>1, PlacesGrow
    <2>3. CASE w[k - 1] = none /\ \A i \in 1..(k - 1) : ~Listed(i)
      <3>1. Preferred(badges[k], none)
        BY <1>3, PriorityIs DEF Preferred
      <3>2. CASE Listed(k)
        <4>1. w[k] = [kind |-> badges[k].status, thread |-> k]
          BY <1>2, <2>3, <3>1, <3>2
        <4>2. w[k].thread = k /\ w[k].kind = badges[k].status
          BY <4>1
        <4> QED BY <2>2, <2>3, <3>2, <4>2
      <3>3. CASE ~Listed(k)
        <4>1. w[k] = none
          BY <1>2, <2>3, <3>3
        <4> QED BY <2>2, <2>3, <3>3, <4>1
      <3> QED BY <3>2, <3>3
    <2>4. CASE LET b == w[k - 1] IN
               /\ b.thread \in 1..(k - 1) /\ Listed(b.thread) /\ b.kind = badges[b.thread].status
               /\ \A i \in 1..(k - 1) : Listed(i) /\ i # b.thread => Ahead(b.thread, i)
      <3> DEFINE t == w[k - 1].thread
      <3>1. /\ t \in 1..(k - 1) /\ Listed(t) /\ w[k - 1].kind = badges[t].status
            /\ \A i \in 1..(k - 1) : Listed(i) /\ i # t => Ahead(t, i)
        BY <2>4
      <3>2. t \in 1..n /\ k \in 1..n /\ t # k /\ t # 0
        BY <1>1, <3>1
      <3>3. Preferred(badges[k], w[k - 1]) <=> Ahead(k, t)
        <4>1. Priority[badges[k].status] = Priority[badges[t].status]
                <=> badges[k].status = badges[t].status
          BY <1>3, <3>2, PriorityIs
        <4> QED BY <1>3, <3>1, <3>2, <4>1 DEF Preferred, Ahead
      <3>4. CASE Listed(k) /\ Ahead(k, t)
        <4>1. w[k] = [kind |-> badges[k].status, thread |-> k]
          BY <1>2, <3>3, <3>4
        <4>2. w[k].thread = k /\ w[k].kind = badges[k].status
          BY <4>1
        <4>3. ASSUME NEW i \in 1..(k - 1), Listed(i) PROVE Ahead(k, i)
          <5>1. i = t \/ Ahead(t, i)
            BY <3>1, <4>3
          <5>2. i \in DOMAIN badges /\ k \in DOMAIN badges /\ t \in DOMAIN badges
            BY <1>1, <2>2, <3>2
          <5>3. Ahead(k, t) /\ Ahead(t, i) => Ahead(k, i)
            BY <5>2, AheadOrders
          <5> QED BY <3>4, <5>1, <5>3
        <4> QED BY <2>2, <3>4, <4>2, <4>3
      <3>5. CASE ~(Listed(k) /\ Ahead(k, t))
        <4>1. w[k] = w[k - 1]
          BY <1>2, <3>3, <3>5
        <4>2. Listed(k) => Ahead(t, k)
          BY <1>1, <3>2, <3>5, AheadOrders
        <4> QED BY <2>2, <3>1, <4>1, <4>2
      <3> QED BY <3>4, <3>5
    <2> QED BY <2>1, <2>3, <2>4
  <1> HIDE DEF T
  <1>6. n \in T
    <2>1. \A k \in 0..n : k \in T
      BY <1>1, <1>4, <1>5, Throughout
    <2> QED BY <1>1, <2>1
  <1>7. Right(WorktreeBadge, n)
    BY <1>2, <1>6 DEF T
  <1> QED BY <1>7 DEF n

(***************************************************************************)
(* The invariant: the log is one of events, and no two threads changed at  *)
(* the same time.                                                          *)
(***************************************************************************)
StatusInv == log \in Seq(Events) /\ badges \in Seq(Summaries) /\ ApartInTime

\* Nothing has been written or listed.
LEMMA StatusInvInit == StatusInit => StatusInv
  BY DEF StatusInit, StatusInv, ApartInTime

\* An event is appended, or a thread that is apart from the others.
LEMMA StatusInvStep == StatusInv /\ [StatusNext]_statusVars => StatusInv'
  <1> SUFFICES ASSUME StatusInv, [StatusNext]_statusVars PROVE StatusInv'
    OBVIOUS
  <1>1. ASSUME NEW e \in Events, WriteEvent(e) PROVE StatusInv'
    BY <1>1 DEF StatusInv, WriteEvent, ApartInTime
  <1>2. ASSUME NEW s \in Summaries, ListThread(s) PROVE StatusInv'
    <2>1. /\ badges' = Append(badges, s) /\ log' = log
          /\ \A i \in DOMAIN badges : badges[i].updatedAt # s.updatedAt
      BY <1>2 DEF ListThread
    <2>2. PICK n \in Nat : n = Len(badges) /\ DOMAIN badges = 1..n
      BY DEF StatusInv
    <2>3. /\ badges' \in Seq(Summaries) /\ DOMAIN badges' = 1..(n + 1)
          /\ badges'[n + 1] = s /\ \A i \in 1..n : badges'[i] = badges[i]
      BY <2>1, <2>2 DEF StatusInv
    <2>4. ApartInTime'
      <3> SUFFICES ASSUME NEW i \in 1..(n + 1), NEW k \in 1..(n + 1),
                          badges'[i].updatedAt = badges'[k].updatedAt
                   PROVE  i = k
        BY <2>3 DEF ApartInTime
      <3>1. i \in 1..n \/ i = n + 1
        OBVIOUS
      <3>2. k \in 1..n \/ k = n + 1
        OBVIOUS
      <3> QED BY <2>1, <2>2, <2>3, <3>1, <3>2 DEF StatusInv, ApartInTime
    <2> QED BY <2>1, <2>3, <2>4 DEF StatusInv
  <1>3. CASE UNCHANGED statusVars
    BY <1>3 DEF StatusInv, statusVars, ApartInTime
  <1> QED BY <1>1, <1>2, <1>3 DEF StatusNext

\* What the invariant says of the log and the list is all that the statuses need.
LEMMA StatusInvImplies == StatusInv => StatusesMatchLog
  <1> SUFFICES ASSUME StatusInv PROVE StatusesMatchLog
    OBVIOUS
  <1>1. RuntimeSaysSo
    BY RecentIs, RuntimeStatusMeans DEF StatusInv, RuntimeSaysSo
  <1>2. ClientAgrees
    BY ClientAgreesAlways DEF StatusInv
  <1>3. BadgeIsMostUrgent
    <2> DEFINE n == Len(badges)
               listed == {i \in DOMAIN badges : badges[i].tabOpen \/ badges[i].active}
               b == WorktreeBadge
               Rank(j) == <<Priority[badges[j].status], IF badges[j].active THEN 0 ELSE 1,
                            -badges[j].updatedAt>>
               Before(i, k) == \E m \in 1..3 : /\ Rank(i)[m] < Rank(k)[m]
                                               /\ \A l \in 1..(m - 1) : Rank(i)[l] = Rank(k)[l]
    <2>1. DOMAIN badges = 1..n /\ \A i : i \in listed <=> i \in 1..n /\ Listed(i)
      BY DEF StatusInv, Listed
    <2>2. \A i, k \in DOMAIN badges : Before(i, k) <=> Ahead(i, k)
      BY BeforeIsAhead, Zenon DEF StatusInv
    <2>3. \/ b = [kind |-> "idle", thread |-> 0] /\ \A i \in 1..n : ~Listed(i)
          \/ /\ b.thread \in 1..n /\ Listed(b.thread) /\ b.kind = badges[b.thread].status
             /\ \A i \in 1..n : Listed(i) /\ i # b.thread => Ahead(b.thread, i)
      BY BadgeMeans DEF StatusInv
    <2>4. BadgeIsMostUrgent <=>
             IF listed = {} THEN b = [kind |-> "idle", thread |-> 0]
             ELSE /\ b.thread \in listed /\ b.kind = badges[b.thread].status
                  /\ \A i \in listed \ {b.thread} : Before(b.thread, i)
      BY Zenon DEF BadgeIsMostUrgent
    <2> HIDE DEF n, listed, b, Before
    <2> QED BY <2>1, <2>2, <2>3, <2>4
  <1> QED BY <1>1, <1>2, <1>3 DEF StatusesMatchLog

\* The statuses that the walks over the events arrive at are what the log says, and the badge
\* is that of the most urgent thread: for every log that the runtime can write, every
\* window of it and every list of threads (chatThreadStatus.ts:397,
\* worktreeThreadStatus.ts:395, 443).
THEOREM StatusesStayTrue == StatusSpec => []StatusesMatchLog
  <1> QED BY StatusInvInit, StatusInvStep, StatusInvImplies, PTL DEF StatusSpec

-----------------------------------------------------------------------------
(***************************************************************************)
(* Both of the behaviours that the run workspace checks.                   *)
(***************************************************************************)

\* A step of the run is one of the panes or of the statuses, or leaves them alone.
LEMMA WorkspaceStep ==
  ASSUME [WorkspaceNext]_<<autoVars, recurrenceVars, codexVars, setupVars, editorVars,
                           statusVars>>
  PROVE  [EditorNext]_editorVars /\ [StatusNext]_statusVars
  BY DEF WorkspaceNext

\* Each tab is in one pane, and the panes match the tabs (editorColumns.ts:47).
THEOREM PanesStaySoundThere == WorkspaceSpec => []PanesAreSound
  <1>1. WorkspaceInit => EditorInv
    BY EditorInvInit DEF WorkspaceInit
  <1>2. EditorInv /\ [WorkspaceNext]_<<autoVars, recurrenceVars, codexVars, setupVars, editorVars,
                                       statusVars>> => EditorInv'
    BY WorkspaceStep, EditorInvStep
  <1> QED BY <1>1, <1>2, EditorInvImplies, PTL DEF WorkspaceSpec

\* The statuses are what the log and the list of threads say (chatThreadStatus.ts:397).
THEOREM StatusesStayTrueThere == WorkspaceSpec => []StatusesMatchLog
  <1>1. WorkspaceInit => StatusInv
    BY StatusInvInit DEF WorkspaceInit
  <1>2. StatusInv /\ [WorkspaceNext]_<<autoVars, recurrenceVars, codexVars, setupVars, editorVars,
                                       statusVars>> => StatusInv'
    BY WorkspaceStep, StatusInvStep
  <1> QED BY <1>1, <1>2, StatusInvImplies, PTL DEF WorkspaceSpec
=============================================================================
