------------------------- MODULE EventStreamProofs -------------------------
(***************************************************************************)
(* The safety of EventStream for all readers and all bounds: what a client *)
(* shows is a prefix of the stored events, its cursor has not passed an    *)
(* event it does not show, and the stream implements EventLedger.          *)
(*                                                                         *)
(* The invariant follows an event on its way.  The hub numbers upwards; a  *)
(* connection holds, in order, all that was stored behind the number it    *)
(* resumes from; and what lies between that number and the cursor came     *)
(* with a snapshot, so that it is among the rows and among those seen.     *)
(***************************************************************************)
EXTENDS EventStream, FiniteSetTheorems, WellFoundedInduction, TLAPS

-----------------------------------------------------------------------------
(* Sets of numbers and sequences that ascend.                              *)
-----------------------------------------------------------------------------
Ascending(s) == \A i, j \in DOMAIN s : i < j => s[i] < s[j]

Stored == Range(db)

\* Events without a gap: with each of them all that were stored before.
Gapless(S) == S \subseteq Stored /\ \A n \in S, m \in Stored : m < n => m \in S

\* Among finite sets there is always one that has none of the others inside: the form
\* in which the library's induction over finite sets can be used.
LEMMA MinimalSet ==
  ASSUME NEW S, NEW F \in SUBSET FiniteSubsetsOf(S), F # {}
  PROVE  \E X \in F : \A Y \in F : ~(Y \subseteq X /\ Y # X)
  <1>1. \E X \in F : \A Y \in F : ~(<<Y, X>> \in StrictSubsetOrdering(S))
    BY FS_StrictSubsetOrderingWellFounded, WFMin
  <1> QED BY <1>1 DEF StrictSubsetOrdering, FiniteSubsetsOf

\* A finite set of numbers that is not empty has a greatest one.
LEMMA GreatestExists ==
  ASSUME NEW S \in SUBSET Int, IsFiniteSet(S), S # {}
  PROVE  \E m \in S : \A n \in S : n <= m
  <1> DEFINE Has(X) == \E m \in X : \A n \in X : n <= m
             F == {X \in FiniteSubsetsOf(S) : X # {} /\ ~Has(X)}
  <1> SUFFICES ASSUME F # {} PROVE FALSE
    BY DEF FiniteSubsetsOf
  <1>1. PICK X \in F : \A Y \in F : ~(Y \subseteq X /\ Y # X)
    <2>1. F \in SUBSET FiniteSubsetsOf(S)
      OBVIOUS
    <2> HIDE DEF F
    <2> QED BY <2>1, MinimalSet
  <1>2. PICK x \in X : TRUE
    BY <1>1
  <1>3. X \ {x} \in FiniteSubsetsOf(S)
    BY <1>1, FS_Subset DEF FiniteSubsetsOf
  <1>4. X \ {x} = {} \/ Has(X \ {x})
    <2>1. X \ {x} \notin F
      BY <1>1, <1>2
    <2> HIDE DEF Has
    <2> QED BY <1>3, <2>1
  <1>5. X \subseteq Int /\ ~Has(X)
    BY <1>1 DEF FiniteSubsetsOf
  <1> QED BY <1>2, <1>4, <1>5

\* A finite set of numbers can be put in increasing order.
LEMMA OrderExists ==
  ASSUME NEW S \in SUBSET Int, IsFiniteSet(S)
  PROVE  \E s \in [1..Cardinality(S) -> S] : Range(s) = S /\ Ascending(s)
  <1> DEFINE Has(X) == \E s \in [1..Cardinality(X) -> X] : Range(s) = X /\ Ascending(s)
             F == {X \in FiniteSubsetsOf(S) : ~Has(X)}
  <1> SUFFICES ASSUME F # {} PROVE FALSE
    BY DEF FiniteSubsetsOf
  <1>1. PICK X \in F : \A Y \in F : ~(Y \subseteq X /\ Y # X)
    <2>1. F \in SUBSET FiniteSubsetsOf(S)
      OBVIOUS
    <2> HIDE DEF F
    <2> QED BY <2>1, MinimalSet
  <1>2. X \subseteq Int /\ IsFiniteSet(X) /\ ~Has(X)
    BY <1>1 DEF FiniteSubsetsOf
  <1>3. X # {}
    <2> SUFFICES ASSUME X = {} PROVE Has(X)
      BY <1>2
    <2>1. Cardinality(X) = 0
      BY FS_EmptySet
    <2> DEFINE s == [i \in 1..0 |-> 0]
    <2>2. s \in [1..Cardinality(X) -> X] /\ Range(s) = X /\ Ascending(s)
      BY <2>1 DEF Range, Ascending
    <2> QED BY <2>2
  <1>4. PICK m \in X : \A n \in X : n <= m
    BY <1>2, <1>3, GreatestExists
  <1> DEFINE Y == X \ {m}
  <1>5. Y \in FiniteSubsetsOf(S) /\ Y \subseteq X /\ Y # X
    BY <1>1, <1>2, <1>4, FS_Subset DEF FiniteSubsetsOf
  <1>6. PICK s \in [1..Cardinality(Y) -> Y] : Range(s) = Y /\ Ascending(s)
    BY <1>1, <1>5
  <1> HIDE DEF Y
  <1>7. PICK k \in Nat : Cardinality(Y) = k /\ Cardinality(X) = k + 1
    BY <1>2, <1>4, FS_RemoveElement, FS_CardinalityType, FS_Subset DEF Y
  <1>11. s \in [1..k -> Y] /\ Range(s) = Y /\ Ascending(s)
    BY <1>6, <1>7
  <1>12. X = Y \cup {m} /\ m \notin Y
    BY <1>4 DEF Y
  <1> DEFINE t == [i \in 1..(k + 1) |-> IF i = k + 1 THEN m ELSE s[i]]
  <1>13. /\ DOMAIN t = 1..(k + 1) /\ t[k + 1] = m
         /\ \A i \in 1..k : t[i] = s[i] /\ s[i] \in Y
    BY <1>7, <1>11
  <1> HIDE DEF t
  <1>8. t \in [1..(k + 1) -> X]
    BY <1>7, <1>11, <1>12 DEF t
  <1>9. Range(t) = X
    <2>1. ASSUME NEW x \in Y PROVE x \in Range(t)
      <3>1. PICK i \in 1..k : x = s[i]
        BY <1>11 DEF Range
      <3>2. i \in 1..(k + 1) /\ t[i] = x
        BY <1>7, <1>13, <3>1
      <3> QED BY <1>13, <3>2 DEF Range
    <2>2. m \in Range(t)
      <3>1. k + 1 \in 1..(k + 1)
        BY <1>7
      <3> QED BY <1>13, <3>1 DEF Range
    <2>3. Range(t) \subseteq X
      BY <1>8 DEF Range
    <2> QED BY <1>12, <2>1, <2>2, <2>3
  <1>10. Ascending(t)
    <2> SUFFICES ASSUME NEW i \in 1..(k + 1), NEW j \in 1..(k + 1), i < j
                 PROVE  t[i] < t[j]
      BY <1>13 DEF Ascending
    <2>1. i \in 1..k /\ t[i] = s[i] /\ s[i] \in Y
      BY <1>7, <1>13
    <2>2. CASE j = k + 1
      <3>1. t[j] = m /\ s[i] <= m /\ s[i] # m /\ s[i] \in Int /\ m \in Int
        BY <1>2, <1>4, <1>12, <1>13, <2>1, <2>2
      <3> QED BY <2>1, <3>1
    <2>3. CASE j # k + 1
      <3>1. j \in 1..k /\ t[j] = s[j]
        BY <1>7, <1>13, <2>3
      <3> QED BY <1>11, <2>1, <3>1 DEF Ascending
    <2> QED BY <2>2, <2>3
  <1>14. Has(X)
    BY <1>7, <1>8, <1>9, <1>10
  <1> QED BY <1>2, <1>14

\* What InOrder returns.
LEMMA InOrderProperties ==
  ASSUME NEW S \in SUBSET Int, IsFiniteSet(S)
  PROVE  /\ InOrder(S) \in Seq(S)
         /\ Range(InOrder(S)) = S
         /\ Ascending(InOrder(S))
  <1>1. InOrder(S) \in [1..Cardinality(S) -> S] /\ Range(InOrder(S)) = S /\ Ascending(InOrder(S))
    BY OrderExists DEF InOrder, Ascending
  <1>2. Cardinality(S) \in Nat
    BY FS_CardinalityType
  <1> QED BY <1>1, <1>2

\* A sequence that ascends is what InOrder makes of its elements.
LEMMA InOrderUnique ==
  ASSUME NEW w \in Seq(Int), Ascending(w)
  PROVE  InOrder(Range(w)) = w
  <1> DEFINE S == Range(w)
             s == InOrder(S)
             n == Len(w)
  <1>1. n \in Nat /\ w \in [1..n -> S] /\ DOMAIN w = 1..n
    BY DEF Range
  <1>2. ExistsBijection(1..n, S)
    <2>2. \A i, j \in 1..n : w[i] = w[j] => i = j
      <3>1. \A i, j \in 1..n : i < j => w[i] < w[j]
        BY <1>1 DEF Ascending
      <3>2. \A i \in 1..n : w[i] \in Int
        BY <1>1
      <3> HIDE DEF n
      <3> QED BY <1>1, <3>1, <3>2
    <2>3. \A x \in S : \E i \in 1..n : w[i] = x
      BY <1>1 DEF Range
    <2> HIDE DEF n, S
    <2>1. w \in Bijection(1..n, S)
      BY <1>1, <2>2, <2>3 DEF Bijection, Injection, Surjection, IsInjective
    <2> QED BY <2>1 DEF ExistsBijection
  <1>3. IsFiniteSet(S) /\ Cardinality(S) = n /\ S \subseteq Int
    <2>1. IsFiniteSet(1..n) /\ Cardinality(1..n) = n
      BY SMTT(30), <1>1, FS_Interval
    <2>2. S \subseteq Int
      BY <1>1 DEF Range
    <2> HIDE DEF n, S
    <2> QED BY <1>2, <2>1, <2>2, FS_Bijection
  <1>4. s \in [1..n -> S] /\ Range(s) = S /\ Ascending(s)
    <2>1. InOrder(S) \in [1..Cardinality(S) -> S] /\ Range(InOrder(S)) = S /\ Ascending(InOrder(S))
      BY <1>3, OrderExists DEF InOrder, Ascending
    <2> QED BY <1>3, <2>1
  <1> DEFINE D == {i \in 1..n : s[i] # w[i]}
  <1>5. SUFFICES ASSUME D # {} PROVE FALSE
    <2>1. \A i \in 1..n : s[i] = w[i]
      BY <1>5
    <2>2. s = w
      <3> HIDE DEF s, n, S
      <3> QED BY <1>1, <1>4, <2>1
    <2> QED BY <2>2
  <1>6. PICK i \in D : \A j \in D : j <= i
    <2>1. D \in SUBSET Int /\ IsFiniteSet(D)
      <3>1. IsFiniteSet(1..n)
        BY <1>1, FS_Interval
      <3>2. D \subseteq 1..n
        OBVIOUS
      <3>3. 1..n \subseteq Int
        BY <1>1
      <3> HIDE DEF D, n
      <3>4. IsFiniteSet(D)
        BY <3>1, <3>2, FS_Subset
      <3> QED BY <3>2, <3>3, <3>4
    <2> HIDE DEF D
    <2> QED BY <1>5, <2>1, GreatestExists
  <1>7. PICK j \in 1..n : w[j] = s[i]
    BY <1>1, <1>4, <1>6 DEF Range
  <1>8. PICK k \in 1..n : s[k] = w[i]
    BY <1>1, <1>4, <1>6 DEF Range
  <1>9. i \in 1..n /\ s[i] # w[i]
    BY <1>6
  <1>10. \A x, y \in 1..n : x < y => w[x] < w[y] /\ s[x] < s[y]
    BY <1>1, <1>4 DEF Ascending
  <1>11. \A x \in 1..n : w[x] \in Int /\ s[x] \in Int
    BY <1>1, <1>3, <1>4
  <1>12. \A x \in 1..n : x > i => s[x] = w[x]
    BY <1>1, <1>6
  <1> HIDE DEF s, n, S, D
  <1>13. j < i
    BY SMTT(30), <1>1, <1>7, <1>9, <1>10, <1>11, <1>12
  <1>14. k < i
    BY <1>1, <1>8, <1>9, <1>10, <1>11, <1>12
  <1> QED BY <1>7, <1>8, <1>9, <1>10, <1>11, <1>13, <1>14

-----------------------------------------------------------------------------
\* The elements of a sequence that grows, shrinks or is joined to another.
LEMMA RangeOfAppend ==
  ASSUME NEW A, NEW s \in Seq(A), NEW x
  PROVE  Range(Append(s, x)) = Range(s) \cup {x}
  <1> DEFINE t == Append(s, x)
             n == Len(s)
  <1>1. /\ n \in Nat /\ DOMAIN s = 1..n /\ DOMAIN t = 1..(n + 1) /\ t[n + 1] = x
        /\ \A i \in 1..n : t[i] = s[i]
    OBVIOUS
  <1> HIDE DEF t, n
  <1>2. ASSUME NEW y \in Range(s) PROVE y \in Range(t)
    <2>1. PICK i \in 1..n : y = s[i]
      BY <1>1, <1>2 DEF Range
    <2>2. i \in 1..(n + 1) /\ t[i] = y
      BY <1>1, <2>1
    <2> QED BY <1>1, <2>2 DEF Range
  <1>3. x \in Range(t)
    <2>1. n + 1 \in 1..(n + 1)
      BY <1>1
    <2> QED BY <1>1, <2>1 DEF Range
  <1>4. ASSUME NEW y \in Range(t) PROVE y \in Range(s) \cup {x}
    <2>1. PICK i \in 1..(n + 1) : y = t[i]
      BY <1>1, <1>4 DEF Range
    <2>2. i \in 1..n \/ i = n + 1
      BY <1>1
    <2> QED BY <1>1, <2>1, <2>2 DEF Range
  <1>5. Range(t) = Range(s) \cup {x}
    BY <1>2, <1>3, <1>4
  <1> QED BY <1>5 DEF t

\* What is at the head of a sequence, and what follows.
LEMMA RangeOfTail ==
  ASSUME NEW A, NEW s \in Seq(A), s # << >>
  PROVE  Range(s) = {Head(s)} \cup Range(Tail(s))
  <1> DEFINE t == Tail(s)
             n == Len(s)
  <1>1. /\ n \in Nat \ {0} /\ DOMAIN s = 1..n /\ DOMAIN t = 1..(n - 1) /\ Head(s) = s[1]
        /\ \A i \in 1..(n - 1) : t[i] = s[i + 1]
    OBVIOUS
  <1> HIDE DEF t, n
  <1>2. ASSUME NEW y \in Range(t) PROVE y \in Range(s)
    <2>1. PICK i \in 1..(n - 1) : y = t[i]
      BY <1>1, <1>2 DEF Range
    <2>2. i + 1 \in 1..n /\ s[i + 1] = y
      BY <1>1, <2>1
    <2> QED BY <1>1, <2>2 DEF Range
  <1>3. Head(s) \in Range(s)
    <2>1. 1 \in 1..n
      BY <1>1
    <2> QED BY <1>1, <2>1 DEF Range
  <1>4. ASSUME NEW y \in Range(s) PROVE y \in {Head(s)} \cup Range(t)
    <2>1. PICK i \in 1..n : y = s[i]
      BY <1>1, <1>4 DEF Range
    <2>2. CASE i = 1
      BY <1>1, <2>1, <2>2
    <2>3. CASE i # 1
      <3>1. i - 1 \in 1..(n - 1) /\ t[i - 1] = s[(i - 1) + 1] /\ (i - 1) + 1 = i
        BY <1>1, <2>1, <2>3
      <3> QED BY <1>1, <2>1, <3>1 DEF Range
    <2> QED BY <2>2, <2>3
  <1>5. Range(s) = {Head(s)} \cup Range(t)
    BY <1>2, <1>3, <1>4
  <1> QED BY <1>5 DEF t

\* Of two sequences, one behind the other.
LEMMA RangeOfConcat ==
  ASSUME NEW A, NEW s \in Seq(A), NEW t \in Seq(A)
  PROVE  Range(s \o t) = Range(s) \cup Range(t)
  <1> DEFINE u == s \o t
             m == Len(s)
             n == Len(t)
  <1>1. /\ m \in Nat /\ n \in Nat
        /\ DOMAIN s = 1..m /\ DOMAIN t = 1..n /\ DOMAIN u = 1..(m + n)
        /\ \A i \in 1..(m + n) : u[i] = IF i <= m THEN s[i] ELSE t[i - m]
    OBVIOUS
  <1> HIDE DEF u, m, n
  <1>2. ASSUME NEW y \in Range(s) PROVE y \in Range(u)
    <2>1. PICK i \in 1..m : y = s[i]
      BY <1>1, <1>2 DEF Range
    <2>2. i \in 1..(m + n) /\ i <= m
      BY <1>1, <2>1
    <2> QED BY <1>1, <2>1, <2>2 DEF Range
  <1>3. ASSUME NEW y \in Range(t) PROVE y \in Range(u)
    <2>1. PICK i \in 1..n : y = t[i]
      BY <1>1, <1>3 DEF Range
    <2>2. i + m \in 1..(m + n) /\ ~(i + m <= m) /\ (i + m) - m = i
      BY <1>1, <2>1
    <2>3. u[i + m] = y
      BY <1>1, <2>1, <2>2
    <2> QED BY <1>1, <2>2, <2>3 DEF Range
  <1>4. ASSUME NEW y \in Range(u) PROVE y \in Range(s) \cup Range(t)
    <2>1. PICK i \in 1..(m + n) : y = u[i]
      BY <1>1, <1>4 DEF Range
    <2>2. CASE i <= m
      <3>1. i \in 1..m /\ y = s[i]
        BY <1>1, <2>1, <2>2
      <3> QED BY <1>1, <3>1 DEF Range
    <2>3. CASE ~(i <= m)
      <3>1. i - m \in 1..n /\ y = t[i - m]
        BY <1>1, <2>1, <2>3
      <3> QED BY <1>1, <3>1 DEF Range
    <2> QED BY <2>2, <2>3
  <1>5. Range(u) = Range(s) \cup Range(t)
    BY <1>2, <1>3, <1>4
  <1> QED BY <1>5 DEF u

\* A sequence to whose end something greater comes still ascends.
LEMMA AppendAscends ==
  ASSUME NEW s \in Seq(Numbers), NEW x, Ascending(s), \A i \in DOMAIN s : s[i] < x
  PROVE  Ascending(Append(s, x))
  <1> DEFINE t == Append(s, x)
             n == Len(s)
  <1>1. /\ n \in Nat /\ DOMAIN s = 1..n /\ DOMAIN t = 1..(n + 1) /\ t[n + 1] = x
        /\ \A i \in 1..n : t[i] = s[i]
    OBVIOUS
  <1> HIDE DEF t, n
  <1>2. ASSUME NEW i \in 1..(n + 1), NEW j \in 1..(n + 1), i < j
        PROVE  t[i] < t[j]
    <2>1. i \in 1..n
      BY <1>1, <1>2
    <2>2. j \in 1..n \/ j = n + 1
      BY <1>1
    <2> QED BY <1>1, <1>2, <2>1, <2>2 DEF Ascending
  <1>3. Ascending(t)
    BY <1>1, <1>2 DEF Ascending
  <1> QED BY <1>3 DEF t

\* Two ascending sequences, the second from where the first ends.
LEMMA ConcatAscends ==
  ASSUME NEW s \in Seq(Numbers), NEW t \in Seq(Numbers), Ascending(s), Ascending(t),
         Range(s) \subseteq Int, Range(t) \subseteq Int,
         \A x \in Range(s), y \in Range(t) : x <= y
  PROVE  \A i, j \in DOMAIN (s \o t) : i < j => (s \o t)[i] <= (s \o t)[j]
  <1> DEFINE u == s \o t
             m == Len(s)
             n == Len(t)
  <1>1. /\ m \in Nat /\ n \in Nat
        /\ DOMAIN s = 1..m /\ DOMAIN t = 1..n /\ DOMAIN u = 1..(m + n)
        /\ \A i \in 1..(m + n) : u[i] = IF i <= m THEN s[i] ELSE t[i - m]
    OBVIOUS
  <1> HIDE DEF u, m, n
  <1>2. ASSUME NEW i \in 1..(m + n), NEW j \in 1..(m + n), i < j
        PROVE  u[i] <= u[j]
    <2>1. CASE j <= m
      <3>1. i \in 1..m /\ j \in 1..m /\ u[i] = s[i] /\ u[j] = s[j]
        BY <1>1, <1>2, <2>1
      <3>2. s[i] < s[j] /\ s[i] \in Int /\ s[j] \in Int
        BY <1>1, <1>2, <3>1 DEF Ascending, Range
      <3> QED BY <3>1, <3>2
    <2>2. CASE i <= m /\ ~(j <= m)
      <3>1. i \in 1..m /\ j - m \in 1..n /\ u[i] = s[i] /\ u[j] = t[j - m]
        BY <1>1, <2>2
      <3>2. s[i] \in Range(s) /\ t[j - m] \in Range(t)
        BY <1>1, <3>1 DEF Range
      <3> QED BY <3>1, <3>2
    <2>3. CASE ~(i <= m)
      <3>1. i - m \in 1..n /\ j - m \in 1..n /\ i - m < j - m /\ u[i] = t[i - m] /\ u[j] = t[j - m]
        BY <1>1, <1>2, <2>3
      <3>2. t[i - m] < t[j - m] /\ t[i - m] \in Int /\ t[j - m] \in Int
        BY <1>1, <3>1 DEF Ascending, Range
      <3> QED BY <3>1, <3>2
    <2> QED BY <2>1, <2>2, <2>3
  <1>3. \A i, j \in DOMAIN u : i < j => u[i] <= u[j]
    BY <1>1, <1>2
  <1> QED BY <1>3 DEF u

\* What lies up to a bound in an ascending sequence is a beginning of it.
LEMMA PrefixUpTo ==
  ASSUME NEW s \in Seq(Numbers), Ascending(s), NEW c \in Int
  PROVE  \E k \in 0..Len(s) : /\ {x \in Range(s) : x <= c} = Range(SubSeq(s, 1, k))
                              /\ InOrder({x \in Range(s) : x <= c}) = SubSeq(s, 1, k)
  <1> DEFINE n == Len(s)
             I == {i \in 1..n : s[i] <= c}
  <1>0. Numbers \subseteq Int
    BY StreamAssumption DEF Numbers, None
  <1>1. n \in Nat /\ DOMAIN s = 1..n /\ \A i \in 1..n : s[i] \in Int
    <2>1. n \in Nat /\ DOMAIN s = 1..n /\ \A i \in 1..n : s[i] \in Numbers
      OBVIOUS
    <2> QED BY <1>0, <2>1
  <1>2. PICK k \in 0..n : I = 1..k
    <2>1. CASE I = {}
      BY <1>1, <2>1
    <2>2. CASE I # {}
      <3>1. I \subseteq 1..n /\ IsFiniteSet(1..n) /\ 1..n \subseteq Int
        BY <1>1, FS_Interval
      <3>2. PICK k \in I : \A i \in I : i <= k
        <4> HIDE DEF I, n
        <4> QED BY <2>2, <3>1, FS_Subset, GreatestExists
      <3>3. k \in 1..n /\ s[k] <= c
        BY <3>2
      <3>4. ASSUME NEW i \in 1..k PROVE i \in I
        <4>1. i \in 1..n /\ (i = k \/ s[i] < s[k])
          BY <1>1, <3>3 DEF Ascending
        <4>2. PICK x \in Int, y \in Int : x = s[i] /\ y = s[k] /\ (x = y \/ x < y) /\ y <= c
          BY <1>1, <3>3, <4>1
        <4> QED BY <4>1, <4>2
      <3>5. \A i \in I : i \in 1..k
        BY <1>1, <3>2, <3>3
      <3> HIDE DEF I
      <3>6. I = 1..k
        BY <3>4, <3>5
      <3> QED BY <3>3, <3>6
    <2> QED BY <2>1, <2>2
  <1> DEFINE t == SubSeq(s, 1, k)
  <1>3. /\ t \in Seq(Int) /\ DOMAIN t = 1..k /\ \A i \in 1..k : t[i] = s[i]
    BY <1>0, <1>1, <1>2
  <1> HIDE DEF t
  <1>4. Range(t) = {x \in Range(s) : x <= c}
    <2>1. ASSUME NEW x \in Range(t) PROVE x \in Range(s) /\ x <= c
      <3>1. PICK i \in 1..k : x = s[i]
        BY <1>3, <2>1 DEF Range
      <3>2. i \in I
        BY <1>2, <3>1
      <3> QED BY <1>1, <3>1, <3>2 DEF Range
    <2>2. ASSUME NEW x \in Range(s), x <= c PROVE x \in Range(t)
      <3>1. PICK i \in 1..n : x = s[i]
        BY <1>1, <2>2 DEF Range
      <3>2. i \in 1..k
        BY <1>2, <2>2, <3>1
      <3> QED BY <1>3, <3>1, <3>2 DEF Range
    <2> QED BY <2>1, <2>2
  <1>5. Ascending(t)
    <2> SUFFICES ASSUME NEW i \in 1..k, NEW j \in 1..k, i < j PROVE t[i] < t[j]
      BY <1>3 DEF Ascending
    <2>1. i \in 1..n /\ j \in 1..n
      BY <1>1, <1>2
    <2> QED BY <1>1, <1>3, <2>1 DEF Ascending
  <1>6. InOrder(Range(t)) = t
    BY <1>3, <1>5, InOrderUnique
  <1>7. k \in 0..Len(s)
    BY <1>2
  <1> QED BY <1>4, <1>6, <1>7 DEF t

-----------------------------------------------------------------------------
\* The greatest number of a set.
LEMMA NewestProperties ==
  ASSUME NEW S \in SUBSET Numbers
  PROVE  /\ Newest(S) \in Numbers
         /\ S = {} => Newest(S) = None
         /\ S # {} => Newest(S) \in S
         /\ \A n \in S : n <= Newest(S)
  <1>1. MaxEvents \in Nat
    BY StreamAssumption
  <1>2. IsFiniteSet(Numbers) /\ Numbers \subseteq Int /\ None \in Numbers
    BY <1>1, FS_Interval DEF Numbers, None
  <1>3. CASE S = {}
    BY <1>2, <1>3 DEF Newest
  <1>4. CASE S # {}
    <2>1. IsFiniteSet(S) /\ S \subseteq Int
      BY <1>2, FS_Subset
    <2>2. \E m \in S : \A n \in S : n <= m
      BY <1>4, <2>1, GreatestExists
    <2>3. \E m \in S : \A n \in S : m >= n
      BY <2>1, <2>2
    <2>4. Max(S) \in S /\ \A n \in S : Max(S) >= n
      BY <2>3 DEF Max
    <2>5. \A n \in S : n <= Max(S)
      BY <2>1, <2>4
    <2> QED BY <1>4, <2>4, <2>5 DEF Newest
  <1> QED BY <1>3, <1>4

\* Rows read later in the order of their numbers.
LEMMA AfterProperties ==
  ASSUME NEW s \in Seq(Numbers), NEW i
  PROVE  /\ After(s, i) \in Seq(Numbers)
         /\ Range(After(s, i)) = {n \in Range(s) : n > i}
         /\ Ascending(After(s, i))
  <1> DEFINE S == {n \in Range(s) : n > i}
  <1>1. S \subseteq Numbers
    BY DEF Range
  <1>2. IsFiniteSet(Numbers) /\ Numbers \subseteq Int
    BY StreamAssumption, FS_Interval DEF Numbers, None
  <1> HIDE DEF S
  <1>3. S \in SUBSET Int /\ IsFiniteSet(S)
    BY <1>1, <1>2, FS_Subset
  <1>4. InOrder(S) \in Seq(S) /\ Range(InOrder(S)) = S /\ Ascending(InOrder(S))
    BY <1>3, InOrderProperties
  <1>5. InOrder(S) \in Seq(Numbers)
    BY <1>1, <1>4
  <1> QED BY <1>4, <1>5 DEF S, After

\* What is left keeps its order.
LEMMA WithoutProperties ==
  ASSUME NEW s \in Seq(Numbers), NEW T
  PROVE  /\ Without(s, T) \in Seq(Numbers)
         /\ Range(Without(s, T)) = Range(s) \ T
         /\ Ascending(s) => Ascending(Without(s, T))
  <1> DEFINE n == Len(s)
             K == {i \in DOMAIN s : s[i] \notin T}
             kept == InOrder(K)
             w == [i \in DOMAIN kept |-> s[kept[i]]]
  <1>1. n \in Nat /\ DOMAIN s = 1..n /\ \A i \in 1..n : s[i] \in Numbers
    OBVIOUS
  <1>2. K \subseteq 1..n /\ 1..n \subseteq Int /\ IsFiniteSet(1..n)
    BY <1>1, FS_Interval
  <1>3. kept \in Seq(K) /\ Range(kept) = K /\ Ascending(kept)
    <2> HIDE DEF K, n
    <2>1. K \in SUBSET Int /\ IsFiniteSet(K)
      BY <1>2, FS_Subset
    <2> QED BY <2>1, InOrderProperties
  <1>4. PICK k \in Nat : DOMAIN kept = 1..k /\ \A i \in 1..k : kept[i] \in K
    <2> HIDE DEF kept, K
    <2>1. kept \in Seq(K)
      BY <1>3
    <2> QED BY <2>1
  <1> HIDE DEF kept
  <1>5. DOMAIN w = 1..k /\ \A i \in 1..k : w[i] = s[kept[i]] /\ kept[i] \in 1..n /\ w[i] \notin T
    BY <1>2, <1>4
  <1>6. w \in Seq(Numbers)
    <2>1. \A i \in 1..k : w[i] \in Numbers
      BY <1>1, <1>5
    <2>2. w = [i \in 1..k |-> w[i]]
      BY <1>4
    <2>3. w \in [1..k -> Numbers]
      BY <2>1, <2>2
    <2> QED BY <2>3
  <1>7. Range(w) = Range(s) \ T
    <2>1. ASSUME NEW x \in Range(w) PROVE x \in Range(s) \ T
      <3>1. PICK i \in 1..k : x = w[i]
        BY <1>5, <2>1 DEF Range
      <3> QED BY <1>1, <1>5, <3>1 DEF Range
    <2>2. ASSUME NEW x \in Range(s) \ T PROVE x \in Range(w)
      <3>1. PICK j \in K : x = s[j]
        BY <2>2 DEF Range
      <3>2. PICK i \in 1..k : kept[i] = j
        BY <1>3, <1>4, <3>1 DEF Range
      <3>3. w[i] = x
        BY <1>5, <3>1, <3>2
      <3> QED BY <1>5, <3>3 DEF Range
    <2> QED BY <2>1, <2>2
  <1>8. ASSUME Ascending(s) PROVE Ascending(w)
    <2> SUFFICES ASSUME NEW i \in 1..k, NEW j \in 1..k, i < j PROVE w[i] < w[j]
      BY <1>5 DEF Ascending
    <2>1. kept[i] < kept[j] /\ kept[i] \in 1..n /\ kept[j] \in 1..n
      BY <1>3, <1>4, <1>5 DEF Ascending
    <2> QED BY <1>1, <1>5, <1>8, <2>1 DEF Ascending
  <1>9. Without(s, T) = w
    BY DEF Without, kept
  <1> HIDE DEF w
  <1> QED BY <1>6, <1>7, <1>8, <1>9

\* Two beginnings of what is stored: one holds the other.
LEMMA MergedIsUnion ==
  ASSUME db \in Seq(Numbers), NEW rows, NEW current, Gapless(rows), Gapless(current)
  PROVE  Merged(rows, current) = rows \cup current
  <1> SUFFICES ASSUME current # {}, Newest(current) >= Newest(rows)
               PROVE  rows \subseteq current
    BY DEF Merged
  <1>1. Stored \subseteq Numbers /\ Numbers \subseteq Int
    BY StreamAssumption DEF Stored, Range, Numbers, None
  <1>2. rows \in SUBSET Numbers /\ current \in SUBSET Numbers
    BY <1>1 DEF Gapless
  <1>3. /\ Newest(current) \in current /\ Newest(rows) \in Numbers
        /\ \A n \in rows : n <= Newest(rows)
    BY <1>2, NewestProperties
  <1>4. Newest(current) \in Int /\ Newest(rows) \in Int /\ rows \subseteq Int
    BY <1>1, <1>2, <1>3
  <1>5. ASSUME NEW n \in rows PROVE n \in current
    <2>1. n = Newest(current) \/ n < Newest(current)
      BY <1>3, <1>4
    <2> QED BY <1>3, <2>1 DEF Gapless
  <1> QED BY <1>5

-----------------------------------------------------------------------------
(* The invariant.                                                          *)
-----------------------------------------------------------------------------
\* Where the next connection of r resumes, and where the present one has come to.
Resume(r) == Later(source[r].url, source[r].lastId)

-----------------------------------------------------------------------------
SourceStates == {"off", "asked", "replaying", "replayed", "live", "retrying", "waiting",
                 "exhausted"}

Subs    == [after : Numbers, history : Seq(Numbers), buffer : Seq(Numbers)]
Sources == [state : SourceStates, url : Numbers, lastId : Numbers, attempts : 0..MaxAttempts]
Tabs    == [cursor : Numbers, seen : SUBSET Numbers, pending : Seq(Numbers),
            rows : SUBSET Numbers, cached : SUBSET Numbers]

\* The types, with the shape of every record.
StreamTypes ==
    /\ emitted \in 0..MaxEvents /\ queue \in 0..emitted
    /\ hub \in {"free", "writing", "written"}
    /\ event \in Numbers /\ nextIdx \in Numbers /\ db \in Seq(Numbers)
    /\ sub \in [Readers -> Subs]
    /\ wire \in [Readers -> Seq(Numbers)]
    /\ source \in [Readers -> Sources]
    /\ tab \in [Readers -> Tabs]
    /\ resync \in [Readers -> [phase : {"idle", "asked", "returned"}, rows : SUBSET Numbers]]
    /\ timeline \in [phase : {"idle", "asked", "read"}, rows : SUBSET Numbers]

\* Numbers grow, and none is given twice; there is one for each call that has begun.
HubInv ==
    /\ Ascending(db)
    /\ \A n \in Stored : 0 <= n /\ n < emitted - queue
    /\ nextIdx # None => /\ 0 <= nextIdx /\ nextIdx <= emitted - queue
                         /\ \A n \in Stored : n < nextIdx
    /\ hub = "writing" => /\ 0 <= event /\ event < emitted - queue /\ nextIdx = event + 1
                          /\ \A n \in Stored : n < event
    /\ hub = "written" => /\ event \in Stored /\ nextIdx # None
                          /\ \A n \in Stored : n <= event

\* A client shows what is stored up to its cursor, and rows and snapshots are
\* beginnings of what is stored.
TabInv(r) ==
    /\ tab[r].cursor \in Stored \cup {None}
    /\ Shown(r) = {n \in Stored : n <= tab[r].cursor}
    /\ Gapless(tab[r].rows) /\ Gapless(tab[r].cached)
    /\ tab[r].cached \subseteq tab[r].rows /\ tab[r].seen \subseteq Shown(r)
    /\ resync[r].phase = "returned" => Gapless(resync[r].rows)

\* What lies ahead of the stream, up to the cursor, was brought by a snapshot.
AheadOfStream(r) ==
    /\ Resume(r) <= tab[r].cursor
    /\ \A n \in Range(tab[r].pending) : n <= Resume(r)
    /\ \A n \in Stored :
          n <= tab[r].cursor /\ (Resume(r) < n \/ (Resume(r) = n /\ n < tab[r].cursor))
             => n \in tab[r].rows \cap tab[r].seen

\* Stored, but not handed to the listeners yet.
Undelivered(n) == hub = "written" /\ n = event

\* A connection that is being set up.
SetupInv(r) ==
    /\ sub[r].after = Resume(r)
    /\ Ascending(sub[r].buffer)
    /\ \A n \in Range(sub[r].buffer) : n \in Stored /\ n > sub[r].after /\ ~Undelivered(n)
    /\ source[r].state = "replayed" =>
          /\ Ascending(sub[r].history)
          /\ \A n \in Range(sub[r].history) : n \in Stored /\ n > sub[r].after
          /\ \A n \in Range(sub[r].history), m \in Stored :
                sub[r].after < m /\ m < n => m \in Range(sub[r].history)
          /\ \A n \in Stored : n > sub[r].after =>
                \/ n \in Range(sub[r].history) \/ n \in Range(sub[r].buffer)
                \/ Undelivered(n)

\* A connection that follows the hub.
LiveConnectionInv(r) ==
    /\ sub[r].after <= Resume(r)
    /\ \A i, j \in DOMAIN wire[r] : i < j => wire[r][i] <= wire[r][j]
    /\ \A n \in Range(wire[r]) : n \in Stored /\ Resume(r) <= n
    /\ \A n \in Stored : n > Resume(r) => n \in Range(wire[r]) \/ Undelivered(n)

ConnectionInv(r) ==
    /\ source[r].state \in {"replaying", "replayed"} => SetupInv(r)
    /\ source[r].state = "live" => LiveConnectionInv(r)
    /\ source[r].state # "live" => wire[r] = << >>

ReaderInv(r) == TabInv(r) /\ AheadOfStream(r) /\ ConnectionInv(r)

StreamInv ==
    /\ StreamTypes
    /\ HubInv
    /\ timeline.phase = "read" => Gapless(timeline.rows)
    /\ \A r \in Readers : ReaderInv(r)

-----------------------------------------------------------------------------
\* The numbers are integers, and there are few of them.
LEMMA NumbersAreIntegers ==
  /\ Numbers \subseteq Int /\ None \in Numbers /\ None = -1 /\ MaxEvents \in Nat
  /\ \A i \in Int : i \in Numbers <=> -1 <= i /\ i <= MaxEvents + 1
  /\ \A i, j \in Numbers : Later(i, j) \in Numbers
  BY StreamAssumption DEF Numbers, None, Later

\* The parts of the state of one reader, typed.
LEMMA ReaderTypes ==
  ASSUME StreamTypes, NEW r \in Readers
  PROVE  /\ sub[r].after \in Numbers /\ sub[r].history \in Seq(Numbers)
         /\ sub[r].buffer \in Seq(Numbers) /\ wire[r] \in Seq(Numbers)
         /\ source[r].state \in SourceStates /\ source[r].url \in Numbers
         /\ source[r].lastId \in Numbers /\ source[r].attempts \in 0..MaxAttempts
         /\ tab[r].cursor \in Numbers /\ tab[r].seen \in SUBSET Numbers
         /\ tab[r].pending \in Seq(Numbers) /\ tab[r].rows \in SUBSET Numbers
         /\ tab[r].cached \in SUBSET Numbers
         /\ resync[r].phase \in {"idle", "asked", "returned"}
         /\ resync[r].rows \in SUBSET Numbers
         /\ Resume(r) \in Numbers /\ Range(tab[r].pending) \subseteq Numbers
         /\ Shown(r) \in SUBSET Numbers
         /\ Stored \in SUBSET Numbers
  <1>1. /\ sub[r].after \in Numbers /\ sub[r].history \in Seq(Numbers)
        /\ sub[r].buffer \in Seq(Numbers) /\ wire[r] \in Seq(Numbers)
        /\ source[r].state \in SourceStates /\ source[r].url \in Numbers
        /\ source[r].lastId \in Numbers /\ source[r].attempts \in 0..MaxAttempts
    BY DEF StreamTypes, Subs, Sources
  <1>2. /\ tab[r].cursor \in Numbers /\ tab[r].seen \in SUBSET Numbers
        /\ tab[r].pending \in Seq(Numbers) /\ tab[r].rows \in SUBSET Numbers
        /\ tab[r].cached \in SUBSET Numbers
        /\ resync[r].phase \in {"idle", "asked", "returned"}
        /\ resync[r].rows \in SUBSET Numbers
    BY DEF StreamTypes, Tabs
  <1>3. Resume(r) \in Numbers
    BY <1>1, NumbersAreIntegers DEF Resume
  <1>4. Range(tab[r].pending) \subseteq Numbers /\ Stored \subseteq Numbers
    BY <1>2 DEF Range, Stored, StreamTypes
  <1> QED BY <1>1, <1>2, <1>3, <1>4 DEF Shown

\* A reader of whom nothing changed, while nothing was stored or handed out.
LEMMA Unmoved ==
  ASSUME NEW q \in Readers, ReaderInv(q), db' = db,
         \A n : Undelivered(n)' = Undelivered(n),
         sub'[q] = sub[q], wire'[q] = wire[q], source'[q] = source[q], tab'[q] = tab[q],
         resync'[q] = resync[q] \/ resync'[q].phase # "returned"
  PROVE  ReaderInv(q)'
  <1>1. Stored' = Stored /\ Shown(q)' = Shown(q) /\ Resume(q)' = Resume(q)
    BY DEF Stored, Shown, Resume
  <1>2. \A S : Gapless(S)' <=> Gapless(S)
    BY <1>1 DEF Gapless
  <1>3. TabInv(q)'
    BY <1>1, <1>2 DEF ReaderInv, TabInv, Gapless
  <1>4. AheadOfStream(q)'
    BY <1>1 DEF ReaderInv, AheadOfStream
  <1>5. ConnectionInv(q)'
    BY <1>1 DEF ReaderInv, ConnectionInv, SetupInv, LiveConnectionInv
  <1> QED BY <1>3, <1>4, <1>5 DEF ReaderInv

\* The same for a step of one reader, that leaves the hub alone.
LEMMA OthersUnmoved ==
  ASSUME NEW r \in Readers, \A q \in Readers : ReaderInv(q),
         UNCHANGED <<db, hub, event>>,
         \A q \in Readers \ {r} :
            /\ sub'[q] = sub[q] /\ wire'[q] = wire[q] /\ source'[q] = source[q]
            /\ tab'[q] = tab[q] /\ resync'[q] = resync[q],
         ReaderInv(r)'
  PROVE  \A q \in Readers : ReaderInv(q)'
  <1>1. \A n : Undelivered(n)' = Undelivered(n)
    BY DEF Undelivered
  <1> QED BY <1>1, Unmoved

-----------------------------------------------------------------------------
\* The types hold in the beginning, and every step keeps them.
LEMMA TypesAtFirst == StreamInit => StreamTypes
  <1> SUFFICES ASSUME StreamInit PROVE StreamTypes
    OBVIOUS
  <1> USE StreamAssumption, NumbersAreIntegers
  <1>1. << >> \in Seq(Numbers) /\ 0 \in 0..MaxAttempts
    OBVIOUS
  <1> QED BY <1>1 DEF StreamInit, StreamTypes, Subs, Sources, Tabs, NoSub, NoTab, Idle, SourceStates

\* What a client makes of a snapshot, or of what it has accepted, has the types of
\* its state.
LEMMA TabTypes ==
  ASSUME NEW t \in Tabs,
         NEW S \in SUBSET Numbers
  PROVE  /\ Synced(t, S) \in Tabs
         /\ Flushed(t) \in Tabs
  <1>1. /\ t.cursor \in Numbers /\ t.seen \in SUBSET Numbers /\ t.pending \in Seq(Numbers)
        /\ t.rows \in SUBSET Numbers /\ t.cached \in SUBSET Numbers
    BY DEF Tabs
  <1>2. Newest(S) \in Numbers
    BY NewestProperties
  <1>3. Range(t.pending) \ t.rows \in SUBSET Numbers
    BY <1>1 DEF Range
  <1>4. Newest(Range(t.pending) \ t.rows) \in Numbers
    BY <1>3, NewestProperties
  <1>5. Later(t.cursor, Newest(S)) \in Numbers
    BY <1>1, <1>2, NumbersAreIntegers
  <1>6. Later(t.cursor, Newest(Range(t.pending) \ t.rows)) \in Numbers
    BY <1>1, <1>4, NumbersAreIntegers
  <1>7. Synced(t, S) \in Tabs
    BY <1>1, <1>5 DEF Synced, Tabs
  <1>8. t.rows \cup (Range(t.pending) \ t.rows) \in SUBSET Numbers
    BY <1>1, <1>3
  <1>9. << >> \in Seq(Numbers)
    OBVIOUS
  <1>10. Flushed(t) \in Tabs
    BY <1>6, <1>8, <1>9 DEF Flushed, Tabs
  <1> QED BY <1>7, <1>10

\* A connection that was lost has the type of a connection.
LEMMA LostType ==
  ASSUME StreamTypes, NEW r \in Readers, NEW retried \in BOOLEAN
  PROVE  Lost(source[r], retried) \in Sources
  <1>1. source[r] \in Sources
    BY DEF StreamTypes
  <1>2. /\ [source[r] EXCEPT !.state = "retrying"] \in Sources
        /\ [source[r] EXCEPT !.state = "exhausted"] \in Sources
    BY <1>1 DEF Sources, SourceStates
  <1>3. ASSUME source[r].attempts < MaxAttempts
        PROVE  [source[r] EXCEPT !.state = "waiting", !.attempts = @ + 1] \in Sources
    <2>1. source[r].attempts + 1 \in 0..MaxAttempts
      BY <1>1, <1>3, StreamAssumption DEF Sources
    <2> QED BY <1>1, <2>1 DEF Sources, SourceStates
  <1> QED BY <1>2, <1>3 DEF Lost

\* Every step keeps the types.
LEMMA TypesKept ==
  ASSUME StreamTypes, HubInv, StreamNext
  PROVE  StreamTypes'
  <1>0. /\ << >> \in Seq(Numbers) /\ {} \in SUBSET Numbers /\ None \in Numbers
        /\ 0 \in 0..MaxAttempts /\ NoSub \in Subs
    BY NumbersAreIntegers, StreamAssumption DEF NoSub, Subs
  <1>1. CASE Emit
    <2>1. emitted' \in 0..MaxEvents /\ queue' \in 0..emitted'
      BY <1>1, NumbersAreIntegers DEF Emit, StreamTypes
    <2> QED BY <1>1, <2>1 DEF Emit, StreamTypes
  <1>2. CASE Number
    <2>1. Range(db) \in SUBSET Numbers
      BY DEF StreamTypes, Range
    <2>2. /\ Newest(Range(db)) \in Numbers
          /\ Range(db) # {} => Newest(Range(db)) \in Range(db)
          /\ Range(db) = {} => Newest(Range(db)) = None
      BY <2>1, NewestProperties
    <2>3. emitted \in 0..MaxEvents /\ queue \in 0..emitted /\ queue > 0
      BY <1>2 DEF Number, StreamTypes
    <2>4. Newest(Range(db)) + 1 \in 0..(emitted - queue)
      <3>1. CASE Range(db) = {}
        BY <2>2, <2>3, <3>1, NumbersAreIntegers
      <3>2. CASE Range(db) # {}
        <4>1. 0 <= Newest(Range(db)) /\ Newest(Range(db)) < emitted - queue
          BY <2>2, <3>2 DEF HubInv, Stored
        <4>2. Newest(Range(db)) \in Int
          BY <2>2, NumbersAreIntegers
        <4> QED BY <2>3, <4>1, <4>2
      <3> QED BY <3>1, <3>2
    <2>5. event' \in 0..(emitted - queue) /\ nextIdx' = event' + 1
      <3>1. nextIdx # None => nextIdx \in 0..(emitted - queue)
        BY <2>3, NumbersAreIntegers DEF HubInv, StreamTypes
      <3> QED BY <1>2, <2>4, <3>1 DEF Number
    <2>6. event' \in Numbers /\ nextIdx' \in Numbers
      BY <2>3, <2>5, NumbersAreIntegers
    <2> QED BY <1>2, <2>3, <2>6 DEF Number, StreamTypes
  <1>3. CASE Write
    <2>1. db' \in Seq(Numbers)
      BY <1>3 DEF Write, StreamTypes
    <2> QED BY <1>3, <2>1 DEF Write, StreamTypes
  <1>4. CASE WriteFails
    BY <1>4 DEF WriteFails, StreamTypes
  <1>5. CASE Deliver
    <2>1. ASSUME NEW r \in Readers
          PROVE  /\ sub[r] \in Subs
                 /\ [sub[r] EXCEPT !.buffer = Append(@, event)]
                      \in Subs
                 /\ wire[r] \in Seq(Numbers) /\ Append(wire[r], event) \in Seq(Numbers)
      <3>1. /\ sub[r] \in Subs
            /\ wire[r] \in Seq(Numbers) /\ event \in Numbers
        BY DEF StreamTypes
      <3>2. Append(sub[r].buffer, event) \in Seq(Numbers) /\ Append(wire[r], event) \in Seq(Numbers)
        <4>1. sub[r].buffer \in Seq(Numbers)
          BY <3>1 DEF Subs
        <4> QED BY <3>1, <4>1
      <3> QED BY <3>1, <3>2 DEF Subs
    <2>2. /\ sub' \in [Readers -> Subs]
          /\ wire' \in [Readers -> Seq(Numbers)]
      BY <1>5, <2>1 DEF Deliver
    <2> QED BY <1>5, <2>2 DEF Deliver, StreamTypes
  <1>6. ASSUME NEW r \in Readers, Subscribe(r) PROVE StreamTypes'
    <2>1. Later(source[r].url, source[r].lastId) \in Numbers
      BY ReaderTypes, NumbersAreIntegers
    <2>2. [NoSub EXCEPT !.after = Later(source[r].url, source[r].lastId)] \in Subs
      BY <1>0, <2>1 DEF NoSub, Subs
    <2>3. [source[r] EXCEPT !.state = "replaying", !.attempts = 0] \in Sources
      BY ZenonT(60), <1>0 DEF StreamTypes, Sources, SourceStates
    <2>4. sub' \in [Readers -> Subs] /\ source' \in [Readers -> Sources]
      BY <1>6, <2>2, <2>3 DEF Subscribe, StreamTypes
    <2> QED BY <1>6, <2>4 DEF Subscribe, StreamTypes, hubVars
  <1>7. ASSUME NEW r \in Readers, ReadHistory(r) PROVE StreamTypes'
    <2>1. After(db, sub[r].after) \in Seq(Numbers)
      BY AfterProperties DEF StreamTypes
    <2>2. [sub[r] EXCEPT !.history = After(db, sub[r].after)] \in Subs
      BY <2>1 DEF StreamTypes, Subs
    <2>3. [source[r] EXCEPT !.state = "replayed"] \in Sources
      BY ZenonT(60) DEF StreamTypes, Sources, SourceStates
    <2>4. sub' \in [Readers -> Subs] /\ source' \in [Readers -> Sources]
      BY <1>7, <2>2, <2>3 DEF ReadHistory, StreamTypes
    <2> QED BY <1>7, <2>4 DEF ReadHistory, StreamTypes, hubVars
  <1>8. ASSUME NEW r \in Readers, FlushHistory(r) PROVE StreamTypes'
    <2>1. Without(sub[r].buffer, Range(sub[r].history)) \in Seq(Numbers)
      BY ReaderTypes, WithoutProperties
    <2>2. sub[r].history \o Without(sub[r].buffer, Range(sub[r].history)) \in Seq(Numbers)
      BY <2>1, ReaderTypes
    <2>3. [sub[r] EXCEPT !.history = << >>, !.buffer = << >>] \in Subs
      BY <1>0 DEF StreamTypes, Subs
    <2>4. [source[r] EXCEPT !.state = "live"] \in Sources
      BY ZenonT(60) DEF StreamTypes, Sources, SourceStates
    <2>5. sub' \in [Readers -> Subs] /\ source' \in [Readers -> Sources]
      BY <1>8, <2>3, <2>4 DEF FlushHistory, StreamTypes
    <2>6. wire' \in [Readers -> Seq(Numbers)]
      BY <1>8, <2>2 DEF FlushHistory, StreamTypes
    <2> QED BY <1>8, <2>5, <2>6 DEF FlushHistory, StreamTypes, hubVars
  <1>9. ASSUME NEW r \in Readers, StartStream(r) PROVE StreamTypes'
    <2> DEFINE t == Synced(tab[r], tab[r].cached)
               c == Later(t.cursor, Newest(t.rows))
    <2>1. t \in Tabs
      BY ReaderTypes, TabTypes DEF StreamTypes
    <2>2. c \in Numbers
      <3>1. t.cursor \in Numbers /\ t.rows \in SUBSET Numbers
        BY <2>1 DEF Tabs
      <3> HIDE DEF t
      <3> QED BY <3>1, NewestProperties, NumbersAreIntegers
    <2>3. /\ tab' = [tab EXCEPT ![r] = [t EXCEPT !.cursor = c]]
          /\ source' = [source EXCEPT ![r].state = "asked", ![r].url = c, ![r].lastId = None]
          /\ UNCHANGED <<hubVars, sub, wire, resync, timeline>>
      BY <1>9 DEF StartStream
    <2> HIDE DEF t, c
    <2>4. [t EXCEPT !.cursor = c] \in Tabs
      BY <2>1, <2>2 DEF Tabs
    <2>5. tab' \in [Readers -> Tabs]
      BY <2>3, <2>4 DEF StreamTypes
    <2>6. [source[r] EXCEPT !.state = "asked", !.url = c, !.lastId = None] \in Sources
      BY ZenonT(60), <1>0, <2>2 DEF StreamTypes, Sources, SourceStates
    <2>7. source' \in [Readers -> Sources]
      BY <2>3, <2>6 DEF StreamTypes
    <2> QED BY <2>3, <2>5, <2>7 DEF StreamTypes, hubVars
  <1>10. ASSUME NEW r \in Readers, Receive(r) PROVE StreamTypes'
    <2> DEFINE n == Head(wire[r])
    <2>1. n \in Numbers /\ Tail(wire[r]) \in Seq(Numbers)
      BY <1>10, ReaderTypes DEF Receive
    <2>2. [tab[r] EXCEPT !.seen = @ \cup {n}, !.cursor = Later(@, n),
                         !.pending = Append(@, n)] \in Tabs
      <3>1. /\ tab[r].seen \cup {n} \in SUBSET Numbers
            /\ Later(tab[r].cursor, n) \in Numbers
            /\ Append(tab[r].pending, n) \in Seq(Numbers)
        <4> HIDE DEF n
        <4>1. /\ tab[r].seen \in SUBSET Numbers /\ tab[r].cursor \in Numbers
              /\ tab[r].pending \in Seq(Numbers)
          BY ReaderTypes
        <4>2. Later(tab[r].cursor, n) \in Numbers
          BY <2>1, <4>1, NumbersAreIntegers
        <4>3. Append(tab[r].pending, n) \in Seq(Numbers)
          BY <2>1, <4>1
        <4> QED BY <2>1, <4>1, <4>2, <4>3
      <3>2. tab[r] \in Tabs
        BY DEF StreamTypes
      <3> HIDE DEF n
      <3> QED BY <3>1, <3>2 DEF Tabs
    <2>3. tab' \in [Readers -> Tabs]
      BY <1>10, <2>2 DEF Receive, StreamTypes
    <2>4. wire' \in [Readers -> Seq(Numbers)]
      BY <1>10, <2>1 DEF Receive, StreamTypes
    <2>5. source' = [source EXCEPT ![r].lastId = n] /\ UNCHANGED <<hubVars, sub, resync, timeline>>
      BY <1>10 DEF Receive
    <2> HIDE DEF n
    <2>6. [source[r] EXCEPT !.lastId = n] \in Sources
      BY ZenonT(60), <2>1 DEF StreamTypes, Sources
    <2> QED BY <2>3, <2>4, <2>5, <2>6 DEF StreamTypes, hubVars
  <1>11. ASSUME NEW r \in Readers, Frame(r) PROVE StreamTypes'
    <2>1. Flushed(tab[r]) \in Tabs
      BY <1>0, TabTypes DEF StreamTypes
    <2> QED BY <1>11, <2>1 DEF Frame, StreamTypes, hubVars
  <1>12. ASSUME NEW r \in Readers, Unmount(r) PROVE StreamTypes'
    <2>1. Flushed(tab[r]) \in Tabs
      BY <1>0, TabTypes DEF StreamTypes
    <2>2. [source[r] EXCEPT !.state = "off"] \in Sources
      BY ZenonT(60) DEF StreamTypes, Sources, SourceStates
    <2>3. Idle \in [phase : {"idle", "asked", "returned"}, rows : SUBSET Numbers]
      BY <1>0 DEF Idle
    <2>4. /\ sub' \in [Readers -> Subs] /\ source' \in [Readers -> Sources]
          /\ wire' \in [Readers -> Seq(Numbers)] /\ tab' \in [Readers -> Tabs]
          /\ resync' \in [Readers -> [phase : {"idle", "asked", "returned"}, rows : SUBSET Numbers]]
      BY <1>0, <1>12, <2>1, <2>2, <2>3 DEF Unmount, StreamTypes
    <2> QED BY <1>12, <2>4 DEF Unmount, StreamTypes, hubVars
  <1>13. ASSUME NEW r \in Readers, Drop(r) PROVE StreamTypes'
    <2>1. ASSUME NEW retried \in BOOLEAN
          PROVE  Lost(source[r], retried) \in Sources
      BY LostType
    <2>2. source' \in [Readers -> Sources]
      BY <1>13, <2>1 DEF Drop, StreamTypes
    <2> QED BY <1>0, <1>13, <2>2 DEF Drop, StreamTypes, hubVars
  <1>14. ASSUME NEW r \in Readers, Retry(r) PROVE StreamTypes'
    BY ZenonT(60), <1>14 DEF Retry, StreamTypes, Sources, hubVars, SourceStates
  <1>15. ASSUME NEW r \in Readers, Resync(r) PROVE StreamTypes'
    BY <1>0, <1>15 DEF Resync, StreamTypes, hubVars, Idle
  <1>16. CASE ReadTimeline
    <2>1. Range(db) \in SUBSET Numbers
      BY DEF StreamTypes, Range
    <2> QED BY <1>16, <2>1 DEF ReadTimeline, StreamTypes, hubVars
  <1>17. CASE ReturnTimeline
    BY <1>0, <1>17 DEF ReturnTimeline, StreamTypes, hubVars, Idle
  <1>18. ASSUME NEW r \in Readers, ApplyTimeline(r) PROVE StreamTypes'
    <2> DEFINE rows == Merged(resync[r].rows, tab[r].rows)
               t == [tab[r] EXCEPT !.cached = resync[r].rows, !.rows = rows, !.seen = rows,
                                   !.cursor = Later(@, Newest(rows))]
    <2>1. resync[r].rows \in SUBSET Numbers /\ rows \in SUBSET Numbers
      BY ReaderTypes DEF Merged
    <2>2. t \in Tabs
      <3>1. tab[r] \in Tabs /\ Later(tab[r].cursor, Newest(rows)) \in Numbers
        <4> HIDE DEF rows
        <4>1. Newest(rows) \in Numbers
          BY <2>1, NewestProperties
        <4> QED BY <4>1, ReaderTypes, NumbersAreIntegers DEF StreamTypes
      <3> HIDE DEF rows
      <3> QED BY <2>1, <3>1 DEF Tabs
    <2>3. Synced(t, resync[r].rows) \in Tabs
      <3> HIDE DEF t
      <3> QED BY <2>1, <2>2, TabTypes
    <2>4. /\ tab' = [tab EXCEPT ![r] = Synced(t, resync[r].rows)]
          /\ resync' = [resync EXCEPT ![r] = Idle]
          /\ UNCHANGED <<hubVars, sub, wire, source, timeline>>
      BY <1>18 DEF ApplyTimeline
    <2> HIDE DEF t
    <2> QED BY <1>0, <2>3, <2>4 DEF StreamTypes, hubVars, Idle
  <1>19. CASE Restart
    <2>1. ASSUME NEW r \in Readers, NEW retried \in BOOLEAN
          PROVE  Lost(source[r], retried) \in Sources
      BY LostType
    <2>2. source' \in [Readers -> Sources]
      <3>1. PICK retried \in SUBSET {r \in Readers : Connected(r)} :
               source' = [r \in Readers |->
                            IF Connected(r) THEN Lost(source[r], r \in retried) ELSE source[r]]
        BY <1>19 DEF Restart
      <3>2. ASSUME NEW r \in Readers
            PROVE  /\ Lost(source[r], r \in retried) \in
                         Sources
                   /\ source[r] \in Sources
        <4>1. (r \in retried) \in BOOLEAN
          OBVIOUS
        <4> QED BY <2>1, <4>1 DEF StreamTypes
      <3> QED BY <3>1, <3>2
    <2>3. /\ sub' \in [Readers -> Subs]
          /\ wire' \in [Readers -> Seq(Numbers)]
          /\ timeline' \in [phase : {"idle", "asked", "read"}, rows : SUBSET Numbers]
          /\ resync' \in [Readers -> [phase : {"idle", "asked", "returned"}, rows : SUBSET Numbers]]
      BY <1>0, <1>19 DEF Restart, StreamTypes, Idle
    <2>4. queue' \in 0..emitted /\ hub' \in {"free", "writing", "written"} /\ nextIdx' \in Numbers
      BY <1>0, <1>19 DEF Restart, StreamTypes
    <2>5. UNCHANGED <<emitted, event, db, tab>>
      BY <1>19 DEF Restart
    <2> QED BY <2>2, <2>3, <2>4, <2>5 DEF StreamTypes
  <1> QED BY <1>1, <1>2, <1>3, <1>4, <1>5, <1>6, <1>7, <1>8, <1>9, <1>10, <1>11, <1>12, <1>13,
             <1>14, <1>15, <1>16, <1>17, <1>18, <1>19
          DEF StreamNext, Hub, Route, Client

-----------------------------------------------------------------------------
\* The hub keeps its numbers in order.
LEMMA HubKept ==
  ASSUME StreamTypes, HubInv, StreamNext
  PROVE  HubInv'
  <1>1. /\ Stored \subseteq Int /\ emitted \in Int /\ queue \in Int /\ event \in Int /\ nextIdx \in Int
        /\ emitted \in Nat /\ queue \in 0..emitted /\ db \in Seq(Numbers)
    <2>1. Stored \subseteq Numbers /\ db \in Seq(Numbers) /\ event \in Numbers /\ nextIdx \in Numbers
      BY DEF StreamTypes, Stored, Range
    <2>2. emitted \in Nat /\ queue \in 0..emitted
      BY NumbersAreIntegers DEF StreamTypes
    <2> QED BY <2>1, <2>2, NumbersAreIntegers
  <1>2. CASE UNCHANGED hubVars
    BY <1>2 DEF hubVars, HubInv, Stored
  <1>3. CASE Emit
    <2>1. emitted' - queue' = emitted - queue
      BY <1>1, <1>3 DEF Emit
    <2> QED BY <1>3, <2>1 DEF Emit, HubInv, Stored
  <1>4. CASE Number
    <2>1. emitted' - queue' = (emitted - queue) + 1 /\ UNCHANGED db /\ hub' = "writing"
      BY <1>1, <1>4 DEF Number
    <2>2. Stored' = Stored
      BY <2>1 DEF Stored
    <2>3. /\ event' \in Int /\ nextIdx' = event' + 1
          /\ 0 <= event' /\ event' < emitted' - queue' /\ \A n \in Stored : n < event'
      <3>1. CASE nextIdx # None
        BY <1>1, <1>4, <2>1, <3>1 DEF Number, HubInv
      <3>2. CASE nextIdx = None
        <4>1. Stored \in SUBSET Numbers
          BY <1>1 DEF Stored, Range
        <4>2. /\ Newest(Stored) \in Int
              /\ Stored = {} => Newest(Stored) = -1
              /\ Stored # {} => Newest(Stored) \in Stored
              /\ \A n \in Stored : n <= Newest(Stored)
          BY <4>1, NewestProperties, NumbersAreIntegers
        <4>3. event' = Newest(Stored) + 1 /\ nextIdx' = event' + 1
          BY <1>4, <3>2 DEF Number, Stored
        <4>4. 0 <= event' /\ event' < emitted' - queue'
          <5>1. CASE Stored = {}
            <6>1. event' = 0 /\ emitted - queue \in Nat
              BY <1>1, <4>2, <4>3, <5>1
            <6> QED BY <2>1, <6>1
          <5>2. CASE Stored # {}
            <6>1. 0 <= Newest(Stored) /\ Newest(Stored) < emitted - queue
              BY <4>2, <5>2 DEF HubInv
            <6> QED BY <1>1, <2>1, <4>2, <4>3, <6>1
          <5> QED BY <5>1, <5>2
        <4> QED BY <1>1, <4>2, <4>3, <4>4
      <3> QED BY <3>1, <3>2
    <2>4. /\ Ascending(db') /\ \A n \in Stored' : 0 <= n /\ n < emitted' - queue'
      BY <1>1, <2>1, <2>2 DEF HubInv
    <2>5. /\ 0 <= nextIdx' /\ nextIdx' <= emitted' - queue' /\ \A n \in Stored' : n < nextIdx'
      <3>1. PICK e \in Int, k \in Int :
                /\ nextIdx' = e + 1 /\ emitted' - queue' = k
                /\ 0 <= e /\ e < k /\ \A n \in Stored : n < e
        <4>1. emitted' - queue' \in Int
          BY <1>1, <2>1
        <4> QED BY <2>3, <4>1
      <3>2. 0 <= e + 1 /\ e + 1 <= k
        BY <3>1
      <3>3. ASSUME NEW n \in Stored PROVE n < e + 1
        <4>1. n \in Int /\ n < e
          BY <1>1, <3>1
        <4> QED BY <4>1
      <3> QED BY <2>2, <3>1, <3>2, <3>3
    <2> QED BY <2>1, <2>2, <2>3, <2>4, <2>5 DEF HubInv
  <1>5. CASE Write
    <2>1. /\ db' = Append(db, event) /\ hub = "writing" /\ hub' = "written"
          /\ UNCHANGED <<emitted, queue, event, nextIdx>>
      BY <1>5 DEF Write
    <2>2. Stored' = Stored \cup {event}
      BY <1>1, <2>1, RangeOfAppend DEF Stored
    <2>3. Ascending(db')
      <3>1. \A n \in Stored : n < event
        BY <2>1 DEF HubInv
      <3>2. \A i \in DOMAIN db : db[i] < event
        BY <3>1 DEF Stored, Range
      <3>3. Ascending(db)
        BY DEF HubInv
      <3> QED BY <1>1, <2>1, <3>2, <3>3, AppendAscends
    <2> QED BY <1>1, <2>1, <2>2, <2>3, NumbersAreIntegers DEF HubInv
  <1>6. CASE WriteFails
    BY <1>6 DEF WriteFails, HubInv, Stored
  <1>7. CASE Deliver
    BY <1>7 DEF Deliver, HubInv, Stored
  <1>8. CASE Restart
    BY <1>1, <1>8 DEF Restart, HubInv, Stored
  <1> QED BY ZenonT(60), <1>2, <1>3, <1>4, <1>5, <1>6, <1>7, <1>8
          DEF StreamNext, Hub, Route, Client, Subscribe, ReadHistory, FlushHistory, StartStream,
              Receive, Frame, Unmount, Drop, Retry, Resync, ReadTimeline, ReturnTimeline,
              ApplyTimeline

-----------------------------------------------------------------------------
(* The hub's steps, seen by a reader.                                      *)
-----------------------------------------------------------------------------
\* What is stored is ahead of every cursor, and not handed out yet.
LEMMA WriteSeen ==
  ASSUME StreamInv, Write, NEW r \in Readers
  PROVE  ReaderInv(r)'
  <1>1. /\ db \in Seq(Numbers) /\ db' = Append(db, event) /\ hub = "writing" /\ hub' = "written"
        /\ UNCHANGED <<event, sub, wire, source, tab, resync>>
    BY DEF Write, StreamInv, StreamTypes
  <1>2. Stored' = Stored \cup {event}
    BY <1>1, RangeOfAppend DEF Stored
  <1>3. Shown(r)' = Shown(r) /\ Resume(r)' = Resume(r)
    BY <1>1 DEF Shown, Resume
  <1>4. /\ event \in Int /\ 0 <= event /\ \A n \in Stored : n < event
        /\ Stored \subseteq Int /\ Resume(r) \in Int /\ tab[r].cursor \in Int
        /\ sub[r].after \in Int
    BY <1>1, ReaderTypes, NumbersAreIntegers DEF StreamInv, HubInv, StreamTypes
  <1>5. tab[r].cursor < event /\ event \notin Stored
    BY <1>4, NumbersAreIntegers DEF StreamInv, ReaderInv, TabInv
  <1>6. \A S : Gapless(S) => Gapless(S)'
    BY <1>2, <1>4 DEF Gapless
  <1>7. TabInv(r) /\ AheadOfStream(r) /\ ConnectionInv(r)
    BY DEF StreamInv, ReaderInv
  <1>8. TabInv(r)'
    <2>1. /\ Gapless(tab[r].rows)' /\ Gapless(tab[r].cached)'
          /\ resync[r].phase = "returned" => Gapless(resync[r].rows)'
      BY <1>1, <1>6, <1>7 DEF TabInv
    <2>2. {n \in Stored' : n <= tab[r].cursor} = {n \in Stored : n <= tab[r].cursor}
      BY <1>2, <1>4, <1>5
    <2> QED BY <1>1, <1>2, <1>3, <1>7, <2>1, <2>2 DEF TabInv, Gapless
  <1>9. AheadOfStream(r)'
    BY <1>1, <1>2, <1>3, <1>4, <1>5, <1>7 DEF AheadOfStream
  <1>10. ~\E n : Undelivered(n)
    BY <1>1 DEF Undelivered
  <1>11. \A n : Undelivered(n)' <=> n = event
    BY <1>1 DEF Undelivered
  <1>12. source[r].state \in {"replaying", "replayed"} => SetupInv(r)'
    <2> SUFFICES ASSUME SetupInv(r) PROVE SetupInv(r)'
      BY <1>7 DEF ConnectionInv
    <2>1. \A n \in Range(sub[r].buffer) : n \in Stored' /\ n > sub[r].after /\ ~Undelivered(n)'
      BY <1>2, <1>5, <1>11 DEF SetupInv
    <2>2. source[r].state = "replayed" =>
             \A n \in Range(sub[r].history), m \in Stored' :
                sub[r].after < m /\ m < n => m \in Range(sub[r].history)
      <3>1. ASSUME NEW n \in Stored PROVE ~(event < n)
        <4>1. n \in Int /\ n < event /\ event \in Int
          BY <1>4
        <4> QED BY <4>1
      <3> QED BY <1>2, <3>1 DEF SetupInv
    <2>3. source[r].state = "replayed" =>
             \A n \in Stored' : n > sub[r].after =>
                \/ n \in Range(sub[r].history) \/ n \in Range(sub[r].buffer)
                \/ Undelivered(n)'
      BY <1>2, <1>10, <1>11 DEF SetupInv
    <2> QED BY <1>1, <1>2, <1>3, <2>1, <2>2, <2>3 DEF SetupInv
  <1>13. source[r].state = "live" => LiveConnectionInv(r)'
    <2> SUFFICES ASSUME LiveConnectionInv(r) PROVE LiveConnectionInv(r)'
      BY <1>7 DEF ConnectionInv
    <2>1. \A n \in Stored' : n > Resume(r) => n \in Range(wire[r]) \/ Undelivered(n)'
      BY <1>2, <1>10, <1>11 DEF LiveConnectionInv
    <2> QED BY <1>1, <1>2, <1>3, <2>1 DEF LiveConnectionInv
  <1>14. ConnectionInv(r)'
    BY <1>1, <1>7, <1>12, <1>13 DEF ConnectionInv
  <1> QED BY <1>8, <1>9, <1>14 DEF ReaderInv

\* What is handed out goes to the buffer or to the wire of those who follow, behind what is there.
LEMMA DeliverSeen ==
  ASSUME StreamInv, Deliver, NEW r \in Readers
  PROVE  ReaderInv(r)'
  <1> DEFINE heard == Subscribed(r) /\ event > sub[r].after
  <1>1. /\ hub = "written" /\ hub' = "free" /\ UNCHANGED <<event, db, source, tab, resync>>
        /\ sub'[r] = IF heard /\ source[r].state # "live"
                     THEN [sub[r] EXCEPT !.buffer = Append(@, event)] ELSE sub[r]
        /\ wire'[r] = IF heard /\ source[r].state = "live"
                      THEN Append(wire[r], event) ELSE wire[r]
    BY DEF Deliver
  <1>2. Stored' = Stored /\ Shown(r)' = Shown(r) /\ Resume(r)' = Resume(r)
    BY <1>1 DEF Stored, Shown, Resume
  <1>3. /\ \A n : ~Undelivered(n)'
        /\ \A n : Undelivered(n) <=> n = event
    BY <1>1 DEF Undelivered
  <1>4. /\ event \in Stored /\ \A n \in Stored : n <= event
        /\ TabInv(r) /\ AheadOfStream(r) /\ ConnectionInv(r)
    BY <1>1 DEF StreamInv, HubInv, ReaderInv
  <1>5. /\ Stored \subseteq Int /\ event \in Int /\ Resume(r) \in Int /\ sub[r].after \in Int
        /\ tab[r].cursor \in Int /\ event \in Numbers
        /\ sub[r].buffer \in Seq(Numbers) /\ wire[r] \in Seq(Numbers)
        /\ sub[r] \in Subs
    BY <1>4, ReaderTypes, NumbersAreIntegers DEF StreamInv, StreamTypes
  <1>6. TabInv(r)' /\ AheadOfStream(r)'
    BY <1>1, <1>2, <1>4 DEF TabInv, AheadOfStream, Gapless
  <1>7. ASSUME source[r].state \in {"replaying", "replayed"} PROVE SetupInv(r)'
    <2>1. SetupInv(r) /\ Subscribed(r) /\ source[r].state # "live"
      BY <1>4, <1>7 DEF ConnectionInv, Subscribed
    <2>2. CASE event > sub[r].after
      <3>1. /\ sub'[r].after = sub[r].after /\ sub'[r].history = sub[r].history
            /\ sub'[r].buffer = Append(sub[r].buffer, event)
        BY <1>1, <1>5, <2>1, <2>2 DEF Subs
      <3>2. Range(sub'[r].buffer) = Range(sub[r].buffer) \cup {event}
        BY <1>5, <3>1, RangeOfAppend
      <3>3. \A n \in Range(sub[r].buffer) : n < event
        <4>1. \A n \in Range(sub[r].buffer) : n \in Stored /\ n # event
          BY <1>3, <2>1 DEF SetupInv
        <4>2. \A n \in Stored : n \in Int /\ event \in Int /\ n <= event
          BY <1>4, <1>5
        <4>3. \A n \in Stored : n # event => n < event
          BY <4>2
        <4> QED BY <4>1, <4>3
      <3>4. Ascending(sub'[r].buffer)
        <4>1. \A i \in DOMAIN sub[r].buffer : sub[r].buffer[i] < event
          BY <3>3 DEF Range
        <4> QED BY <1>5, <2>1, <3>1, <4>1, AppendAscends DEF SetupInv
      <3>5. \A n \in Range(sub'[r].buffer) : n \in Stored' /\ n > sub'[r].after
        BY <1>2, <1>4, <2>1, <2>2, <3>1, <3>2 DEF SetupInv
      <3>6. source[r].state = "replayed" =>
               \A n \in Stored : n > sub[r].after =>
                  n \in Range(sub[r].history) \/ n \in Range(sub'[r].buffer)
        BY <1>3, <2>1, <3>2 DEF SetupInv
      <3> QED BY <1>1, <1>2, <1>3, <2>1, <3>1, <3>4, <3>5, <3>6 DEF SetupInv
    <2>3. CASE ~(event > sub[r].after)
      <3>1. sub'[r] = sub[r]
        BY <1>1, <2>3
      <3>2. \A n \in Stored : n > sub[r].after => ~Undelivered(n)
        BY <1>3, <2>3
      <3> QED BY <1>1, <1>2, <1>3, <2>1, <3>1, <3>2 DEF SetupInv
    <2> QED BY <2>2, <2>3
  <1>8. ASSUME source[r].state = "live" PROVE LiveConnectionInv(r)'
    <2>1. LiveConnectionInv(r) /\ Subscribed(r) /\ sub'[r] = sub[r]
      BY <1>1, <1>4, <1>8 DEF ConnectionInv, Subscribed
    <2>2. CASE event > sub[r].after
      <3>1. wire'[r] = Append(wire[r], event)
        BY <1>1, <1>8, <2>1, <2>2
      <3>2. Range(wire'[r]) = Range(wire[r]) \cup {event}
        BY <1>5, <3>1, RangeOfAppend
      <3>3. Resume(r) <= event
        <4>1. Resume(r) <= tab[r].cursor /\ tab[r].cursor \in Stored \cup {None}
          BY <1>4 DEF AheadOfStream, TabInv
        <4>2. 0 <= event
          BY <1>4 DEF StreamInv, HubInv
        <4> QED BY <1>4, <1>5, <4>1, <4>2, NumbersAreIntegers
      <3>4. \A i, j \in DOMAIN wire'[r] : i < j => wire'[r][i] <= wire'[r][j]
        <4> DEFINE w == wire[r]
                   n == Len(w)
        <4>1. /\ n \in Nat /\ DOMAIN w = 1..n /\ DOMAIN wire'[r] = 1..(n + 1)
              /\ wire'[r][n + 1] = event /\ \A i \in 1..n : wire'[r][i] = w[i]
          BY <1>5, <3>1
        <4>2. \A i \in 1..n : w[i] \in Stored
          BY <2>1, <4>1 DEF LiveConnectionInv, Range
        <4>3. \A i, j \in 1..n : i < j => w[i] <= w[j]
          BY <2>1, <4>1 DEF LiveConnectionInv
        <4> HIDE DEF w, n
        <4>4. ASSUME NEW i \in 1..(n + 1), NEW j \in 1..(n + 1), i < j
              PROVE  wire'[r][i] <= wire'[r][j]
          <5>1. i \in 1..n /\ (j \in 1..n \/ j = n + 1)
            BY <4>1, <4>4
          <5> QED BY <1>4, <4>1, <4>2, <4>3, <4>4, <5>1
        <4> QED BY <4>1, <4>4
      <3> QED BY <1>1, <1>2, <1>3, <1>4, <2>1, <3>2, <3>3, <3>4 DEF LiveConnectionInv
    <2>3. CASE ~(event > sub[r].after)
      <3>1. wire'[r] = wire[r]
        BY <1>1, <2>3
      <3>2. \A n \in Stored : n > Resume(r) => ~Undelivered(n)
        <4>1. sub[r].after <= Resume(r)
          BY <2>1 DEF LiveConnectionInv
        <4>2. ~(event > Resume(r))
          BY <1>5, <2>3, <4>1
        <4> QED BY <1>3, <4>2
      <3> QED BY <1>1, <1>2, <1>3, <2>1, <3>1, <3>2 DEF LiveConnectionInv
    <2> QED BY <2>2, <2>3
  <1>9. ConnectionInv(r)'
    BY <1>1, <1>4, <1>7, <1>8 DEF ConnectionInv
  <1> QED BY <1>6, <1>9 DEF ReaderInv

-----------------------------------------------------------------------------
(* The route's steps.                                                      *)
-----------------------------------------------------------------------------
\* The connection begins where the last one came to.
LEMMA SubscribeSeen ==
  ASSUME StreamInv, NEW r \in Readers, Subscribe(r)
  PROVE  ReaderInv(r)'
  <1>1. /\ UNCHANGED <<hub, event, db, wire, tab, resync>>
        /\ sub'[r] = [NoSub EXCEPT !.after = Resume(r)]
        /\ source'[r] = [source[r] EXCEPT !.state = "replaying", !.attempts = 0]
        /\ source[r].state = "asked"
    BY DEF Subscribe, StreamInv, StreamTypes, hubVars, Resume
  <1>2. /\ source'[r].state = "replaying" /\ Resume(r)' = Resume(r)
        /\ sub'[r].after = Resume(r) /\ sub'[r].buffer = << >>
    BY <1>1 DEF Resume, NoSub, StreamInv, StreamTypes, Sources
  <1>3. Stored' = Stored /\ Shown(r)' = Shown(r)
    BY <1>1 DEF Stored, Shown
  <1>4. TabInv(r) /\ AheadOfStream(r) /\ ConnectionInv(r)
    BY DEF StreamInv, ReaderInv
  <1>5. TabInv(r)' /\ AheadOfStream(r)'
    BY <1>1, <1>2, <1>3, <1>4 DEF TabInv, AheadOfStream, Gapless
  <1>6. Range(<< >>) = {} /\ Ascending(<< >>)
    BY DEF Range, Ascending
  <1>7. SetupInv(r)'
    BY <1>2, <1>6 DEF SetupInv
  <1>8. ConnectionInv(r)'
    BY <1>1, <1>2, <1>4, <1>7 DEF ConnectionInv
  <1> QED BY <1>5, <1>8 DEF ReaderInv

\* The rows read are all there are behind the number the connection resumes from.
LEMMA ReadHistorySeen ==
  ASSUME StreamInv, NEW r \in Readers, ReadHistory(r)
  PROVE  ReaderInv(r)'
  <1>1. /\ UNCHANGED <<hub, event, db, wire, tab, resync>>
        /\ sub'[r] = [sub[r] EXCEPT !.history = After(db, sub[r].after)]
        /\ source'[r] = [source[r] EXCEPT !.state = "replayed"]
        /\ source[r].state = "replaying" /\ sub[r] \in Subs /\ source[r] \in Sources
        /\ db \in Seq(Numbers)
    BY DEF ReadHistory, StreamInv, StreamTypes, hubVars
  <1>2. /\ source'[r].state = "replayed" /\ Resume(r)' = Resume(r)
        /\ sub'[r].after = sub[r].after /\ sub'[r].buffer = sub[r].buffer
        /\ sub'[r].history = After(db, sub[r].after)
    BY <1>1 DEF Resume, Sources, Subs
  <1>3. Stored' = Stored /\ Shown(r)' = Shown(r) /\ \A n : Undelivered(n)' <=> Undelivered(n)
    BY <1>1 DEF Stored, Shown, Undelivered
  <1>4. TabInv(r) /\ AheadOfStream(r) /\ ConnectionInv(r)
    BY DEF StreamInv, ReaderInv
  <1>5. TabInv(r)' /\ AheadOfStream(r)'
    BY <1>1, <1>2, <1>3, <1>4 DEF TabInv, AheadOfStream, Gapless
  <1>6. SetupInv(r)
    BY <1>1, <1>4 DEF ConnectionInv
  <1>7. /\ Range(sub'[r].history) = {n \in Stored : n > sub[r].after}
        /\ Ascending(sub'[r].history)
    BY <1>1, <1>2, AfterProperties DEF Stored
  <1>8. \A m \in Stored : sub[r].after < m => m \in Range(sub'[r].history)
    <2>1. Stored \subseteq Int /\ sub[r].after \in Int
      BY ReaderTypes, NumbersAreIntegers DEF StreamInv
    <2> QED BY <1>7, <2>1
  <1>9. SetupInv(r)'
    BY <1>2, <1>3, <1>6, <1>7, <1>8 DEF SetupInv
  <1>10. ConnectionInv(r)'
    BY <1>1, <1>2, <1>4, <1>9 DEF ConnectionInv
  <1> QED BY <1>5, <1>10 DEF ReaderInv

\* What has been read and what has been buffered, one behind the other.
LEMMA FlushHistorySeen ==
  ASSUME StreamInv, NEW r \in Readers, FlushHistory(r)
  PROVE  ReaderInv(r)'
  <1> DEFINE h == sub[r].history
             b == Without(sub[r].buffer, Range(sub[r].history))
  <1>1. /\ UNCHANGED <<hub, event, db, tab, resync>>
        /\ sub'[r] = [sub[r] EXCEPT !.history = << >>, !.buffer = << >>]
        /\ source'[r] = [source[r] EXCEPT !.state = "live"] /\ wire'[r] = h \o b
        /\ source[r].state = "replayed" /\ sub[r] \in Subs /\ source[r] \in Sources
        /\ db \in Seq(Numbers)
    BY DEF FlushHistory, StreamInv, StreamTypes, hubVars
  <1>2. /\ source'[r].state = "live" /\ Resume(r)' = Resume(r) /\ sub'[r].after = sub[r].after
    BY <1>1 DEF Resume, Sources, Subs
  <1>3. Stored' = Stored /\ Shown(r)' = Shown(r) /\ \A n : Undelivered(n)' <=> Undelivered(n)
    BY <1>1 DEF Stored, Shown, Undelivered
  <1>4. TabInv(r) /\ AheadOfStream(r) /\ ConnectionInv(r)
    BY DEF StreamInv, ReaderInv
  <1>5. TabInv(r)' /\ AheadOfStream(r)'
    BY <1>1, <1>2, <1>3, <1>4 DEF TabInv, AheadOfStream, Gapless
  <1>6. SetupInv(r)
    BY <1>1, <1>4 DEF ConnectionInv
  <1>7. /\ h \in Seq(Numbers) /\ b \in Seq(Numbers) /\ Ascending(h) /\ Ascending(b)
        /\ Range(b) = Range(sub[r].buffer) \ Range(h)
    BY <1>1, <1>6, ReaderTypes, WithoutProperties DEF SetupInv, StreamInv
  <1>8. Stored \subseteq Int /\ sub[r].after \in Int /\ sub[r].after = Resume(r)
    BY <1>6, ReaderTypes, NumbersAreIntegers DEF StreamInv, SetupInv
  <1>9. \A x \in Range(h), y \in Range(b) : x <= y
    <2> SUFFICES ASSUME NEW x \in Range(h), NEW y \in Range(b), ~(x <= y) PROVE FALSE
      OBVIOUS
    <2>1. x \in Stored /\ y \in Stored /\ y > sub[r].after /\ y \notin Range(h)
      BY <1>1, <1>6, <1>7 DEF SetupInv
    <2>2. sub[r].after < y /\ y < x
      BY <1>8, <2>1
    <2> QED BY <1>1, <1>6, <2>1, <2>2 DEF SetupInv
  <1>10. Range(wire'[r]) = Range(h) \cup Range(sub[r].buffer)
    BY <1>1, <1>7, RangeOfConcat
  <1>11. \A i, j \in DOMAIN wire'[r] : i < j => wire'[r][i] <= wire'[r][j]
    <2>1. Range(h) \subseteq Int /\ Range(b) \subseteq Int
      BY <1>1, <1>6, <1>7, <1>8 DEF SetupInv
    <2> HIDE DEF h, b
    <2> QED BY <1>1, <1>7, <1>9, <2>1, ConcatAscends
  <1>12. LiveConnectionInv(r)'
    <2>1. \A n \in Range(wire'[r]) : n \in Stored /\ Resume(r) <= n
      BY <1>1, <1>6, <1>8, <1>10 DEF SetupInv
    <2>2. \A n \in Stored : n > Resume(r) => n \in Range(wire'[r]) \/ Undelivered(n)
      BY <1>1, <1>6, <1>8, <1>10 DEF SetupInv
    <2>3. sub[r].after <= Resume(r)
      BY <1>8
    <2> QED BY <1>2, <1>3, <1>11, <2>1, <2>2, <2>3 DEF LiveConnectionInv
  <1>13. ConnectionInv(r)'
    BY <1>2, <1>12 DEF ConnectionInv
  <1> QED BY <1>5, <1>13 DEF ReaderInv

-----------------------------------------------------------------------------
(* The client's steps.                                                     *)
-----------------------------------------------------------------------------
\* What the invariant says of the numbers of one reader.
LEMMA ReaderNumbers ==
  ASSUME StreamInv, NEW r \in Readers
  PROVE  /\ TabInv(r) /\ AheadOfStream(r) /\ ConnectionInv(r)
         /\ Stored \subseteq Int /\ \A n \in Stored : 0 <= n
         /\ Stored \in SUBSET Numbers /\ Numbers \subseteq Int
         /\ tab[r].cursor \in Int /\ Resume(r) \in Int
         /\ source[r].url \in Int /\ source[r].lastId \in Int
         /\ tab[r] \in Tabs /\ source[r] \in Sources /\ wire[r] \in Seq(Numbers)
         /\ tab[r].pending \in Seq(Numbers) /\ Range(tab[r].pending) \subseteq Int
  <1>1. TabInv(r) /\ AheadOfStream(r) /\ ConnectionInv(r) /\ StreamTypes
    BY DEF StreamInv, ReaderInv
  <1>2. \A n \in Stored : 0 <= n
    BY DEF StreamInv, HubInv
  <1>3. /\ Stored \in SUBSET Numbers /\ tab[r].cursor \in Numbers /\ Resume(r) \in Numbers
        /\ source[r].url \in Numbers /\ source[r].lastId \in Numbers
        /\ wire[r] \in Seq(Numbers) /\ tab[r].pending \in Seq(Numbers)
        /\ Range(tab[r].pending) \subseteq Numbers
    BY <1>1, ReaderTypes
  <1>4. tab[r] \in Tabs /\ source[r] \in Sources
    BY <1>1 DEF StreamTypes
  <1> QED BY <1>1, <1>2, <1>3, <1>4, NumbersAreIntegers

\* A cursor that no number of a set has passed stays.
LEMMA CursorStays ==
  ASSUME NEW c \in Int, NEW S \in SUBSET Numbers, -1 <= c, \A n \in S : n <= c
  PROVE  Newest(S) \in Int /\ Newest(S) <= c /\ Later(c, Newest(S)) = c
  <1>1. PICK m \in Int : m = Newest(S) /\ (S = {} => m = -1) /\ (S # {} => m \in S)
    BY NewestProperties, NumbersAreIntegers
  <1>2. m <= c
    BY <1>1
  <1>3. Later(c, m) = c
    BY <1>2 DEF Later
  <1> QED BY <1>1, <1>2, <1>3

\* A snapshot that a client has among its rows does not move its cursor.
LEMMA SyncedKeepsCursor ==
  ASSUME NEW t \in Tabs, NEW S \in SUBSET Numbers, \A n \in S : n <= t.cursor
  PROVE  /\ Synced(t, S).cursor = t.cursor /\ Synced(t, S).pending = t.pending
         /\ Synced(t, S).rows = t.rows /\ Synced(t, S).cached = t.cached
         /\ \/ Synced(t, S).seen = t.seen
            \/ S # {} /\ Synced(t, S).seen = S /\ ~(Newest(S) < t.cursor)
  <1>1. t.cursor \in Int /\ -1 <= t.cursor
    <2>1. t.cursor \in Numbers
      BY DEF Tabs
    <2> QED BY <2>1, NumbersAreIntegers
  <1>2. Later(t.cursor, Newest(S)) = t.cursor
    BY <1>1, CursorStays
  <1> QED BY <1>2 DEF Synced, Tabs

\* What is put among the rows was shown before.
LEMMA FlushedKeepsCursor ==
  ASSUME NEW t \in Tabs, \A n \in t.rows \cup Range(t.pending) : n <= t.cursor
  PROVE  /\ Flushed(t).cursor = t.cursor /\ Flushed(t).pending = << >>
         /\ Flushed(t).rows = t.rows \cup Range(t.pending)
         /\ Flushed(t).cached = t.cached /\ Flushed(t).seen = t.seen
  <1> DEFINE new == Range(t.pending) \ t.rows
  <1>1. t.cursor \in Int /\ -1 <= t.cursor /\ new \in SUBSET Numbers
    <2>1. t.cursor \in Numbers /\ new \in SUBSET Numbers
      BY DEF Tabs, Range
    <2> QED BY <2>1, NumbersAreIntegers
  <1>2. \A n \in new : n <= t.cursor
    OBVIOUS
  <1>3. t.rows \cup new = t.rows \cup Range(t.pending)
    OBVIOUS
  <1>4. /\ Flushed(t).pending = << >> /\ Flushed(t).rows = t.rows \cup new
        /\ Flushed(t).cursor = Later(t.cursor, Newest(new))
        /\ Flushed(t).cached = t.cached /\ Flushed(t).seen = t.seen
    BY DEF Flushed, Tabs
  <1> HIDE DEF new
  <1>5. Later(t.cursor, Newest(new)) = t.cursor
    BY <1>1, <1>2, CursorStays
  <1> QED BY <1>3, <1>4, <1>5

\* The connection resumes from the cursor.
LEMMA StartStreamSeen ==
  ASSUME StreamInv, NEW r \in Readers, StartStream(r)
  PROVE  ReaderInv(r)'
  <1> DEFINE t == Synced(tab[r], tab[r].cached)
             c == Later(t.cursor, Newest(t.rows))
  <1>1. /\ UNCHANGED <<hub, event, db, sub, wire, resync>>
        /\ tab'[r] = [t EXCEPT !.cursor = c]
        /\ source'[r] = [source[r] EXCEPT !.state = "asked", !.url = c, !.lastId = None]
        /\ source[r].state # "live" /\ StreamTypes
    BY DEF StartStream, StreamInv, StreamTypes, hubVars
  <1>2. /\ TabInv(r) /\ AheadOfStream(r) /\ ConnectionInv(r)
        /\ Stored \subseteq Int /\ tab[r].cursor \in Int /\ tab[r] \in Tabs
        /\ source[r] \in Sources /\ \A n \in Stored : 0 <= n
    BY ReaderNumbers
  <1>3. \A n \in tab[r].rows : n <= tab[r].cursor
    BY <1>2 DEF TabInv, Shown
  <1>4. t.cursor = tab[r].cursor /\ t.rows = tab[r].rows /\ t.pending = tab[r].pending
        /\ t.cached = tab[r].cached /\ t.seen \in {tab[r].seen, tab[r].cached} /\ t \in Tabs
    <2>1. tab[r].cached \in SUBSET Numbers /\ \A n \in tab[r].cached : n <= tab[r].cursor
      BY <1>2, <1>3 DEF TabInv, Tabs
    <2> QED BY <1>2, <2>1, SyncedKeepsCursor, TabTypes
  <1>5. c = tab[r].cursor
    <2>1. t.rows \in SUBSET Numbers /\ -1 <= tab[r].cursor /\ tab[r].cursor \in Int
      <3>1. tab[r].cursor \in Numbers /\ t.rows \in SUBSET Numbers
        BY <1>2, <1>4 DEF Tabs
      <3> QED BY <3>1, NumbersAreIntegers
    <2> HIDE DEF t
    <2> QED BY <1>3, <1>4, <2>1, CursorStays
  <1>6. /\ tab'[r].cursor = tab[r].cursor /\ tab'[r].rows = tab[r].rows
        /\ tab'[r].pending = tab[r].pending /\ tab'[r].cached = tab[r].cached
        /\ tab'[r].seen \in {tab[r].seen, tab[r].cached}
    <2> HIDE DEF t, c
    <2> QED BY <1>1, <1>4, <1>5 DEF Tabs
  <1>7. /\ source'[r].state = "asked" /\ source'[r].url = tab[r].cursor
        /\ source'[r].lastId = None
    <2> HIDE DEF t, c
    <2> QED BY <1>1, <1>2, <1>5 DEF Sources
  <1>8. Resume(r)' = tab[r].cursor
    <2>1. -1 <= tab[r].cursor
      BY <1>2, NumbersAreIntegers DEF Tabs
    <2> QED BY <1>2, <1>7, <2>1, NumbersAreIntegers DEF Resume, Later
  <1>9. Stored' = Stored /\ Shown(r)' = Shown(r)
    BY <1>1, <1>6 DEF Stored, Shown
  <1>10. TabInv(r)'
    <2>1. tab[r].cached \subseteq Shown(r)
      BY <1>2 DEF TabInv, Shown
    <2> QED BY <1>1, <1>2, <1>6, <1>9, <2>1 DEF TabInv, Gapless
  <1>11. AheadOfStream(r)'
    <2>1. \A n \in Range(tab[r].pending) : n <= tab[r].cursor
      BY <1>2 DEF TabInv, Shown
    <2>2. \A n \in Stored : n <= tab[r].cursor => ~(tab[r].cursor < n) /\ ~(tab[r].cursor = n /\ n < tab[r].cursor)
      <3>1. PICK k \in Int : k = tab[r].cursor
        BY <1>2
      <3>2. \A n \in Int : n <= k => ~(k < n) /\ ~(k = n /\ n < k)
        OBVIOUS
      <3> QED BY <1>2, <3>1, <3>2
    <2>3. tab[r].cursor <= tab[r].cursor
      BY <1>2
    <2> QED BY <1>6, <1>8, <1>9, <2>1, <2>2, <2>3 DEF AheadOfStream
  <1>12. ConnectionInv(r)'
    BY <1>1, <1>2, <1>7 DEF ConnectionInv
  <1> QED BY <1>10, <1>11, <1>12 DEF ReaderInv

\* The event at the head of a connection: all that was stored before is behind it, and
\* unless it was seen it is not behind the cursor.
LEMMA HeadOfWire ==
  ASSUME StreamInv, NEW r \in Readers, wire[r] # << >>
  PROVE  /\ source[r].state = "live" /\ LiveConnectionInv(r)
         /\ Head(wire[r]) \in Stored /\ Resume(r) <= Head(wire[r])
         /\ \A m \in Stored : m < Head(wire[r]) => m <= Resume(r)
         /\ Head(wire[r]) \notin tab[r].seen => tab[r].cursor <= Head(wire[r])
  <1> DEFINE n == Head(wire[r])
  <1>1. /\ TabInv(r) /\ AheadOfStream(r) /\ ConnectionInv(r)
        /\ Stored \subseteq Int /\ tab[r].cursor \in Int /\ Resume(r) \in Int
        /\ wire[r] \in Seq(Numbers)
    BY ReaderNumbers
  <1>2. source[r].state = "live" /\ LiveConnectionInv(r)
    BY <1>1 DEF ConnectionInv
  <1>3. /\ Len(wire[r]) \in Nat \ {0} /\ n = wire[r][1] /\ DOMAIN wire[r] = 1..Len(wire[r])
        /\ n \in Range(wire[r])
    <2>1. Len(wire[r]) \in Nat \ {0} /\ n = wire[r][1] /\ DOMAIN wire[r] = 1..Len(wire[r])
      BY <1>1
    <2>2. 1 \in DOMAIN wire[r]
      BY <2>1
    <2> QED BY <2>1, <2>2 DEF Range
  <1>4. n \in Stored /\ Resume(r) <= n /\ n \in Int
    BY <1>1, <1>2, <1>3 DEF LiveConnectionInv
  <1>5. \A m \in Range(wire[r]) : n <= m
    <2> SUFFICES ASSUME NEW i \in 1..Len(wire[r]) PROVE n <= wire[r][i]
      BY <1>3 DEF Range
    <2>1. CASE i = 1
      BY <1>3, <1>4, <2>1
    <2>2. CASE i # 1
      <3>1. 1 \in DOMAIN wire[r] /\ i \in DOMAIN wire[r] /\ 1 < i
        BY <1>3, <2>2
      <3> QED BY <1>2, <1>3, <3>1 DEF LiveConnectionInv
    <2> QED BY <2>1, <2>2
  <1>6. ASSUME NEW m \in Stored, m < n PROVE m <= Resume(r)
    <2> SUFFICES ASSUME m > Resume(r) PROVE FALSE
      BY <1>1
    <2>1. m \in Range(wire[r]) \/ Undelivered(m)
      BY <1>2 DEF LiveConnectionInv
    <2>2. Undelivered(m) => n <= m
      BY <1>4 DEF Undelivered, StreamInv, HubInv
    <2>3. n <= m /\ m \in Int
      BY <1>1, <1>5, <2>1, <2>2
    <2> QED BY <1>4, <1>6, <2>3
  <1>7. ASSUME n \notin tab[r].seen PROVE tab[r].cursor <= n
    <2> SUFFICES ASSUME n < tab[r].cursor PROVE FALSE
      BY <1>1, <1>4
    <2>1. n <= tab[r].cursor /\ (Resume(r) < n \/ Resume(r) = n)
      BY <1>1, <1>4
    <2> QED BY <1>1, <1>4, <1>7, <2>1 DEF AheadOfStream
  <1> QED BY <1>2, <1>4, <1>6, <1>7

\* The event is one that was seen, or the cursor moves to it.
LEMMA ReceiveSeen ==
  ASSUME StreamInv, NEW r \in Readers, Receive(r)
  PROVE  ReaderInv(r)'
  <1> DEFINE n == Head(wire[r])
  <1>1. /\ UNCHANGED <<hub, event, db, sub, resync>> /\ wire[r] # << >>
        /\ wire'[r] = Tail(wire[r])
        /\ source'[r] = [source[r] EXCEPT !.lastId = n]
        /\ tab'[r] = IF n \in tab[r].seen THEN tab[r]
                     ELSE [tab[r] EXCEPT !.seen = @ \cup {n}, !.cursor = Later(@, n),
                                         !.pending = Append(@, n)]
    BY DEF Receive, StreamInv, StreamTypes, hubVars
  <1>2. /\ TabInv(r) /\ AheadOfStream(r) /\ Stored \subseteq Int
        /\ tab[r].cursor \in Int /\ Resume(r) \in Int /\ tab[r] \in Tabs /\ source[r] \in Sources
        /\ source[r].url \in Int /\ source[r].lastId \in Int /\ wire[r] \in Seq(Numbers)
        /\ tab[r].pending \in Seq(Numbers) /\ Range(tab[r].pending) \subseteq Int
    BY ReaderNumbers
  <1>3. /\ source[r].state = "live" /\ LiveConnectionInv(r)
        /\ n \in Stored /\ n \in Int /\ Resume(r) <= n
        /\ \A m \in Stored : m < n => m <= Resume(r)
        /\ n \notin tab[r].seen => tab[r].cursor <= n
    BY <1>1, <1>2, HeadOfWire
  <1> HIDE DEF n
  <1>4. Resume(r)' = n /\ source'[r].state = "live"
    <2>1. source'[r].url = source[r].url /\ source'[r].lastId = n /\ source'[r].state = "live"
      BY <1>1, <1>2, <1>3 DEF Sources
    <2>2. source[r].url <= n
      BY <1>2, <1>3 DEF Resume, Later
    <2> QED BY <1>2, <1>3, <2>1, <2>2 DEF Resume, Later
  <1>5. Stored' = Stored /\ \A m : Undelivered(m)' <=> Undelivered(m)
    BY <1>1 DEF Stored, Undelivered
  <1>6. LiveConnectionInv(r)'
    <2> DEFINE w == Tail(wire[r])
               k == Len(wire[r])
    <2>1. /\ k \in Nat \ {0} /\ DOMAIN wire[r] = 1..k /\ DOMAIN w = 1..(k - 1)
          /\ \A i \in 1..(k - 1) : w[i] = wire[r][i + 1]
      BY <1>1, <1>2
    <2>2. Range(wire[r]) = {n} \cup Range(w)
      BY <1>1, <1>2, RangeOfTail DEF n
    <2>3. \A i, j \in 1..k : i < j => wire[r][i] <= wire[r][j]
      BY <1>3, <2>1 DEF LiveConnectionInv
    <2>4. wire[r][1] = n
      BY <1>1, <1>2 DEF n
    <2> HIDE DEF w, k
    <2>5. \A i, j \in DOMAIN w : i < j => w[i] <= w[j]
      <3> SUFFICES ASSUME NEW i \in 1..(k - 1), NEW j \in 1..(k - 1), i < j
                   PROVE  w[i] <= w[j]
        BY <2>1
      <3>1. i + 1 \in 1..k /\ j + 1 \in 1..k /\ i + 1 < j + 1
        BY <2>1
      <3> QED BY <2>1, <2>3, <3>1
    <2>6. \A m \in Range(w) : m \in Stored /\ n <= m
      <3>1. \A m \in Range(w) : m \in Stored
        BY <1>3, <2>2 DEF LiveConnectionInv
      <3>2. ASSUME NEW i \in 1..(k - 1) PROVE n <= w[i]
        <4>1. i + 1 \in 1..k /\ 1 \in 1..k /\ 1 < i + 1
          BY <2>1
        <4> QED BY <2>1, <2>3, <2>4, <4>1
      <3> QED BY <2>1, <3>1, <3>2 DEF Range
    <2>7. ASSUME NEW m \in Stored, m > n PROVE m \in Range(w) \/ Undelivered(m)
      <3>1. m > Resume(r) /\ m # n
        BY <1>2, <1>3, <2>7
      <3> QED BY <1>3, <2>2, <3>1 DEF LiveConnectionInv
    <2>8. sub[r].after <= n
      <3>1. sub[r].after <= Resume(r) /\ sub[r].after \in Int
        BY <1>3, ReaderTypes, NumbersAreIntegers DEF LiveConnectionInv, StreamInv
      <3> QED BY <1>2, <1>3, <3>1
    <2>9. wire'[r] = w /\ sub'[r] = sub[r]
      BY <1>1 DEF w
    <2> QED BY <1>4, <1>5, <2>5, <2>6, <2>7, <2>8, <2>9 DEF LiveConnectionInv
  <1>7. CASE n \in tab[r].seen
    <2>1. tab'[r] = tab[r] /\ Shown(r)' = Shown(r)
      BY <1>1, <1>7 DEF Shown
    <2>2. TabInv(r)'
      BY <1>1, <1>2, <1>5, <2>1 DEF TabInv, Gapless
    <2>3. n <= tab[r].cursor
      BY <1>2, <1>7 DEF TabInv
    <2>4. \A m \in Range(tab[r].pending) : m <= n
      <3> SUFFICES ASSUME NEW m \in Range(tab[r].pending) PROVE m <= n
        OBVIOUS
      <3>1. m \in Int /\ m <= Resume(r)
        BY <1>2 DEF AheadOfStream
      <3> QED BY <1>2, <1>3, <3>1
    <2>5. ASSUME NEW m \in Stored, m <= tab[r].cursor, n < m \/ (n = m /\ m < tab[r].cursor)
          PROVE  m \in tab[r].rows \cap tab[r].seen
      <3>1. Resume(r) < m \/ (Resume(r) = m /\ m < tab[r].cursor)
        <4>1. m \in Int
          BY <1>2
        <4> QED BY <1>2, <1>3, <2>5, <4>1
      <3> QED BY <1>2, <2>5, <3>1 DEF AheadOfStream
    <2>6. AheadOfStream(r)'
      BY <1>4, <1>5, <2>1, <2>3, <2>4, <2>5 DEF AheadOfStream
    <2>7. ConnectionInv(r)'
      BY <1>4, <1>6 DEF ConnectionInv
    <2> QED BY <2>2, <2>6, <2>7 DEF ReaderInv
  <1>8. CASE n \notin tab[r].seen
    <2>1. /\ tab'[r].seen = tab[r].seen \cup {n} /\ tab'[r].cursor = n
          /\ tab'[r].pending = Append(tab[r].pending, n)
          /\ tab'[r].rows = tab[r].rows /\ tab'[r].cached = tab[r].cached
      <3>1. Later(tab[r].cursor, n) = n
        BY <1>2, <1>3, <1>8 DEF Later
      <3> QED BY <1>1, <1>2, <1>8, <3>1 DEF Tabs
    <2>2. Range(tab'[r].pending) = Range(tab[r].pending) \cup {n}
      BY <1>2, <2>1, RangeOfAppend
    <2>3. Shown(r)' = Shown(r) \cup {n}
      BY <2>1, <2>2 DEF Shown
    <2>4. Shown(r)' = {m \in Stored : m <= n}
      <3>1. ASSUME NEW m \in Stored, m <= n, m # n PROVE m \in Shown(r)
        <4>1. m \in Int /\ m < n
          BY <1>2, <1>3, <3>1
        <4>2. m <= Resume(r) /\ Resume(r) <= tab[r].cursor
          BY <1>2, <1>3, <4>1 DEF AheadOfStream
        <4>3. m <= tab[r].cursor
          BY <1>2, <4>1, <4>2
        <4> QED BY <1>2, <4>3 DEF TabInv
      <3>2. ASSUME NEW m \in Shown(r) PROVE m \in Stored /\ m <= n
        <4>1. m \in Stored /\ m <= tab[r].cursor /\ m \in Int
          BY <1>2 DEF TabInv
        <4> QED BY <1>2, <1>3, <1>8, <4>1
      <3>3. n <= n
        BY <1>3
      <3> QED BY <1>3, <2>3, <3>1, <3>2, <3>3
    <2>5. TabInv(r)'
      BY <1>1, <1>2, <1>3, <1>5, <2>1, <2>3, <2>4 DEF TabInv, Gapless
    <2>6. \A m \in Range(tab'[r].pending) : m <= n
      <3> SUFFICES ASSUME NEW m \in Range(tab[r].pending) PROVE m <= n
        BY <1>3, <2>2
      <3>1. m \in Int /\ m <= Resume(r)
        BY <1>2 DEF AheadOfStream
      <3> QED BY <1>2, <1>3, <3>1
    <2>7. \A m \in Stored : m <= n => ~(n < m) /\ ~(n = m /\ m < n)
      BY <1>2, <1>3
    <2>8. AheadOfStream(r)'
      BY <1>3, <1>4, <1>5, <2>1, <2>6, <2>7 DEF AheadOfStream
    <2>9. ConnectionInv(r)'
      BY <1>4, <1>6 DEF ConnectionInv
    <2> QED BY <2>5, <2>8, <2>9 DEF ReaderInv
  <1> QED BY <1>7, <1>8

\* A client that has put among its rows what it had accepted.
LEMMA FlushedSeen ==
  ASSUME StreamInv, NEW r \in Readers, db' = db, tab'[r] = Flushed(tab[r]),
         Resume(r)' = Resume(r),
         resync'[r] = resync[r] \/ resync'[r].phase # "returned"
  PROVE  TabInv(r)' /\ AheadOfStream(r)'
  <1>1. /\ TabInv(r) /\ AheadOfStream(r) /\ Stored \subseteq Int /\ tab[r].cursor \in Int
        /\ tab[r] \in Tabs
    BY ReaderNumbers
  <1>2. \A n \in tab[r].rows \cup Range(tab[r].pending) : n <= tab[r].cursor
    BY <1>1 DEF TabInv, Shown
  <1>3. /\ tab'[r].cursor = tab[r].cursor /\ tab'[r].pending = << >>
        /\ tab'[r].rows = Shown(r) /\ tab'[r].cached = tab[r].cached
        /\ tab'[r].seen = tab[r].seen
    BY <1>1, <1>2, FlushedKeepsCursor DEF Shown
  <1>4. Stored' = Stored /\ Range(<< >>) = {}
    BY DEF Stored, Range
  <1>5. Shown(r)' = Shown(r)
    BY <1>3, <1>4 DEF Shown
  <1>6. Gapless(Shown(r))
    <2>1. ASSUME NEW n \in Shown(r), NEW m \in Stored, m < n PROVE m \in Shown(r)
      <3>1. PICK c \in Int, i \in Int, j \in Int : c = tab[r].cursor /\ i = m /\ j = n /\ j <= c
        BY <1>1 DEF TabInv
      <3>2. i <= c
        BY <2>1, <3>1
      <3> QED BY <1>1, <3>1, <3>2 DEF TabInv
    <2> QED BY <1>1, <2>1 DEF Gapless, TabInv
  <1>7. TabInv(r)'
    <2>1. tab[r].cached \subseteq Shown(r)
      BY <1>1 DEF TabInv, Shown
    <2> QED BY <1>1, <1>3, <1>4, <1>5, <1>6, <2>1 DEF TabInv, Gapless
  <1>8. AheadOfStream(r)'
    <2>1. tab[r].rows \subseteq Shown(r)
      BY DEF Shown
    <2> QED BY <1>1, <1>3, <1>4, <2>1 DEF AheadOfStream
  <1> QED BY <1>7, <1>8

\* Nothing that is shown, and nothing of the connection, changes.
LEMMA FrameSeen ==
  ASSUME StreamInv, NEW r \in Readers, Frame(r)
  PROVE  ReaderInv(r)'
  <1>1. /\ UNCHANGED <<hub, event, db, sub, wire, source, resync>>
        /\ tab'[r] = Flushed(tab[r])
    BY DEF Frame, StreamInv, StreamTypes, hubVars
  <1>2. Resume(r)' = Resume(r) /\ Stored' = Stored
    BY <1>1 DEF Resume, Stored
  <1>3. TabInv(r)' /\ AheadOfStream(r)'
    BY <1>1, <1>2, FlushedSeen
  <1>4. ConnectionInv(r)
    BY ReaderNumbers
  <1>5. \A n : Undelivered(n)' <=> Undelivered(n)
    BY <1>1 DEF Undelivered
  <1>6. ConnectionInv(r)'
    BY <1>1, <1>2, <1>4, <1>5 DEF ConnectionInv, SetupInv, LiveConnectionInv
  <1> QED BY <1>3, <1>6 DEF ReaderInv

\* The connection is gone.
LEMMA UnmountSeen ==
  ASSUME StreamInv, NEW r \in Readers, Unmount(r)
  PROVE  ReaderInv(r)'
  <1>1. /\ UNCHANGED <<hub, event, db>> /\ tab'[r] = Flushed(tab[r])
        /\ source'[r] = [source[r] EXCEPT !.state = "off"] /\ wire'[r] = << >>
        /\ resync'[r] = Idle /\ source[r] \in Sources
    BY DEF Unmount, StreamInv, StreamTypes, hubVars
  <1>2. /\ source'[r].state = "off" /\ Resume(r)' = Resume(r)
        /\ resync'[r].phase # "returned"
    BY <1>1 DEF Sources, Resume, Idle
  <1>3. TabInv(r)' /\ AheadOfStream(r)'
    BY <1>1, <1>2, FlushedSeen
  <1>4. ConnectionInv(r)'
    BY <1>1, <1>2 DEF ConnectionInv
  <1> QED BY <1>3, <1>4 DEF ReaderInv

\* A client that has lost its connection, or opens it again with the same numbers.
LEMMA Disconnected ==
  ASSUME NEW r \in Readers, ReaderInv(r), UNCHANGED <<db, tab>>,
         resync'[r] = resync[r] \/ resync'[r].phase # "returned",
         source'[r].url = source[r].url, source'[r].lastId = source[r].lastId,
         source'[r].state \notin {"replaying", "replayed", "live"}, wire'[r] = << >>
  PROVE  ReaderInv(r)'
  <1>1. Stored' = Stored /\ Shown(r)' = Shown(r) /\ Resume(r)' = Resume(r)
    BY DEF Stored, Shown, Resume
  <1>2. TabInv(r)' /\ AheadOfStream(r)'
    BY <1>1 DEF ReaderInv, TabInv, AheadOfStream, Gapless
  <1>3. ConnectionInv(r)'
    BY DEF ConnectionInv
  <1> QED BY <1>2, <1>3 DEF ReaderInv

\* A lost connection remembers where it came to.
LEMMA LostKeepsNumbers ==
  ASSUME NEW s \in Sources, NEW retried
  PROVE  /\ Lost(s, retried).url = s.url /\ Lost(s, retried).lastId = s.lastId
         /\ Lost(s, retried).state \in {"retrying", "waiting", "exhausted"}
  BY DEF Lost, Sources

\* So does one that was dropped,
LEMMA DropSeen ==
  ASSUME StreamInv, NEW r \in Readers, Drop(r)
  PROVE  ReaderInv(r)'
  <1>1. source[r] \in Sources /\ ReaderInv(r)
    BY DEF StreamInv, StreamTypes
  <1>2. PICK retried \in BOOLEAN : source'[r] = Lost(source[r], retried)
    BY DEF Drop, StreamInv, StreamTypes
  <1>3. UNCHANGED <<db, tab, resync>> /\ wire'[r] = << >>
    BY DEF Drop, StreamInv, StreamTypes, hubVars
  <1>4. /\ source'[r].url = source[r].url /\ source'[r].lastId = source[r].lastId
        /\ source'[r].state \in {"retrying", "waiting", "exhausted"}
    BY <1>1, <1>2, LostKeepsNumbers
  <1> QED BY <1>1, <1>3, <1>4, Disconnected

\* one that the browser opens again,
LEMMA RetrySeen ==
  ASSUME StreamInv, NEW r \in Readers, Retry(r)
  PROVE  ReaderInv(r)'
  <1>1. source[r] \in Sources /\ ReaderInv(r) /\ wire[r] = << >>
    BY DEF StreamInv, StreamTypes, Retry, ReaderInv, ConnectionInv
  <1>2. /\ source'[r] = [source[r] EXCEPT !.state = "asked"]
        /\ UNCHANGED <<db, tab, resync, wire>>
    BY DEF Retry, StreamInv, StreamTypes, hubVars
  <1>3. /\ source'[r].url = source[r].url /\ source'[r].lastId = source[r].lastId
        /\ source'[r].state = "asked"
    BY <1>1, <1>2 DEF Sources
  <1> QED BY <1>1, <1>2, <1>3, Disconnected

\* and one that the restart of the runtime cut.
LEMMA RestartSeen ==
  ASSUME StreamInv, NEW r \in Readers, Restart
  PROVE  ReaderInv(r)'
  <1>1. source[r] \in Sources /\ ReaderInv(r)
    BY DEF StreamInv, StreamTypes
  <1>2. PICK retried \in SUBSET {q \in Readers : Connected(q)} :
           source'[r] = IF Connected(r) THEN Lost(source[r], r \in retried) ELSE source[r]
    BY DEF Restart
  <1>3. UNCHANGED <<db, tab>> /\ wire'[r] = << >>
    BY DEF Restart
  <1>4. resync'[r] = resync[r] \/ resync'[r].phase # "returned"
    BY DEF Restart, Idle
  <1>5. /\ source'[r].url = source[r].url /\ source'[r].lastId = source[r].lastId
        /\ source'[r].state \notin {"replaying", "replayed", "live"}
    <2>1. CASE Connected(r)
      BY <1>1, <1>2, <2>1, LostKeepsNumbers
    <2>2. CASE ~Connected(r)
      BY <1>2, <2>2 DEF Connected, Subscribed
    <2> QED BY <2>1, <2>2
  <1> QED BY <1>1, <1>3, <1>4, <1>5, Disconnected

\* A snapshot is laid over what the client shows.
LEMMA ApplyTimelineSeen ==
  ASSUME StreamInv, NEW r \in Readers, ApplyTimeline(r)
  PROVE  ReaderInv(r)'
  <1> DEFINE R == resync[r].rows
             rows == Merged(R, tab[r].rows)
             t == [tab[r] EXCEPT !.cached = R, !.rows = rows, !.seen = rows,
                                 !.cursor = Later(@, Newest(rows))]
  <1>1. /\ UNCHANGED <<hub, event, db, sub, wire, source>>
        /\ tab'[r] = Synced(t, R) /\ resync'[r] = Idle
        /\ resync[r].phase = "returned" /\ db \in Seq(Numbers)
    BY DEF ApplyTimeline, StreamInv, StreamTypes, hubVars
  <1>2. /\ TabInv(r) /\ AheadOfStream(r) /\ ConnectionInv(r) /\ tab[r] \in Tabs
        /\ Stored \subseteq Int /\ Stored \in SUBSET Numbers /\ \A n \in Stored : 0 <= n
    BY ReaderNumbers
  <1>3. Gapless(R) /\ Gapless(tab[r].rows)
    BY <1>1, <1>2 DEF TabInv
  <1>4. rows = R \cup tab[r].rows
    BY <1>1, <1>3, MergedIsUnion
  <1>5. Gapless(rows) /\ rows \in SUBSET Numbers /\ R \in SUBSET Numbers
    BY <1>2, <1>3, <1>4 DEF Gapless
  <1>6. PICK c \in Int : c = tab[r].cursor /\ c \in Stored \cup {None} /\ c \in Numbers
    BY <1>2, ReaderNumbers DEF TabInv, Tabs
  <1>7. PICK k \in Int : /\ k = Newest(rows) /\ (rows = {} => k = -1) /\ (rows # {} => k \in rows)
                         /\ (\A n \in rows : n <= k) /\ k \in Numbers
    <2> HIDE DEF rows
    <2>1. /\ Newest(rows) \in Numbers /\ (rows = {} => Newest(rows) = None)
          /\ (rows # {} => Newest(rows) \in rows) /\ \A n \in rows : n <= Newest(rows)
      BY <1>5, NewestProperties
    <2> QED BY <2>1, NumbersAreIntegers
  <1> DEFINE d == Later(c, k)
  <1>8. /\ d \in Int /\ c <= d /\ k <= d /\ (d = c \/ d = k) /\ (c < d => d = k)
        /\ d \in Numbers
    BY <1>6, <1>7 DEF Later
  <1> HIDE DEF d
  <1>9. \A n \in rows : n \in Int /\ n <= d
    <2> SUFFICES ASSUME NEW n \in rows PROVE n \in Int /\ n <= d
      OBVIOUS
    <2>1. n \in Int /\ n <= k
      BY <1>2, <1>5, <1>7 DEF Gapless
    <2> QED BY <1>8, <2>1
  <1>10. /\ t \in Tabs /\ t.cursor = d /\ t.rows = rows /\ t.seen = rows /\ t.cached = R
         /\ t.pending = tab[r].pending
    <2> HIDE DEF rows, R
    <2> QED BY <1>2, <1>5, <1>6, <1>7, <1>8 DEF Tabs, d
  <1>11. R \subseteq rows
    BY <1>4
  <1> HIDE DEF t, rows, R
  <1>12. /\ tab'[r].cursor = d /\ tab'[r].rows = rows /\ tab'[r].cached = R
         /\ tab'[r].pending = tab[r].pending
         /\ \/ tab'[r].seen = rows
            \/ R # {} /\ tab'[r].seen = R /\ ~(Newest(R) < d)
    <2>1. \A n \in R : n <= t.cursor
      BY <1>9, <1>10, <1>11
    <2> QED BY <1>1, <1>5, <1>10, <2>1, SyncedKeepsCursor
  <1>13. \A n \in Stored : n \in Int /\ (n <= d => n <= c \/ n \in rows)
    <2> SUFFICES ASSUME NEW n \in Stored, n <= d, ~(n <= c) PROVE n \in rows
      BY <1>2
    <2>1. n \in Int /\ 0 <= n
      BY <1>2
    <2>2. n <= k /\ d = k /\ 0 <= k
      BY <1>8, <2>1
    <2>3. k \in rows
      BY <1>7, <2>2
    <2>4. n = k \/ n < k
      BY <2>1, <2>2
    <2> QED BY <1>5, <2>3, <2>4 DEF Gapless
  <1>14. Stored' = Stored
    BY <1>1 DEF Stored
  <1>15. Shown(r) = {n \in Stored : n <= c}
    BY <1>2, <1>6 DEF TabInv
  <1>16. Shown(r)' = Shown(r) \cup R
    BY <1>4, <1>12 DEF Shown
  <1>17. Shown(r)' = {n \in Stored : n <= d}
    <2>1. ASSUME NEW n \in Stored, n <= d PROVE n \in Shown(r)'
      <3>1. CASE n <= c
        BY <1>15, <1>16, <3>1
      <3>2. CASE n \in rows
        BY <1>12, <3>2 DEF Shown
      <3> QED BY <1>13, <2>1, <3>1, <3>2
    <2>2. ASSUME NEW n \in Shown(r)' PROVE n \in Stored /\ n <= d
      <3>1. CASE n \in Shown(r)
        <4>1. n \in Stored /\ n <= c /\ n \in Int
          BY <1>2, <1>15, <3>1
        <4> QED BY <1>8, <4>1
      <3>2. CASE n \in R
        BY <1>3, <1>9, <1>11, <3>2 DEF Gapless
      <3> QED BY <1>16, <2>2, <3>1, <3>2
    <2> QED BY <2>1, <2>2
  <1>18. TabInv(r)'
    <2>1. d \in Stored \cup {None}
      <3>1. k \in Stored \cup {None}
        BY <1>5, <1>7, NumbersAreIntegers DEF Gapless
      <3> QED BY <1>6, <1>8, <3>1
    <2>2. tab'[r].seen \subseteq rows /\ rows \subseteq Shown(r)'
      BY <1>11, <1>12 DEF Shown
    <2>3. Gapless(tab[r].rows)' /\ Gapless(tab[r].cached)'
      <3>1. /\ rows \subseteq Stored /\ \A n \in rows, m \in Stored : m < n => m \in rows
            /\ R \subseteq Stored /\ \A n \in R, m \in Stored : m < n => m \in R
        BY <1>3, <1>5 DEF Gapless
      <3> QED BY <1>12, <1>14, <3>1 DEF Gapless
    <2>4. resync'[r].phase # "returned"
      BY <1>1 DEF Idle
    <2> QED BY <1>11, <1>12, <1>14, <1>17, <2>1, <2>2, <2>3, <2>4 DEF TabInv
  <1>19. Resume(r)' = Resume(r) /\ \A n : Undelivered(n)' <=> Undelivered(n)
    BY <1>1 DEF Resume, Undelivered
  <1>20. PICK s \in Int : s = Resume(r) /\ s <= c
    BY <1>2, <1>6, ReaderNumbers DEF AheadOfStream
  <1>21. ASSUME NEW n \in Stored, n <= d, s < n \/ (s = n /\ n < d)
         PROVE  n \in rows /\ n \in tab'[r].seen
    <2>1. n \in Int /\ 0 <= n
      BY <1>2
    <2>2. n \in rows
      <3>1. CASE ~(n <= c)
        BY <1>13, <1>21, <3>1
      <3>2. CASE n <= c /\ (s < n \/ n < c)
        <4>1. n \in tab[r].rows
          BY <1>2, <1>6, <1>20, <1>21, <3>2 DEF AheadOfStream
        <4> QED BY <1>4, <4>1
      <3>3. CASE n = c /\ s = n
        <4>1. n < k /\ 0 <= k
          BY <1>8, <1>21, <2>1, <3>3
        <4>2. k \in rows
          BY <1>7, <4>1
        <4> QED BY <1>5, <4>1, <4>2 DEF Gapless
      <3> QED BY <1>20, <1>21, <2>1, <3>1, <3>2, <3>3
    <2>3. ASSUME R # {}, ~(Newest(R) < d) PROVE n \in R
      <3>1. PICK j \in Int : j = Newest(R) /\ j \in R /\ ~(j < d)
        <4>1. Newest(R) \in R
          BY <1>5, <2>3, NewestProperties
        <4>2. R \subseteq Int
          BY <1>2, <1>3 DEF Gapless
        <4> QED BY <2>3, <4>1, <4>2
      <3>2. n = j \/ n < j
        BY <1>8, <1>21, <2>1, <3>1
      <3> QED BY <1>3, <3>1, <3>2 DEF Gapless
    <2> QED BY <1>12, <2>2, <2>3
  <1>22. AheadOfStream(r)'
    <2>1. s <= d
      BY <1>6, <1>8, <1>20
    <2>2. \A n \in Range(tab[r].pending) : n <= s
      BY <1>2, <1>20 DEF AheadOfStream
    <2> QED BY <1>12, <1>14, <1>19, <1>20, <1>21, <2>1, <2>2 DEF AheadOfStream
  <1>23. ConnectionInv(r)'
    BY <1>1, <1>2, <1>14, <1>19 DEF ConnectionInv, SetupInv, LiveConnectionInv
  <1> QED BY <1>18, <1>22, <1>23 DEF ReaderInv

-----------------------------------------------------------------------------
\* Nothing is stored, shown or connected in the beginning.
LEMMA InvariantAtFirst == StreamInit => StreamInv
  <1> SUFFICES ASSUME StreamInit PROVE StreamInv
    OBVIOUS
  <1>1. StreamTypes
    BY TypesAtFirst
  <1>2. Stored = {} /\ Range(<< >>) = {}
    BY DEF StreamInit, Stored, Range
  <1>3. HubInv
    BY <1>2, NumbersAreIntegers DEF StreamInit, HubInv, Ascending
  <1>4. ASSUME NEW r \in Readers PROVE ReaderInv(r)
    <2>1. /\ tab[r] = NoTab /\ resync[r] = Idle /\ wire[r] = << >> /\ source[r].state = "off"
          /\ source[r].url = None /\ source[r].lastId = None
      BY DEF StreamInit
    <2>2. Shown(r) = {}
      BY <1>2, <2>1 DEF Shown, NoTab
    <2>3. Resume(r) = None
      BY <2>1, NumbersAreIntegers DEF Resume, Later
    <2>4. TabInv(r)
      BY <1>2, <2>1, <2>2 DEF TabInv, NoTab, Gapless, Idle
    <2>5. AheadOfStream(r)
      BY <1>2, <2>1, <2>3, NumbersAreIntegers DEF AheadOfStream, NoTab
    <2>6. ConnectionInv(r)
      BY <2>1 DEF ConnectionInv
    <2> QED BY <2>4, <2>5, <2>6 DEF ReaderInv
  <1>5. timeline.phase # "read"
    BY DEF StreamInit, Idle
  <1> QED BY <1>1, <1>3, <1>4, <1>5 DEF StreamInv

\* The snapshot being read is a beginning of what is stored.
LEMMA TimelineKept ==
  ASSUME StreamInv, StreamNext
  PROVE  (timeline.phase = "read" => Gapless(timeline.rows))'
  <1>1. CASE Write
    <2>1. Stored' = Stored \cup {event} /\ UNCHANGED timeline
      BY <1>1, RangeOfAppend DEF Write, Stored, StreamInv, StreamTypes
    <2>2. \A n \in Stored : ~(event < n)
      <3> SUFFICES ASSUME NEW n \in Stored PROVE ~(event < n)
        OBVIOUS
      <3>1. n < event /\ n \in Numbers /\ event \in Numbers
        BY <1>1 DEF Write, StreamInv, HubInv, StreamTypes, Stored, Range
      <3>2. n \in Int /\ event \in Int
        BY <3>1, NumbersAreIntegers
      <3> QED BY <3>1, <3>2
    <2> QED BY <2>1, <2>2 DEF StreamInv, Gapless
  <1>2. CASE ReadTimeline
    <2>1. timeline'.rows = Stored /\ Stored' = Stored
      BY <1>2 DEF ReadTimeline, Stored, hubVars
    <2> QED BY <2>1 DEF Gapless
  <1>3. CASE ReturnTimeline \/ Restart
    BY <1>3 DEF ReturnTimeline, Restart, Idle
  <1>4. ASSUME NEW r \in Readers, Resync(r)
        PROVE  (timeline.phase = "read" => Gapless(timeline.rows))'
    BY <1>4 DEF Resync, Idle, hubVars, StreamInv, Gapless, Stored
  <1>5. CASE UNCHANGED <<db, timeline>>
    BY <1>5 DEF StreamInv, Gapless, Stored
  <1>6. ASSUME NEW r \in Readers, Route(r) \/ (Client(r) /\ ~Resync(r))
        PROVE  UNCHANGED <<db, timeline>>
    BY <1>6 DEF hubVars, Route, Client, Subscribe, ReadHistory, FlushHistory, StartStream, Receive,
                Frame, Unmount, Drop, Retry, ApplyTimeline
  <1>7. Emit \/ Number \/ WriteFails \/ Deliver => UNCHANGED <<db, timeline>>
    BY DEF Emit, Number, WriteFails, Deliver
  <1> QED BY <1>1, <1>2, <1>3, <1>4, <1>5, <1>6, <1>7 DEF StreamNext, Hub

\* A step of one reader leaves the others, and the hub, as they are.
LEMMA ReaderStep ==
  ASSUME StreamTypes, NEW r \in Readers, Route(r) \/ Client(r)
  PROVE  /\ UNCHANGED hubVars
         /\ \A q \in Readers \ {r} :
               /\ sub'[q] = sub[q] /\ wire'[q] = wire[q] /\ source'[q] = source[q]
               /\ tab'[q] = tab[q] /\ resync'[q] = resync[q]
  <1>1. CASE Route(r)
    BY <1>1 DEF StreamTypes, Route, Subscribe, ReadHistory, FlushHistory
  <1>2. CASE Client(r)
    BY <1>2 DEF StreamTypes, Client, StartStream, Receive, Frame, Unmount, Drop, Retry, Resync,
                ApplyTimeline
  <1> QED BY <1>1, <1>2

\* A snapshot that is asked for changes nothing yet.
LEMMA ResyncSeen ==
  ASSUME StreamInv, NEW r \in Readers, Resync(r)
  PROVE  ReaderInv(r)'
  <1>1. /\ UNCHANGED <<db, hub, event, sub, wire, source, tab>> /\ ReaderInv(r)
        /\ resync'[r].phase = "asked"
    BY DEF Resync, hubVars, StreamInv, StreamTypes
  <1>2. \A n : Undelivered(n)' = Undelivered(n)
    BY <1>1 DEF Undelivered
  <1> QED BY <1>1, <1>2, Unmoved

\* Every step keeps the invariant.
LEMMA InvariantKept ==
  ASSUME StreamInv, StreamNext
  PROVE  StreamInv'
  <1>1. StreamTypes' /\ HubInv'
    BY TypesKept, HubKept DEF StreamInv
  <1>2. (timeline.phase = "read" => Gapless(timeline.rows))'
    BY TimelineKept
  <1>3. ASSUME NEW q \in Readers PROVE ReaderInv(q)'
    <2>0. ReaderInv(q)
      BY DEF StreamInv
    <2>1. CASE Emit
      <3>1. \A n : Undelivered(n)' = Undelivered(n)
        BY <2>1 DEF Emit, Undelivered
      <3> QED BY <2>0, <2>1, <3>1, Unmoved DEF Emit
    <2>2. CASE Number
      <3>1. \A n : Undelivered(n)' = Undelivered(n)
        BY <2>2 DEF Number, Undelivered
      <3> QED BY <2>0, <2>2, <3>1, Unmoved DEF Number
    <2>3. CASE Write
      BY <2>3, WriteSeen
    <2>4. CASE WriteFails
      <3>1. \A n : Undelivered(n)' = Undelivered(n)
        BY <2>4 DEF WriteFails, Undelivered
      <3> QED BY <2>0, <2>4, <3>1, Unmoved DEF WriteFails
    <2>5. CASE Deliver
      BY <2>5, DeliverSeen
    <2>6. CASE ReadTimeline
      <3>1. \A n : Undelivered(n)' = Undelivered(n)
        BY <2>6 DEF ReadTimeline, Undelivered, hubVars
      <3> QED BY <2>0, <2>6, <3>1, Unmoved DEF ReadTimeline, hubVars
    <2>7. CASE ReturnTimeline
      <3>1. UNCHANGED <<hubVars, sub, wire, source, tab>>
        BY <2>7 DEF ReturnTimeline
      <3>2. TabInv(q)'
        <4>1. Stored' = Stored /\ Shown(q)' = Shown(q)
          BY <3>1 DEF Stored, Shown, hubVars
        <4>2. resync'[q].phase = "returned" => Gapless(resync'[q].rows)
          BY <2>0, <2>7 DEF ReturnTimeline, StreamInv, ReaderInv, TabInv
        <4> QED BY <2>0, <3>1, <4>1, <4>2 DEF ReaderInv, TabInv, Gapless
      <3>3. AheadOfStream(q)' /\ ConnectionInv(q)'
        BY <2>0, <3>1 DEF ReaderInv, AheadOfStream, ConnectionInv, SetupInv, LiveConnectionInv,
                          Resume, Stored, Undelivered, hubVars
      <3> QED BY <3>2, <3>3 DEF ReaderInv
    <2>8. CASE Restart
      BY <2>8, RestartSeen
    <2>9. ASSUME NEW r \in Readers, Route(r) \/ Client(r) PROVE ReaderInv(q)'
      <3>1. ReaderInv(r)'
        BY <2>9, SubscribeSeen, ReadHistorySeen, FlushHistorySeen, StartStreamSeen, ReceiveSeen,
           FrameSeen, UnmountSeen, DropSeen, RetrySeen, ResyncSeen, ApplyTimelineSeen
           DEF Route, Client
      <3>2. /\ UNCHANGED <<db, hub, event>> /\ \A p \in Readers : ReaderInv(p)
            /\ \A p \in Readers \ {r} :
                  /\ sub'[p] = sub[p] /\ wire'[p] = wire[p] /\ source'[p] = source[p]
                  /\ tab'[p] = tab[p] /\ resync'[p] = resync[p]
        BY <2>9, ReaderStep DEF StreamInv, hubVars
      <3> QED BY <3>1, <3>2, OthersUnmoved
    <2> QED BY <2>1, <2>2, <2>3, <2>4, <2>5, <2>6, <2>7, <2>8, <2>9 DEF StreamNext, Hub
  <1> QED BY <1>1, <1>2, <1>3 DEF StreamInv

\* Every step keeps the invariant, and so does a step of another part.
LEMMA StreamInvKept ==
  ASSUME StreamInv, [StreamNext]_streamVars
  PROVE  StreamInv'
  <1>1. CASE UNCHANGED streamVars
    <2>1. /\ UNCHANGED <<emitted, queue, hub, event, nextIdx, db, sub, wire, source, tab, resync,
                         timeline>>
      BY <1>1 DEF streamVars, hubVars
    <2>2. StreamTypes' /\ HubInv'
      BY <2>1 DEF StreamInv, StreamTypes, HubInv, Stored
    <2>3. (timeline.phase = "read" => Gapless(timeline.rows))'
      BY <2>1 DEF StreamInv, Gapless, Stored
    <2>4. \A n : Undelivered(n)' = Undelivered(n)
      BY <2>1 DEF Undelivered
    <2>5. \A q \in Readers : ReaderInv(q)'
      BY <2>1, <2>4, Unmoved DEF StreamInv
    <2> QED BY <2>2, <2>3, <2>5 DEF StreamInv
  <1> QED BY <1>1, InvariantKept

\* What the invariant says of the types.
LEMMA InvariantTypes == StreamInv => StreamTypeOK
  <1> SUFFICES ASSUME StreamInv PROVE StreamTypeOK
    OBVIOUS
  <1>1. /\ emitted \in 0..MaxEvents /\ queue \in 0..emitted
        /\ hub \in {"free", "writing", "written"}
        /\ event \in Numbers /\ nextIdx \in Numbers /\ db \in Seq(Numbers)
        /\ timeline.phase \in {"idle", "asked", "read"} /\ StreamTypes
    BY DEF StreamInv, StreamTypes
  <1>2. queue \in 0..MaxEvents
    BY <1>1, NumbersAreIntegers
  <1>3. ASSUME NEW r \in Readers
        PROVE  /\ {source[r].url, source[r].lastId, tab[r].cursor} \subseteq Numbers
               /\ UNION {tab[r].seen, tab[r].rows, tab[r].cached} \subseteq Numbers
    BY <1>1, ReaderTypes
  <1>4. ASSUME NEW r \in Readers
        PROVE  /\ sub[r].after \in Numbers
               /\ sub[r].history \in Seq(Numbers) /\ sub[r].buffer \in Seq(Numbers)
               /\ wire[r] \in Seq(Numbers) /\ tab[r].pending \in Seq(Numbers)
               /\ source[r].state \in SourceStates /\ source[r].attempts \in 0..MaxAttempts
               /\ resync[r].phase \in {"idle", "asked", "returned"}
    BY <1>1, ReaderTypes
  <1> QED BY <1>1, <1>2, <1>3, <1>4 DEF StreamTypeOK, SourceStates

\* What the invariant says of the cursors.
LEMMA InvariantShows == StreamInv => CursorIsShown
  <1> SUFFICES ASSUME StreamInv, NEW r \in Readers, NEW n \in Range(db),
                      n <= Later(tab[r].cursor, Later(source[r].url, source[r].lastId))
               PROVE  n \in Shown(r)
    BY DEF CursorIsShown
  <1>1. PICK c \in Int, s \in Int : c = tab[r].cursor /\ s = Resume(r) /\ s <= c
    BY ReaderNumbers DEF AheadOfStream
  <1>2. Later(c, s) = c
    BY <1>1 DEF Later
  <1>3. n \in Stored /\ n <= tab[r].cursor
    BY <1>1, <1>2 DEF Resume, Stored
  <1> QED BY <1>3, ReaderNumbers DEF TabInv

\* What the hub, the route and the clients know of the events of a thread hangs
\* together at every moment (eventHub.ts, chats.ts, useThreadEventStream.ts).
THEOREM StreamInvariant == StreamSpec => []StreamInv
  <1>1. StreamInv /\ [StreamNext]_streamVars => StreamInv'
    BY StreamInvKept
  <1> QED BY <1>1, InvariantAtFirst, PTL DEF StreamSpec

\* The types of the state, and the order of the rows (eventHub.ts, chats.ts).
THEOREM StreamTypesHold == StreamSpec => []StreamTypeOK
  BY InvariantTypes, StreamInvariant, PTL

\* No connection resumes behind an event that the client does not show
\* (chats.ts:50, useThreadEventStream.ts:897).
THEOREM CursorIsAlwaysShown == StreamSpec => []CursorIsShown
  BY InvariantShows, StreamInvariant, PTL

-----------------------------------------------------------------------------
(* The steps of a client, seen from outside.                               *)
-----------------------------------------------------------------------------
\* What a client has accepted changes only when it accepts one event, or hands all of
\* them to its rows.
LEMMA PendingSteps ==
  ASSUME StreamInv, StreamNext, NEW q \in Readers
  PROVE  \/ tab'[q].pending = tab[q].pending
         \/ tab'[q].pending = << >>
         \/ /\ wire[q] # << >> /\ Head(wire[q]) \notin tab[q].seen
            /\ tab'[q].pending = Append(tab[q].pending, Head(wire[q]))
  <1>1. CASE UNCHANGED tab
    BY <1>1
  <1>2. ASSUME NEW r \in Readers, r # q, Route(r) \/ Client(r)
        PROVE  tab'[q].pending = tab[q].pending
    BY <1>2, ReaderStep DEF StreamInv
  <1>3. tab[q] \in Tabs /\ resync[q].rows \in SUBSET Numbers /\ tab \in [Readers -> Tabs]
    BY DEF StreamInv, StreamTypes
  <1>4. ASSUME NEW t, NEW S PROVE Synced(t, S).pending = t.pending \/ t \notin Tabs
    BY DEF Synced, Tabs
  <1>5. CASE StartStream(q)
    <2>1. Synced(tab[q], tab[q].cached) \in Tabs
      BY <1>3, TabTypes DEF Tabs
    <2> DEFINE t == Synced(tab[q], tab[q].cached)
    <2>2. tab'[q] = [t EXCEPT !.cursor = Later(t.cursor, Newest(t.rows))]
      BY <1>3, <1>5 DEF StartStream
    <2>3. t.pending = tab[q].pending
      BY <1>3, <1>4
    <2> HIDE DEF t
    <2>4. tab'[q].pending = t.pending
      BY <2>2
    <2> QED BY <2>3, <2>4
  <1>6. CASE Receive(q)
    BY <1>3, <1>6 DEF Receive, Tabs
  <1>7. CASE Frame(q) \/ Unmount(q)
    BY ZenonT(60), <1>3, <1>7 DEF Frame, Unmount, Flushed, Tabs
  <1>8. CASE ApplyTimeline(q)
    <2> DEFINE rows == Merged(resync[q].rows, tab[q].rows)
               t == [tab[q] EXCEPT !.cached = resync[q].rows, !.rows = rows, !.seen = rows,
                                   !.cursor = Later(@, Newest(rows))]
    <2>1. tab'[q] = Synced(t, resync[q].rows)
      BY <1>3, <1>8 DEF ApplyTimeline
    <2>2. t.pending = tab[q].pending
      BY <1>3 DEF Tabs
    <2>3. Synced(t, resync[q].rows).pending = t.pending
      <3> HIDE DEF rows
      <3> QED BY <1>3 DEF Synced, Tabs
    <2> QED BY <2>1, <2>2, <2>3
  <1>9. Subscribe(q) \/ ReadHistory(q) \/ FlushHistory(q) \/ Drop(q) \/ Retry(q) \/ Resync(q)
           => UNCHANGED tab
    BY DEF Subscribe, ReadHistory, FlushHistory, Drop, Retry, Resync
  <1>10. Hub \/ ReadTimeline \/ ReturnTimeline \/ Restart => UNCHANGED tab
    BY DEF Hub, Emit, Number, Write, WriteFails, Deliver, ReadTimeline, ReturnTimeline, Restart
  <1> QED BY <1>1, <1>2, <1>5, <1>6, <1>7, <1>8, <1>9, <1>10 DEF StreamNext, Route, Client

\* A client takes no event from the stream that is older than one it has accounted for
\* (useThreadEventStream.ts:634).
THEOREM EventsAreAcceptedInOrder == StreamSpec => AcceptedInOrder
  <1> DEFINE Accepted ==
        \A r \in Readers :
           Len(tab'[r].pending) > Len(tab[r].pending)
              => tab'[r].pending[Len(tab'[r].pending)] >= tab[r].cursor
  <1>1. StreamInv /\ StreamNext => Accepted
    <2> SUFFICES ASSUME StreamInv, StreamNext, NEW r \in Readers,
                        Len(tab'[r].pending) > Len(tab[r].pending)
                 PROVE  tab'[r].pending[Len(tab'[r].pending)] >= tab[r].cursor
      OBVIOUS
    <2>1. tab[r].pending \in Seq(Numbers) /\ tab[r].cursor \in Int /\ Stored \subseteq Int
      BY ReaderNumbers
    <2>2. /\ wire[r] # << >> /\ Head(wire[r]) \notin tab[r].seen
          /\ tab'[r].pending = Append(tab[r].pending, Head(wire[r]))
      <3>1. Len(tab[r].pending) \in Nat /\ Len(<< >>) = 0
        BY <2>1
      <3>2. tab'[r].pending # tab[r].pending /\ tab'[r].pending # << >>
        BY <3>1
      <3> QED BY <3>2, PendingSteps
    <2>3. tab[r].cursor <= Head(wire[r]) /\ Head(wire[r]) \in Int
      BY <2>1, <2>2, HeadOfWire
    <2>4. tab'[r].pending[Len(tab'[r].pending)] = Head(wire[r])
      BY <2>1, <2>2
    <2> QED BY <2>1, <2>3, <2>4
  <1>2. UNCHANGED streamVars => Accepted
    <2> SUFFICES ASSUME UNCHANGED streamVars, NEW r \in Readers,
                        Len(tab'[r].pending) > Len(tab[r].pending)
                 PROVE  FALSE
      OBVIOUS
    <2> QED BY DEF streamVars
  <1>3. StreamInv /\ [StreamNext]_streamVars => Accepted
    BY <1>1, <1>2
  <1> QED BY <1>3, StreamInvariant, PTL DEF StreamSpec, AcceptedInOrder

-----------------------------------------------------------------------------
(* The refinement of the ledger.                                           *)
-----------------------------------------------------------------------------
\* The cursor of a client never goes back.
LEMMA CursorGrows ==
  ASSUME StreamInv, StreamNext, NEW q \in Readers
  PROVE  tab[q].cursor <= tab'[q].cursor
  <1>1. /\ tab[q] \in Tabs /\ resync[q].rows \in SUBSET Numbers /\ tab \in [Readers -> Tabs]
        /\ tab[q].cached \in SUBSET Numbers /\ tab[q].cursor \in Int
        /\ wire[q] \in Seq(Numbers) /\ tab[q].pending \in Seq(Numbers)
    BY ReaderTypes, ReaderNumbers DEF StreamInv, StreamTypes
  <1>2. \A i, j \in Int : Later(i, j) \in Int /\ i <= Later(i, j) /\ i <= i
    BY DEF Later
  <1>3. ASSUME NEW t \in Tabs, NEW S \in SUBSET Numbers
        PROVE  Synced(t, S) \in Tabs /\ t.cursor <= Synced(t, S).cursor
    <2>1. Synced(t, S) \in Tabs
      BY TabTypes
    <2>2. t.cursor \in Int /\ Newest(S) \in Int
      <3>1. t.cursor \in Numbers /\ Newest(S) \in Numbers
        BY NewestProperties DEF Tabs
      <3> QED BY <3>1, NumbersAreIntegers
    <2>3. Synced(t, S).cursor = t.cursor \/ Synced(t, S).cursor = Later(t.cursor, Newest(S))
      BY DEF Synced, Tabs
    <2> QED BY <1>2, <2>1, <2>2, <2>3
  <1>4. ASSUME NEW t \in Tabs PROVE t.cursor \in Int
    <2>1. t.cursor \in Numbers
      BY DEF Tabs
    <2> QED BY <2>1, NumbersAreIntegers
  <1>5. CASE tab'[q] = tab[q]
    BY <1>1, <1>2, <1>5
  <1>6. ASSUME NEW r \in Readers, r # q, Route(r) \/ Client(r) PROVE tab'[q] = tab[q]
    BY <1>6, ReaderStep DEF StreamInv
  <1>7. CASE StartStream(q)
    <2> DEFINE t == Synced(tab[q], tab[q].cached)
    <2>1. t \in Tabs /\ tab[q].cursor <= t.cursor
      BY <1>1, <1>3
    <2>2. tab'[q].cursor = Later(t.cursor, Newest(t.rows))
      <3>1. tab'[q] = [t EXCEPT !.cursor = Later(t.cursor, Newest(t.rows))]
        BY <1>1, <1>7 DEF StartStream
      <3> HIDE DEF t
      <3> QED BY <2>1, <3>1 DEF Tabs
    <2> HIDE DEF t
    <2>3. PICK i \in Int, j \in Int, k \in Int :
             i = tab[q].cursor /\ j = t.cursor /\ k = Newest(t.rows) /\ i <= j
      <3>1. t.rows \in SUBSET Numbers
        BY <2>1 DEF Tabs
      <3>2. Newest(t.rows) \in Int
        BY <3>1, NewestProperties, NumbersAreIntegers
      <3> QED BY <1>1, <1>4, <2>1, <3>2
    <2>4. i <= Later(j, k)
      BY <2>3 DEF Later
    <2> QED BY <2>2, <2>3, <2>4
  <1>8. CASE Receive(q)
    <2>1. Head(wire[q]) \in Int
      <3>1. Head(wire[q]) \in Numbers
        BY <1>1, <1>8 DEF Receive
      <3> QED BY <3>1, NumbersAreIntegers
    <2>2. tab'[q].cursor = tab[q].cursor \/ tab'[q].cursor = Later(tab[q].cursor, Head(wire[q]))
      BY <1>1, <1>8 DEF Receive, Tabs
    <2> QED BY <1>1, <1>2, <2>1, <2>2
  <1>9. CASE Frame(q) \/ Unmount(q)
    <2> DEFINE new == Range(tab[q].pending) \ tab[q].rows
    <2>1. new \in SUBSET Numbers
      BY <1>1 DEF Range
    <2>2. tab'[q].cursor = Later(tab[q].cursor, Newest(new))
      BY ZenonT(60), <1>1, <1>9 DEF Frame, Unmount, Flushed, Tabs
    <2> HIDE DEF new
    <2>3. Newest(new) \in Int
      BY <2>1, NewestProperties, NumbersAreIntegers
    <2> QED BY <1>1, <1>2, <2>2, <2>3
  <1>10. CASE ApplyTimeline(q)
    <2> DEFINE rows == Merged(resync[q].rows, tab[q].rows)
               t == [tab[q] EXCEPT !.cached = resync[q].rows, !.rows = rows, !.seen = rows,
                                   !.cursor = Later(@, Newest(rows))]
    <2>1. tab'[q] = Synced(t, resync[q].rows)
      BY <1>1, <1>10 DEF ApplyTimeline
    <2>2. rows \in SUBSET Numbers
      BY <1>1 DEF Merged, Tabs
    <2>3. t \in Tabs /\ t.cursor = Later(tab[q].cursor, Newest(rows))
      <3> HIDE DEF rows
      <3>1. Newest(rows) \in Numbers /\ tab[q].cursor \in Numbers
        BY <1>1, <2>2, NewestProperties DEF Tabs
      <3>2. Later(tab[q].cursor, Newest(rows)) \in Numbers
        BY <3>1, NumbersAreIntegers
      <3> QED BY <1>1, <2>2, <3>2 DEF Tabs
    <2> HIDE DEF t, rows
    <2>4. Newest(rows) \in Int
      BY <2>2, NewestProperties, NumbersAreIntegers
    <2>5. tab[q].cursor <= t.cursor
      BY <1>1, <1>2, <2>3, <2>4
    <2>6. Synced(t, resync[q].rows) \in Tabs /\ t.cursor <= Synced(t, resync[q].rows).cursor
      BY <1>1, <1>3, <2>3
    <2>7. PICK i \in Int, j \in Int, k \in Int :
             i = tab[q].cursor /\ j = t.cursor /\ k = tab'[q].cursor /\ i <= j /\ j <= k
      BY <1>1, <1>4, <2>1, <2>3, <2>5, <2>6
    <2>8. i <= k
      BY <2>7
    <2> QED BY <2>7, <2>8
  <1>11. Subscribe(q) \/ ReadHistory(q) \/ FlushHistory(q) \/ Drop(q) \/ Retry(q) \/ Resync(q)
           => UNCHANGED tab
    BY DEF Subscribe, ReadHistory, FlushHistory, Drop, Retry, Resync
  <1>12. Hub \/ ReadTimeline \/ ReturnTimeline \/ Restart => UNCHANGED tab
    BY DEF Hub, Emit, Number, Write, WriteFails, Deliver, ReadTimeline, ReturnTimeline, Restart
  <1> QED BY <1>5, <1>6, <1>7, <1>8, <1>9, <1>10, <1>11, <1>12 DEF StreamNext, Route, Client

\* What a client shows, in order, is a beginning of the rows.
ShownIsPrefix ==
    \A r \in Readers :
       /\ tab[r].cursor \in Int /\ Shown(r) = {n \in Stored : n <= tab[r].cursor}
       /\ \E k \in 0..Len(db) : /\ Shown(r) = Range(SubSeq(db, 1, k))
                                /\ InOrder(Shown(r)) = SubSeq(db, 1, k)

\* So the invariant says.
LEMMA PrefixShown == StreamInv => ShownIsPrefix
  <1> SUFFICES ASSUME StreamInv, NEW r \in Readers
               PROVE  /\ tab[r].cursor \in Int /\ Shown(r) = {n \in Stored : n <= tab[r].cursor}
                      /\ \E k \in 0..Len(db) : /\ Shown(r) = Range(SubSeq(db, 1, k))
                                               /\ InOrder(Shown(r)) = SubSeq(db, 1, k)
    BY DEF ShownIsPrefix
  <1>1. /\ db \in Seq(Numbers) /\ Ascending(db) /\ tab[r].cursor \in Int
        /\ Shown(r) = {n \in Range(db) : n <= tab[r].cursor}
    BY ReaderNumbers DEF StreamInv, StreamTypes, HubInv, TabInv, Stored
  <1> QED BY <1>1, PrefixUpTo DEF Stored

\* A row stored is an event published.
LEMMA WritePublishes ==
  ASSUME StreamInv, Write
  PROVE  Ledger!Publish
  <1>1. /\ db \in Seq(Numbers) /\ db' = Append(db, event) /\ UNCHANGED tab
        /\ \A n \in Stored : n < event
    BY DEF StreamInv, StreamTypes, HubInv, Write
  <1>2. /\ Len(db') = Len(db) + 1 /\ SubSeq(db', 1, Len(db)) = db
        /\ db'[Len(db')] = event
    BY <1>1
  <1>3. db # << >> => db[Len(db)] < event
    <2> SUFFICES ASSUME db # << >> PROVE db[Len(db)] \in Stored
      BY <1>1
    <2>1. Len(db) \in DOMAIN db
      BY <1>1
    <2> QED BY <2>1 DEF Stored, Range
  <1>4. db # << >> => db'[Len(db')] > db[Len(db)]
    <2> SUFFICES ASSUME db # << >> PROVE event > db[Len(db)]
      BY <1>2
    <2> QED BY <1>3
  <1>5. ShownInOrder' = ShownInOrder
    BY <1>1 DEF ShownInOrder, Shown
  <1> QED BY <1>2, <1>4, <1>5 DEF Ledger!Publish

\* A step of a client shows it a longer beginning, or what it was shown before.
LEMMA ClientShows ==
  ASSUME StreamInv, ShownIsPrefix, ShownIsPrefix', StreamNext,
         NEW r \in Readers, Route(r) \/ Client(r)
  PROVE  Ledger!Show(r) \/ UNCHANGED Ledger!ledgerVars
  <1>1. /\ db' = db /\ \A q \in Readers \ {r} : tab'[q] = tab[q]
    BY ReaderStep DEF StreamInv, hubVars
  <1>2. \A q \in Readers \ {r} : Shown(q)' = Shown(q)
    BY <1>1 DEF Shown
  <1>3. PICK j \in 0..Len(db) : /\ Shown(r) = Range(SubSeq(db, 1, j))
                               /\ InOrder(Shown(r)) = SubSeq(db, 1, j)
    BY DEF ShownIsPrefix
  <1>4. PICK k \in 0..Len(db) : /\ Shown(r)' = Range(SubSeq(db, 1, k))
                               /\ InOrder(Shown(r)') = SubSeq(db, 1, k)
    BY <1>1 DEF ShownIsPrefix
  <1>5. Shown(r) \subseteq Shown(r)'
    <2>1. /\ Shown(r) = {n \in Stored : n <= tab[r].cursor} /\ tab[r].cursor \in Int
          /\ Shown(r)' = {n \in Stored' : n <= tab'[r].cursor} /\ tab'[r].cursor \in Int
      BY DEF ShownIsPrefix
    <2>2. Stored' = Stored /\ Stored \subseteq Int
      BY <1>1, ReaderNumbers DEF Stored
    <2>3. PICK c \in Int, d \in Int : c = tab[r].cursor /\ d = tab'[r].cursor /\ c <= d
      BY <2>1, CursorGrows
    <2>4. ASSUME NEW n \in Int, n <= c PROVE n <= d
      BY <2>3, <2>4
    <2> QED BY <2>1, <2>2, <2>3, <2>4
  <1>6. db \in Seq(Numbers)
    BY DEF StreamInv, StreamTypes
  <1>7. /\ ShownInOrder = [q \in Readers |-> InOrder(Shown(q))]
        /\ ShownInOrder' = [q \in Readers |-> InOrder(Shown(q)')]
    BY DEF ShownInOrder
  <1>8. CASE k <= j
    <2>1. Shown(r)' \subseteq Shown(r)
      <3>1. \A i \in 1..k : i \in 1..j /\ SubSeq(db, 1, k)[i] = SubSeq(db, 1, j)[i]
        BY <1>6, <1>8
      <3>2. DOMAIN SubSeq(db, 1, k) = 1..k /\ DOMAIN SubSeq(db, 1, j) = 1..j
        BY <1>6
      <3> QED BY <1>3, <1>4, <3>1, <3>2 DEF Range
    <2>2. \A q \in Readers : Shown(q)' = Shown(q)
      <3>1. Shown(r)' = Shown(r)
        BY <1>5, <2>1
      <3> QED BY <1>2, <3>1
    <2>3. ShownInOrder' = ShownInOrder
      BY <1>7, <2>2
    <2> QED BY <1>1, <2>3 DEF Ledger!ledgerVars
  <1>9. CASE ~(k <= j)
    <2>1. Len(ShownInOrder[r]) = j
      BY <1>3, <1>6, <1>7
    <2>2. k \in (j + 1)..Len(db)
      BY <1>6, <1>9
    <2>3. ShownInOrder' = [ShownInOrder EXCEPT ![r] = SubSeq(db, 1, k)]
      BY <1>2, <1>4, <1>7
    <2> QED BY <1>1, <2>1, <2>2, <2>3 DEF Ledger!Show
  <1> QED BY <1>8, <1>9

\* Whatever is dropped, retried, restarted or fetched, the stream keeps the promise of
\* the ledger (eventHub.ts:188, chats.ts:735, useThreadEventStream.ts:634).
THEOREM StreamImplementsLedger == StreamSpec => ImplementsLedger
  <1>1. StreamInit => Ledger!LedgerInit
    <2> SUFFICES ASSUME StreamInit PROVE Ledger!LedgerInit
      OBVIOUS
    <2>1. \A r \in Readers : Shown(r) = Range(<< >>)
      BY DEF StreamInit, Shown, NoTab, Range
    <2>2. << >> \in Seq(Int) /\ Ascending(<< >>)
      BY DEF Ascending
    <2>3. InOrder(Range(<< >>)) = << >>
      BY <2>2, InOrderUnique
    <2>4. ShownInOrder = [r \in Readers |-> << >>]
      BY <2>1, <2>3 DEF ShownInOrder
    <2> QED BY <2>4 DEF StreamInit, Ledger!LedgerInit
  <1>2. StreamInv /\ ShownIsPrefix /\ ShownIsPrefix' /\ [StreamNext]_streamVars
           => [Ledger!LedgerNext]_(Ledger!ledgerVars)
    <2> SUFFICES ASSUME StreamInv, ShownIsPrefix, ShownIsPrefix', [StreamNext]_streamVars
                 PROVE  Ledger!LedgerNext \/ UNCHANGED Ledger!ledgerVars
      OBVIOUS
    <2>1. CASE UNCHANGED <<db, tab>>
      BY <2>1 DEF Ledger!ledgerVars, ShownInOrder, Shown
    <2>2. CASE Write
      BY <2>2, WritePublishes DEF Ledger!LedgerNext
    <2>3. ASSUME StreamNext, NEW r \in Readers, Route(r) \/ Client(r)
          PROVE  Ledger!LedgerNext \/ UNCHANGED Ledger!ledgerVars
      BY <2>3, ClientShows DEF Ledger!LedgerNext
    <2>4. Emit \/ Number \/ WriteFails \/ Deliver \/ ReadTimeline \/ ReturnTimeline \/ Restart
             => UNCHANGED <<db, tab>>
      BY DEF Emit, Number, WriteFails, Deliver, ReadTimeline, ReturnTimeline, Restart, hubVars
    <2>5. UNCHANGED streamVars => UNCHANGED <<db, tab>>
      BY DEF streamVars, hubVars
    <2> QED BY <2>1, <2>2, <2>3, <2>4, <2>5 DEF StreamNext, Hub
  <1> QED BY <1>1, <1>2, StreamInvariant, PrefixShown, PTL
          DEF StreamSpec, ImplementsLedger, Ledger!LedgerSpec
=============================================================================
