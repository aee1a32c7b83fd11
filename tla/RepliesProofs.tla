---------------------------- MODULE RepliesProofs ----------------------------
(***************************************************************************)
(* Proofs about a reply (ReplyText and ReplyRoutes, composed by            *)
(* MCReplies), for every value of the constants.  First what is needed of  *)
(* sets, sequences and folds; then the streams of the routes; then the     *)
(* text filters, whose invariant says how far along the text in one piece  *)
(* they are; then the two together, and what the clients of all routes     *)
(* read of one reply.                                                      *)
(***************************************************************************)
EXTENDS MCReplies, TLAPS, FiniteSetTheorems, SequenceTheorems, NaturalsInduction,
        WellFoundedInduction

-----------------------------------------------------------------------------
(* Numbers, sets and sequences.                                            *)

(* A set of naturals that is not empty has a least element.                *)
LEMMA LeastOf ==
  ASSUME NEW B, B \subseteq Nat, B # {} PROVE \E n \in B : \A k \in B : n <= k
<1>1. PICK n \in B : \A k \in B : ~(<<k, n>> \in OpToRel(<, Nat))
  BY NatLessThanWellFounded, WFMin
<1>2. \A k \in B : ~(k < n) BY <1>1 DEF OpToRel
<1> QED BY <1>2

(* What holds of 0 and of a successor when it holds before it holds.       *)
LEMMA Counting ==
  ASSUME NEW n \in Nat, NEW G, 0 \in G, \A i \in 1..n : i - 1 \in G => i \in G
  PROVE  0..n \subseteq G
<1> SUFFICES ASSUME NEW j \in 0..n, j \notin G PROVE FALSE OBVIOUS
<1> DEFINE B == {i \in 0..n : i \notin G}
<1>1. PICK i \in B : \A k \in B : i <= k
  <2>1. B \subseteq Nat /\ B # {} OBVIOUS
  <2> QED BY <2>1, LeastOf
<1>2. i \in 1..n /\ i - 1 \in 0..n /\ i - 1 \notin B BY <1>1
<1> QED BY <1>1, <1>2

(* The definition of Without: what g leaves of the first files of s.       *)
LeftAt(g, s, S, i) == IF i = 0 THEN <<>>
                      ELSE IF s[i] \in S THEN g[i - 1] ELSE Append(g[i - 1], s[i])
Fills(m, g, s, S) == \A i \in 0..m : g[i] = LeftAt(g, s, S, i)

(* The recursive definition has the value of a function that fills up.     *)
LEMMA WithoutFills ==
  ASSUME NEW T, NEW s \in Seq(T), NEW S
  PROVE  \E g \in [0..Len(s) -> Seq(T)] : Fills(Len(s), g, s, S) /\ Without(s, S) = g[Len(s)]
<1> DEFINE n == Len(s)
           Is(g) == g = [i \in 0..n |-> LeftAt(g, s, S, i)]
           it == CHOOSE g : Is(g)
           G == {m \in 0..n : \E g \in [0..n -> Seq(T)] : Fills(m, g, s, S)}
<1>1. n \in Nat /\ \A i \in 1..n : s[i] \in T OBVIOUS
<1>2. 0 \in G
  <2> DEFINE g == [i \in 0..n |-> <<>>]
  <2>1. g \in [0..n -> Seq(T)] /\ Fills(0, g, s, S) BY <1>1 DEF Fills, LeftAt
  <2> HIDE DEF g
  <2> QED BY <1>1, <2>1
<1>3. ASSUME NEW i \in 1..n, i - 1 \in G PROVE i \in G
  <2>1. PICK g \in [0..n -> Seq(T)] : Fills(i - 1, g, s, S) BY <1>3
  <2> DEFINE h == [g EXCEPT ![i] = LeftAt(g, s, S, i)]
  <2>2. LeftAt(g, s, S, i) \in Seq(T)
    <3>1. g[i - 1] \in Seq(T) /\ s[i] \in T /\ i # 0 BY <1>1
    <3> QED BY <3>1 DEF LeftAt
  <2>3. h \in [0..n -> Seq(T)] BY <2>2
  <2>4. \A j \in 0..n : h[j] = IF j = i THEN LeftAt(g, s, S, i) ELSE g[j] OBVIOUS
  <2> HIDE DEF h, n
  <2>5. ASSUME NEW j \in 0..i PROVE h[j] = LeftAt(h, s, S, j)
    <3>1. j \in 0..n /\ (j # 0 => j - 1 \in 0..n /\ j - 1 # i) BY <1>1
    <3>2. j # 0 => h[j - 1] = g[j - 1] BY <2>4, <3>1
    <3>3. LeftAt(h, s, S, j) = LeftAt(g, s, S, j) BY <3>2 DEF LeftAt
    <3>4. h[j] = LeftAt(g, s, S, j)
      <4>1. CASE j = i BY <2>4, <3>1, <4>1
      <4>2. CASE j # i
        <5>1. j \in 0..(i - 1) BY <1>1, <4>2
        <5> QED BY <2>1, <2>4, <3>1, <4>2, <5>1 DEF Fills
      <4> QED BY <4>1, <4>2
    <3> QED BY <3>3, <3>4
  <2>6. Fills(i, h, s, S) BY <2>5 DEF Fills
  <2> QED BY <1>1, <2>3, <2>6
<1> HIDE DEF n
<1>4. n \in G
  <2>1. n \in 0..n BY <1>1
  <2> HIDE DEF G
  <2>2. 0..n \subseteq G BY <1>1, <1>2, <1>3, Counting
  <2> QED BY <2>1, <2>2
<1>5. PICK g \in [0..n -> Seq(T)] : Fills(n, g, s, S) BY <1>4
<1>6. Is(g) BY <1>5 DEF Fills
<1>7. Is(it) BY <1>6
<1>8. it = g
  <2> DEFINE E == {i \in 0..n : it[i] = g[i]}
  <2> HIDE DEF it
  <2>1. \A i \in 0..n : it[i] = LeftAt(it, s, S, i) BY <1>7
  <2>2. \A i \in 0..n : g[i] = LeftAt(g, s, S, i) BY <1>5 DEF Fills
  <2>3. 0 \in E
    <3>1. 0 \in 0..n BY <1>1
    <3> QED BY <2>1, <2>2, <3>1 DEF LeftAt
  <2>4. ASSUME NEW i \in 1..n, i - 1 \in E PROVE i \in E
    <3>1. i \in 0..n /\ i # 0 /\ it[i - 1] = g[i - 1] BY <1>1, <2>4
    <3>2. LeftAt(it, s, S, i) = LeftAt(g, s, S, i) BY <3>1 DEF LeftAt
    <3> QED BY <2>1, <2>2, <3>1, <3>2
  <2>5. \A i \in E : it[i] = g[i] OBVIOUS
  <2> HIDE DEF E
  <2>6. 0..n \subseteq E BY <1>1, <2>3, <2>4, Counting
  <2>7. it = [i \in 0..n |-> LeftAt(it, s, S, i)] BY <1>7
  <2>8. DOMAIN it = 0..n /\ it = [i \in DOMAIN it |-> it[i]] BY <2>7
  <2> QED BY <2>5, <2>6, <2>8
<1>9. Without(s, S) = it[n] BY DEF Without, LeftAt, n
<1> QED BY <1>5, <1>8, <1>9 DEF n

(* What is left of a directory: the files that are not removed, each once  *)
(* when each was there once, and fewer of them when one was removed.       *)
Once(s) == \A i, j \in DOMAIN s : s[i] = s[j] => i = j

(* What Without leaves.                                                    *)
LEMMA WithoutFacts ==
  ASSUME NEW T, NEW s \in Seq(T), NEW S
  PROVE  /\ Without(s, S) \in Seq(T)
         /\ ToSet(Without(s, S)) = ToSet(s) \ S
         /\ Len(Without(s, S)) <= Len(s)
         /\ ToSet(s) \cap S # {} => Len(Without(s, S)) < Len(s)
         /\ Once(s) => Once(Without(s, S))
<1> DEFINE n == Len(s)
           R(i) == {s[j] : j \in 1..i}
<1>1. PICK g \in [0..n -> Seq(T)] : Fills(n, g, s, S) /\ Without(s, S) = g[n] BY WithoutFills
<1>2. n \in Nat /\ DOMAIN s = 1..n /\ \A i \in 1..n : s[i] \in T OBVIOUS
<1>3. \A i \in 0..n : g[i] \in Seq(T) /\ Len(g[i]) \in Nat OBVIOUS
<1>4. g[0] = <<>>
  <2>1. 0 \in 0..n BY <1>2
  <2> QED BY <1>1, <2>1 DEF Fills, LeftAt
<1>5. \A i \in 1..n : g[i] = IF s[i] \in S THEN g[i - 1] ELSE Append(g[i - 1], s[i])
  <2> TAKE i \in 1..n
  <2>1. i \in 0..n /\ i # 0 BY <1>2
  <2> QED BY <1>1, <2>1 DEF Fills, LeftAt
<1> DEFINE Fine(i) ==
             /\ ToSet(g[i]) = R(i) \ S
             /\ Len(g[i]) <= i
             /\ R(i) \cap S # {} => Len(g[i]) < i
             /\ Once(s) => Once(g[i])
           G == {i \in 0..n : Fine(i)}
<1>6. 0 \in G
  <2>1. DOMAIN g[0] = {} /\ Len(g[0]) = 0 BY <1>4
  <2>2. R(0) = {} OBVIOUS
  <2> QED BY <1>2, <2>1, <2>2 DEF ToSet, Once
<1>7. ASSUME NEW i \in 1..n, i - 1 \in G PROVE i \in G
  <2>0. Fine(i - 1) BY <1>7
  <2>1. /\ i - 1 \in 0..n /\ i \in Nat /\ g[i - 1] \in Seq(T)
        /\ Len(g[i - 1]) \in Nat /\ Fine(i - 1)
    <3>1. i - 1 \in 0..n /\ i \in Nat BY <1>2
    <3> QED BY <1>3, <2>0, <3>1
  <2>2. R(i) = R(i - 1) \cup {s[i]} BY <1>2
  <2>3. CASE s[i] \in S
    <3>1. g[i] = g[i - 1] BY <1>5, <2>3
    <3> QED BY <2>1, <2>2, <2>3, <3>1
  <2>4. CASE s[i] \notin S
    <3>1. g[i] = Append(g[i - 1], s[i]) /\ s[i] \in T BY <1>2, <1>5, <2>4
    <3>2. /\ Len(g[i]) = Len(g[i - 1]) + 1
          /\ DOMAIN g[i - 1] = 1..Len(g[i - 1]) /\ DOMAIN g[i] = 1..Len(g[i])
          /\ \A j \in 1..Len(g[i - 1]) : g[i][j] = g[i - 1][j]
          /\ g[i][Len(g[i])] = s[i]
      BY <2>1, <3>1
    <3>3. ToSet(g[i]) = ToSet(g[i - 1]) \cup {s[i]}
      <4> HIDE DEF n, Fine
      <4>1. ToSet(g[i]) \subseteq ToSet(g[i - 1]) \cup {s[i]} BY <2>1, <3>2 DEF ToSet
      <4>2. Len(g[i]) \in DOMAIN g[i] /\ \A j \in DOMAIN g[i - 1] : j \in DOMAIN g[i]
        BY <2>1, <3>2
      <4> QED BY <3>2, <4>1, <4>2 DEF ToSet
    <3>4. ToSet(g[i]) = R(i) \ S BY <2>1, <2>2, <2>4, <3>3
    <3>5. Len(g[i]) <= i /\ (R(i) \cap S # {} => Len(g[i]) < i)
      BY <2>1, <2>2, <2>4, <3>2
    <3>6. ASSUME Once(s) PROVE Once(g[i])
      <4>1. Once(g[i - 1]) BY <2>1, <3>6
      <4>2. \A j \in 1..Len(g[i - 1]) : g[i - 1][j] # s[i]
        <5> SUFFICES ASSUME NEW j \in 1..Len(g[i - 1]), g[i - 1][j] = s[i] PROVE FALSE OBVIOUS
        <5>1. s[i] \in R(i - 1) BY <2>1, <3>2 DEF ToSet
        <5>2. PICK k \in 1..(i - 1) : s[k] = s[i] BY <5>1
        <5>3. k \in 1..n /\ k # i BY <1>2
        <5> QED BY <1>2, <3>6, <5>2, <5>3 DEF Once
      <4> QED BY <2>1, <3>2, <4>1, <4>2 DEF Once
    <3> QED BY <3>4, <3>5, <3>6
  <2> QED BY <2>3, <2>4
<1>8. \A i \in G : Fine(i) OBVIOUS
<1>9. n \in 0..n BY <1>2
<1>10. R(n) = ToSet(s) BY <1>2 DEF ToSet
<1> HIDE DEF G
<1>11. Fine(n) BY <1>2, <1>6, <1>7, <1>8, <1>9, Counting
<1> QED BY <1>1, <1>3, <1>9, <1>10, <1>11

(* What holds of the empty set, and of a finite set when it holds  *)
(* of the smaller ones, holds of every subset of a finite set.             *)
LEMMA FiniteInduct ==
  ASSUME NEW S, IsFiniteSet(S), NEW G,
         \A s \in SUBSET S : (\A t \in SUBSET s : t # s => t \in G) => s \in G
  PROVE  SUBSET S \subseteq G
<1> DEFINE B == {n \in Nat : \E s \in SUBSET S : s \notin G /\ Cardinality(s) = n}
<1> SUFFICES ASSUME NEW s0 \in SUBSET S, s0 \notin G PROVE FALSE
  OBVIOUS
<1>1. \A s \in SUBSET S : IsFiniteSet(s) /\ Cardinality(s) \in Nat
  BY FS_Subset, FS_CardinalityType
<1>2. B \subseteq Nat /\ B # {} BY <1>1
<1> HIDE DEF B
<1>3. PICK n \in B : \A k \in B : n <= k BY <1>2, LeastOf
<1>5. PICK s \in SUBSET S : s \notin G /\ Cardinality(s) = n BY <1>3 DEF B
<1>6. PICK t \in SUBSET s : t # s /\ t \notin G BY <1>5
<1>7. Cardinality(t) < Cardinality(s) BY <1>1, <1>6, FS_Subset
<1>8. Cardinality(t) \in B /\ t \in SUBSET S BY <1>1, <1>6 DEF B
<1> QED BY <1>1, <1>3, <1>5, <1>7, <1>8

(* The function a fold over a set is defined by exists: pick chooses from  *)
(* what is left, and step takes what was chosen into the result.            *)
Picks(pick, S) == \A s \in SUBSET S : s # {} => pick[s] \in s
StepsIn(step, S, V) == \A x \in S, v \in V : step[x][v] \in V
IsFold(h, S, b, pick, step) ==
  \A s \in SUBSET S : h[s] = IF s = {} THEN b ELSE step[pick[s]][h[s \ {pick[s]}]]

(* A fold over the subsets of a finite set exists: the function that       *)
(* picks, steps and recurs.                                                *)
LEMMA FoldExists ==
  ASSUME NEW S, IsFiniteSet(S), NEW V, NEW b \in V, NEW pick, NEW step,
         Picks(pick, S), StepsIn(step, S, V)
  PROVE  \E h \in [SUBSET S -> V] : IsFold(h, S, b, pick, step)
<1> USE DEF Picks, StepsIn
<1> DEFINE rest(s) == s \ {pick[s]}
           Small(n) == {s \in SUBSET S : Cardinality(s) <= n}
           Good(n, h) == \A s \in Small(n) :
              h[s] = IF s = {} THEN b ELSE step[pick[s]][h[rest(s)]]
           P == {n \in Nat : \E h \in [SUBSET S -> V] : Good(n, h)}
<1>1. \A s \in SUBSET S : IsFiniteSet(s) /\ Cardinality(s) \in Nat
  BY FS_Subset, FS_CardinalityType
<1>2. \A s \in SUBSET S : Cardinality(s) = 0 => s = {} BY <1>1, FS_EmptySet
<1>3. ASSUME NEW s \in SUBSET S, s # {}
      PROVE  rest(s) \in SUBSET S /\ Cardinality(rest(s)) = Cardinality(s) - 1
  BY <1>1, <1>3, FS_RemoveElement
<1>4. 0 \in P
  <2> DEFINE h == [s \in SUBSET S |-> b]
  <2>1. Good(0, h) BY <1>1, <1>2
  <2> QED BY <2>1
<1>5. ASSUME NEW n \in P PROVE n + 1 \in P
  <2>1. PICK h \in [SUBSET S -> V] : Good(n, h) OBVIOUS
  <2> DEFINE g == [s \in SUBSET S |-> IF s = {} THEN b ELSE step[pick[s]][h[rest(s)]]]
  <2>2. g \in [SUBSET S -> V] BY <1>3
  <2>3. \A s \in Small(n) : g[s] = h[s] BY <2>1
  <2>4. ASSUME NEW s \in Small(n + 1), s # {} PROVE rest(s) \in Small(n)
    BY <1>1, <1>3, <2>4
  <2>5. Good(n + 1, g) BY <1>3, <2>3, <2>4
  <2>6. n + 1 \in Nat OBVIOUS
  <2> HIDE DEF Good, g
  <2> QED BY <2>2, <2>5, <2>6
<1>10. P \subseteq Nat OBVIOUS
<1> HIDE DEF P
<1>6. P = Nat
  <2> DEFINE B == Nat \ P
  <2> SUFFICES ASSUME B # {} PROVE FALSE BY <1>10
  <2>2. PICK n \in B : \A k \in B : n <= k BY LeastOf
  <2>3. n # 0 /\ n - 1 \in Nat BY <1>4
  <2>4. n - 1 \in P BY <2>2, <2>3
  <2> QED BY <1>5, <2>3, <2>4
<1>7. Cardinality(S) \in P BY <1>1, <1>6
<1>8. PICK h \in [SUBSET S -> V] : Good(Cardinality(S), h) BY <1>7 DEF P
<1>9. \A s \in SUBSET S : s \in Small(Cardinality(S)) BY <1>1, FS_Subset
<1> QED BY <1>8, <1>9 DEF IsFold

(* The greatest of some of the first n numbers.                            *)
LEMMA MaxFacts ==
  ASSUME NEW n \in Nat, NEW s \in SUBSET (1..n), s # {}
  PROVE  Max(s) \in s /\ \A i \in s : i <= Max(s)
<1> DEFINE B == {k \in Nat : n - k \in s}
<1>1. \A i \in s : i \in 1..n /\ n - i \in B OBVIOUS
<1>2. B \subseteq Nat /\ B # {} BY <1>1
<1>3. \A k \in B : n - k \in s OBVIOUS
<1> HIDE DEF B
<1>4. PICK k \in B : \A j \in B : k <= j BY <1>2, LeastOf
<1>5. n - k \in s /\ \A i \in s : n - k >= i BY <1>1, <1>2, <1>3, <1>4
<1>6. \A i \in s : i \in Int BY <1>1
<1>7. \E i \in s : \A j \in s : i >= j BY <1>5
<1>8. Max(s) \in s /\ \A i \in s : Max(s) >= i BY <1>7, Zenon DEF Max
<1> QED BY <1>6, <1>8

(* The least of some of the first n numbers.                               *)
LEMMA MinFacts ==
  ASSUME NEW s, s \subseteq Nat, s # {}
  PROVE  Min(s) \in s /\ \A i \in s : Min(s) <= i
<1>1. PICK k \in s : \A i \in s : k <= i BY LeastOf
<1>2. \E i \in s : \A j \in s : i =< j BY <1>1
<1> QED BY <1>2, Zenon DEF Min

(* A fold from the left goes through a sequence of values: the function    *)
(* `it` over sets of positions, which the fold is defined by, has at 1..i  *)
(* the i-th of them.                                                       *)
Folds(it, n, b, V, step) ==
  /\ it[{}] = b
  /\ \A s \in SUBSET (1..n) :
       s # {} /\ it[s \ {Max(s)}] \in V => it[s] = step[Max(s)][it[s \ {Max(s)}]]
Through(f, n, b, V, step) ==
  f \in [0..n -> V] /\ f[0] = b /\ \A i \in 1..n : f[i] = step[i][f[i - 1]]

(* The values a fold from the left goes through.                           *)
LEMMA FoldGoesThrough ==
  ASSUME NEW n \in Nat, NEW V, NEW b \in V, NEW step, StepsIn(step, 1..n, V),
         NEW it, Folds(it, n, b, V, step)
  PROVE  \E f : Through(f, n, b, V, step) /\ it[1..n] = f[n]
<1> DEFINE f == [i \in 0..n |-> it[1..i]]
           G == {i \in 0..n : it[1..i] \in V}
<1>1. 1..0 = {} OBVIOUS
<1>2. 0 \in G BY <1>1 DEF Folds
<1>3. ASSUME NEW i \in 1..n, it[1..(i - 1)] \in V
      PROVE  it[1..i] = step[i][it[1..(i - 1)]] /\ it[1..i] \in V
  <2>1. 1..i \in SUBSET (1..n) /\ i \in 1..i /\ i \in Nat OBVIOUS
  <2>2. Max(1..i) \in 1..i /\ \A k \in 1..i : k <= Max(1..i) BY <2>1, MaxFacts
  <2>3. Max(1..i) = i BY <2>1, <2>2
  <2>4. (1..i) \ {i} = 1..(i - 1) BY <2>1
  <2>5. it[1..i] = step[i][it[1..(i - 1)]] BY <1>3, <2>1, <2>3, <2>4 DEF Folds
  <2> QED BY <1>3, <2>5 DEF StepsIn
<1>4. ASSUME NEW i \in 1..n, i - 1 \in G PROVE i \in G
  <2>1. it[1..(i - 1)] \in V BY <1>4
  <2> QED BY <1>3, <2>1
<1>5. \A i \in G : it[1..i] \in V OBVIOUS
<1> HIDE DEF G
<1>6. \A i \in 0..n : it[1..i] \in V BY <1>2, <1>4, <1>5, Counting
<1>7. f \in [0..n -> V] BY <1>6
<1>8. \A i \in 0..n : f[i] = it[1..i] OBVIOUS
<1> HIDE DEF f
<1>9. f[0] = b
  <2>1. 0 \in 0..n OBVIOUS
  <2> QED BY <1>1, <1>8, <2>1 DEF Folds
<1>10. \A i \in 1..n : f[i] = step[i][f[i - 1]]
  <2> TAKE i \in 1..n
  <2>1. i \in 0..n /\ i - 1 \in 0..n OBVIOUS
  <2>2. f[i] = it[1..i] /\ f[i - 1] = it[1..(i - 1)] /\ it[1..(i - 1)] \in V BY <1>6, <1>8, <2>1
  <2> QED BY <1>3, <2>2
<1>11. n \in 0..n OBVIOUS
<1> QED BY <1>7, <1>8, <1>9, <1>10, <1>11 DEF Through

(* The function a fold is defined by, over sets of positions.             *)
MaxFold(it, n, b, V, step) ==
  /\ it \in [SUBSET (1..n) -> V]
  /\ \A s \in SUBSET (1..n) : it[s] = IF s = {} THEN b ELSE step[Max(s)][it[s \ {Max(s)}]]

(* There is such a function.                                               *)
LEMMA FoldFunctionExists ==
  ASSUME NEW n \in Nat, NEW V, NEW b \in V, NEW step, StepsIn(step, 1..n, V)
  PROVE  \E it : MaxFold(it, n, b, V, step)
<1> DEFINE D == 1..n
           pick == [s \in SUBSET D |-> Max(s)]
<1>1. IsFiniteSet(D)
  <2>1. 1 \in Int /\ n \in Int OBVIOUS
  <2> QED BY <2>1, FS_Interval, Zenon
<1>2. \A s \in SUBSET D : s # {} => Max(s) \in s BY MaxFacts
<1>3. Picks(pick, D) BY <1>2 DEF Picks
<1>4. \A s \in SUBSET D : pick[s] = Max(s) OBVIOUS
<1> HIDE DEF pick
<1>5. StepsIn(step, D, V) OBVIOUS
<1> HIDE DEF D
<1>6. PICK it \in [SUBSET D -> V] : IsFold(it, D, b, pick, step)
  BY <1>1, <1>3, <1>5, FoldExists
<1>7. \A s \in SUBSET D : it[s] = IF s = {} THEN b ELSE step[Max(s)][it[s \ {Max(s)}]]
  BY <1>4, <1>6 DEF IsFold
<1> QED BY <1>6, <1>7 DEF D, MaxFold

(* A function on the first n numbers is a sequence.                        *)
LEMMA SeqFrom ==
  ASSUME NEW n \in Nat, NEW S, NEW f \in [1..n -> S]
  PROVE  f \in Seq(S) /\ Len(f) = n /\ DOMAIN f = 1..n
OBVIOUS

(* A sequence of one element.                                              *)
LEMMA OneIsSeq == ASSUME NEW S, NEW v \in S PROVE <<v>> \in Seq(S) /\ Len(<<v>>) = 1 /\ <<v>>[1] = v
OBVIOUS

(* Two sequences of values with the same steps are the same.               *)
LEMMA SameThrough ==
  ASSUME NEW n \in Nat, NEW m \in Nat, n <= m, NEW V, NEW W, NEW b, NEW c, b = c,
         NEW s, NEW t, NEW p, NEW q, Through(p, n, b, V, s), Through(q, m, c, W, t),
         \A i \in 1..n : \A v \in V \cap W : s[i][v] = t[i][v]
  PROVE  \A i \in 0..n : p[i] = q[i]
<1> DEFINE G == {i \in 0..n : p[i] = q[i]}
<1>1. 0 \in G BY DEF Through
<1>2. ASSUME NEW i \in 1..n, i - 1 \in G PROVE i \in G
  <2>1. i \in 1..m /\ i - 1 \in 0..n /\ i - 1 \in 0..m /\ p[i - 1] = q[i - 1] BY <1>2
  <2>2. p[i - 1] \in V /\ q[i - 1] \in W BY <2>1 DEF Through
  <2>3. p[i] = s[i][p[i - 1]] /\ q[i] = t[i][q[i - 1]] BY <2>1 DEF Through
  <2>4. s[i][p[i - 1]] = t[i][p[i - 1]] BY <2>1, <2>2
  <2> QED BY <2>1, <2>3, <2>4
<1>3. \A i \in G : p[i] = q[i] OBVIOUS
<1> HIDE DEF G
<1> QED BY <1>1, <1>2, <1>3, Counting

(* A sequence of sequences is put together one after the other.            *)
Joins(f, s, T) ==
  /\ f \in [0..Len(s) -> Seq(T)] /\ f[0] = <<>>
  /\ \A i \in 1..Len(s) : f[i] = f[i - 1] \o s[i]

(* This is what FlattenSeq does.                                           *)
LEMMA FlattenJoins ==
  ASSUME NEW T, NEW s \in Seq(Seq(T))
  PROVE  \E f : Joins(f, s, T) /\ FlattenSeq(s) = f[Len(s)]
<1> DEFINE n == Len(s)
           step == [i \in 1..n |-> [v \in Seq(T) |-> v \o s[i]]]
           Is(f) == f = [i \in 1..n |-> IF i = 1 THEN s[i] ELSE f[i - 1] \o s[i]]
           it == CHOOSE f : Is(f)
<1>0. n \in Nat /\ \A i \in 1..n : s[i] \in Seq(T) OBVIOUS
<1>1. StepsIn(step, 1..n, Seq(T)) BY <1>0 DEF StepsIn
<1>2. \A i \in 1..n : \A v \in Seq(T) : step[i][v] = v \o s[i] OBVIOUS
<1>3. <<>> \in Seq(T) OBVIOUS
<1>4. FlattenSeq(s) = IF n = 0 THEN s ELSE it[n] BY DEF FlattenSeq
<1> HIDE DEF step, it
<1>5. PICK f : Through(f, n, <<>>, Seq(T), step)
  <2> DEFINE V == Seq(T)
             b == <<>>
  <2>0. n \in Nat /\ b \in V /\ StepsIn(step, 1..n, V) BY <1>0, <1>1, <1>3
  <2> HIDE DEF n, V, b
  <2>1. PICK g : MaxFold(g, n, b, V, step) BY <2>0, FoldFunctionExists
  <2>2. g[{}] = b BY <2>1 DEF MaxFold
  <2>3. Folds(g, n, b, V, step) BY <2>1, <2>2 DEF Folds, MaxFold
  <2>4. \E f : Through(f, n, b, V, step) BY <2>0, <2>3, FoldGoesThrough
  <2> QED BY <2>4 DEF V, b
<1>6. \A i \in 1..n : i - 1 \in 0..n /\ f[i - 1] \in Seq(T) /\ f[i] = f[i - 1] \o s[i]
  <2> TAKE i \in 1..n
  <2> HIDE DEF n
  <2>1. i - 1 \in 0..n BY <1>0
  <2>2. f[i - 1] \in Seq(T) /\ f[i] = step[i][f[i - 1]] BY <1>5, <2>1 DEF Through
  <2> QED BY <1>2, <2>1, <2>2
<1>7. f[0] = <<>> /\ f \in [0..n -> Seq(T)] BY <1>5 DEF Through
<1>8. Joins(f, s, T) BY <1>6, <1>7 DEF Joins
<1>9. CASE n = 0
  <2>1. s = <<>> BY <1>9
  <2> QED BY <1>4, <1>7, <1>8, <1>9, <2>1
<1>10. CASE n # 0
  <2> DEFINE k == [i \in 1..n |-> f[i]]
  <2>0. 1 \in 1..n => f[1] = s[1]
    <3>1. CASE 1 \in 1..n
      <4>1. f[1] = f[1 - 1] \o s[1] /\ s[1] \in Seq(T) BY <1>0, <1>6, <3>1
      <4>2. 1 - 1 = 0 OBVIOUS
      <4>3. f[1] = <<>> \o s[1] BY <1>7, <4>1, <4>2
      <4> HIDE DEF n
      <4> QED BY <4>1, <4>3
    <3> QED BY <3>1
  <2>1. Is(k)
    <3>1. \A i \in 1..n : i # 1 => k[i - 1] = f[i - 1] BY <1>0
    <3>2. \A i \in 1..n : f[i] = IF i = 1 THEN s[i] ELSE k[i - 1] \o s[i] BY <1>6, <2>0, <3>1
    <3> QED BY <3>2
  <2>2. Is(it)
    <3> HIDE DEF k
    <3> QED BY <2>1 DEF it
  <2>3. \A i \in 1..n : it[i] = IF i = 1 THEN s[i] ELSE it[i - 1] \o s[i] BY <2>2
  <2> DEFINE G == {0} \cup {i \in 1..n : it[i] = f[i]}
  <2>4. ASSUME NEW i \in 1..n, i - 1 \in G PROVE i \in G
    <3>1. CASE i = 1 BY <2>0, <2>3, <3>1
    <3>2. CASE i # 1
      <4>1. it[i - 1] = f[i - 1] BY <1>0, <2>4, <3>2
      <4> QED BY <1>6, <2>3, <3>2, <4>1
    <3> QED BY <3>1, <3>2
  <2>5. 0 \in G OBVIOUS
  <2>6. \A i \in G : i # 0 => it[i] = f[i] OBVIOUS
  <2> HIDE DEF G
  <2>7. n \in 0..n /\ n # 0 BY <1>0, <1>10
  <2>8. it[n] = f[n] BY <1>0, <2>4, <2>5, <2>6, <2>7, Counting
  <2> QED BY <1>4, <1>8, <1>10, <2>8
<1> QED BY <1>9, <1>10

(* Two ways of putting sequences together agree as far as the sequences    *)
(* do.                                                                     *)
LEMMA JoinsAgree ==
  ASSUME NEW T, NEW s \in Seq(Seq(T)), NEW t \in Seq(Seq(T)), Len(s) <= Len(t),
         \A i \in 1..Len(s) : s[i] = t[i], NEW p, NEW q, Joins(p, s, T), Joins(q, t, T)
  PROVE  \A i \in 0..Len(s) : p[i] = q[i]
<1> DEFINE G == {i \in 0..Len(s) : p[i] = q[i]}
<1>1. 0 \in G BY DEF Joins
<1>2. ASSUME NEW i \in 1..Len(s), i - 1 \in G PROVE i \in G
  <2>1. i \in 1..Len(t) /\ p[i - 1] = q[i - 1] BY <1>2
  <2>2. p[i] = p[i - 1] \o s[i] /\ q[i] = q[i - 1] \o t[i] BY <2>1 DEF Joins
  <2>3. s[i] = t[i] /\ i \in 0..Len(s) OBVIOUS
  <2>4. p[i] = q[i] BY <2>1, <2>2, <2>3, Zenon
  <2> QED BY <2>3, <2>4
<1>3. \A i \in G : p[i] = q[i] OBVIOUS
<1>4. Len(s) \in Nat OBVIOUS
<1> HIDE DEF G
<1> QED BY <1>1, <1>2, <1>3, <1>4, Counting

(* What FlattenSeq gives, and what one more sequence adds to it.           *)
LEMMA FlattenFacts ==
  ASSUME NEW T, NEW s \in Seq(Seq(T))
  PROVE  /\ FlattenSeq(s) \in Seq(T)
         /\ s = <<>> => FlattenSeq(s) = <<>>
         /\ \A t \in Seq(T) : FlattenSeq(Append(s, t)) = FlattenSeq(s) \o t
<1>1. PICK f : Joins(f, s, T) /\ FlattenSeq(s) = f[Len(s)] BY FlattenJoins
<1>2. Len(s) \in Nat OBVIOUS
<1>3. FlattenSeq(s) \in Seq(T)
  <2>1. Len(s) \in 0..Len(s) BY <1>2
  <2> QED BY <1>1, <2>1 DEF Joins
<1>4. ASSUME NEW t \in Seq(T) PROVE FlattenSeq(Append(s, t)) = FlattenSeq(s) \o t
  <2> DEFINE r == Append(s, t)
  <2>1. r \in Seq(Seq(T)) /\ Len(r) = Len(s) + 1 /\ r[Len(s) + 1] = t /\ \A i \in 1..Len(s) : s[i] = r[i]
    OBVIOUS
  <2> HIDE DEF r
  <2>2. PICK g : Joins(g, r, T) /\ FlattenSeq(r) = g[Len(r)] BY <2>1, FlattenJoins
  <2>3. Len(s) <= Len(r) BY <1>2, <2>1
  <2>31. r \in Seq(Seq(T)) /\ \A i \in 1..Len(s) : s[i] = r[i] BY <2>1
  <2>32. Joins(f, s, T) /\ Joins(g, r, T) BY <1>1, <2>2
  <2>4. \A i \in 0..Len(s) : f[i] = g[i] BY <2>3, <2>31, <2>32, JoinsAgree
  <2>5. Len(s) + 1 \in 1..Len(r) /\ Len(s) \in 0..Len(s) BY <1>2, <2>1
  <2>6. g[Len(s) + 1] = g[(Len(s) + 1) - 1] \o r[Len(s) + 1] BY <2>2, <2>5 DEF Joins
  <2>7. (Len(s) + 1) - 1 = Len(s) BY <1>2
  <2> QED BY <1>1, <2>1, <2>2, <2>4, <2>5, <2>6, <2>7 DEF r
<1>5. s = <<>> => FlattenSeq(s) = <<>> BY <1>1 DEF Joins
<1> QED BY <1>3, <1>4, <1>5
-----------------------------------------------------------------------------
(* Counting the items of a stream.                                         *)
Tally(s, n, type) == Cardinality({j \in 1..n : s[j].type = type})

(* Positions of a sequence can be counted.                                 *)
LEMMA TallyNat ==
  ASSUME NEW s, NEW n \in Nat, NEW type
  PROVE  Tally(s, n, type) \in Nat /\ IsFiniteSet({j \in 1..n : s[j].type = type})
<1>1. IsFiniteSet(1..n)
  <2>1. 1 \in Int /\ n \in Int OBVIOUS
  <2> QED BY <2>1, FS_Interval, Zenon
<1>2. {j \in 1..n : s[j].type = type} \subseteq 1..n OBVIOUS
<1> QED BY <1>1, <1>2, FS_Subset, FS_CardinalityType DEF Tally

(* One more item counts for its type, and changes nothing before it.       *)
LEMMA TallyAppend ==
  ASSUME NEW T, NEW s \in Seq(T), NEW i \in T, NEW type
  PROVE  /\ Tally(Append(s, i), Len(s) + 1, type)
              = Tally(s, Len(s), type) + IF i.type = type THEN 1 ELSE 0
         /\ \A k \in 0..Len(s) : Tally(Append(s, i), k, type) = Tally(s, k, type)
<1> DEFINE r == Append(s, i)
           n == Len(s)
           A == {j \in 1..n : s[j].type = type}
           B == {j \in 1..(n + 1) : r[j].type = type}
<1>1. n \in Nat /\ r[n + 1] = i /\ \A j \in 1..n : r[j] = s[j] OBVIOUS
<1> HIDE DEF r, n
<1>2. IsFiniteSet(A) /\ Cardinality(A) \in Nat BY <1>1, TallyNat DEF Tally
<1>3. B = A \cup (IF i.type = type THEN {n + 1} ELSE {})
  <2>1. 1..(n + 1) = (1..n) \cup {n + 1} BY <1>1
  <2> QED BY <1>1, <2>1
<1>4. n + 1 \notin A BY <1>1
<1>5. Cardinality(A \cup {n + 1}) = Cardinality(A) + 1 BY <1>2, <1>4, FS_AddElement
<1>6. Cardinality(B) = Cardinality(A) + IF i.type = type THEN 1 ELSE 0
  <2>1. CASE i.type = type BY <1>3, <1>5, <2>1
  <2>2. CASE i.type # type
    <3>1. B = A BY <1>3, <2>2
    <3> HIDE DEF A, B
    <3> QED BY <1>2, <2>2, <3>1
  <2> QED BY <2>1, <2>2
<1>7. ASSUME NEW k \in 0..n PROVE Tally(r, k, type) = Tally(s, k, type)
  <2>1. \A j \in 1..k : r[j] = s[j] BY <1>1
  <2>2. {j \in 1..k : r[j].type = type} = {j \in 1..k : s[j].type = type} BY <2>1
  <2> QED BY <2>2 DEF Tally
<1> QED BY <1>6, <1>7 DEF Tally, r, n

(* An item of a type is counted.                                           *)
LEMMA TallySome ==
  ASSUME NEW s, NEW n \in Nat, NEW type
  PROVE  /\ Tally(s, n, type) = 0 <=> \A j \in 1..n : s[j].type # type
         /\ \A k \in 0..n : Tally(s, k, type) <= Tally(s, n, type)
<1> DEFINE A(k) == {j \in 1..k : s[j].type = type}
<1>1. ASSUME NEW k \in 0..n PROVE IsFiniteSet(A(k)) /\ Tally(s, k, type) = Cardinality(A(k))
  <2>1. k \in Nat OBVIOUS
  <2>2. IsFiniteSet({j \in 1..k : s[j].type = type}) BY <2>1, TallyNat
  <2> QED BY <2>2 DEF Tally
<1>2. \A k \in 0..n : A(k) \subseteq A(n) OBVIOUS
<1>3. n \in 0..n OBVIOUS
<1>4. A(n) = {} <=> \A j \in 1..n : s[j].type # type OBVIOUS
<1> HIDE DEF A
<1>5. Tally(s, n, type) = 0 <=> A(n) = {} BY <1>1, <1>3, FS_EmptySet
<1>6. \A k \in 0..n : Tally(s, k, type) <= Tally(s, n, type) BY <1>1, <1>2, <1>3, FS_Subset
<1> QED BY <1>4, <1>5, <1>6

-----------------------------------------------------------------------------
(* What the routes keep and send.                                          *)
Sym == Symbols \cup Nat
PartSet == [index : Nat, new : BOOLEAN, arguments : Seq(Sym)]
CallSet == [name : Nat, arguments : Seq(Sym)]
Reasons == {"none", "end_turn", "max_tokens", "tool_use", "stop_sequence"}
Finishes == {"stop", "length", "tool_calls", "cancelled"}
BlockKinds == {"text", "thinking", "tool_use"}
Plain == [type : {"role", "done", "error"}, body : {<<>>}]
Deltas == [type : {"delta", "reasoning_delta"}, body : Seq(Sym)]
CallItems == [type : {"calls"}, body : Seq(PartSet)]
FinishItems == [type : {"finish"}, body : Finishes]
Chunks == Plain \cup Deltas \cup CallItems \cup FinishItems
BlockSet == [kind : BlockKinds, body : Seq(Sym)]
BlockFrames == [type : {"content_block_start", "content_block_delta", "content_block_stop"},
                index : Nat, kind : BlockKinds, body : Seq(Sym)]
OtherFrames == [type : {"message_start", "message_stop", "error"}, body : {<<>>}]
               \cup [type : {"message_delta"}, body : Reasons]
Frames == BlockFrames \cup OtherFrames

ChatSet == [chunks : Seq(Chunks), completed : BOOLEAN, failed : BOOLEAN, tools : BOOLEAN]
LegacySet == [chunks : Seq(Chunks), completed : BOOLEAN, failed : BOOLEAN, text : Seq(Sym)]
WholeSet == [text : Seq(Sym), reasoning : Seq(Sym), calls : Seq(CallSet), finish : Finishes]
WireSet == [frames : Seq(Frames), index : Nat, open : {"none"} \cup BlockKinds, reason : Reasons]
MessageSet == [content : Seq(BlockSet), reason : Reasons]

RouteTyped ==
  /\ chat \in ChatSet /\ legacy \in LegacySet /\ whole \in WholeSet /\ wire \in WireSet
  /\ message \in MessageSet /\ opened \in Nat /\ events \in Nat /\ over \in {"no", "error", "eof", "gone"}

(* The events an engine sends.                                             *)
Sent(type, body) ==
  \/ type \in {"delta", "reasoning_delta"} /\ body \in Seq(Sym)
  \/ type = "tool_calls" /\ body \in Seq(CallSet)
  \/ type = "tool_call_delta" /\ body \in Seq(PartSet)
  \/ type = "completed" /\ body \in [finish : Finishes, matched : BOOLEAN]

(* Typed fields give the type invariant of the routes.                     *)
LEMMA RoutesTyped == RouteTyped => RouteTypeOK
<1> SUFFICES ASSUME RouteTyped PROVE RouteTypeOK OBVIOUS
<1> USE DEF RouteTyped, RouteTypeOK
<1>1. {chat.completed, chat.failed, chat.tools, legacy.completed, legacy.failed} \subseteq BOOLEAN
  BY DEF ChatSet, LegacySet
<1>2. whole.finish \in Finishes BY DEF WholeSet
<1>3. wire.open \in {"none"} \cup BlockKinds /\ wire.index \in Nat /\ wire.reason \in Reasons BY DEF WireSet
<1>4. message.reason \in Reasons /\ message.content \in Seq(BlockSet) BY DEF MessageSet
<1>5. \A k \in DOMAIN message.content : message.content[k].kind \in BlockKinds
  <2> TAKE k \in DOMAIN message.content
  <2>1. message.content[k] \in BlockSet BY <1>4
  <2> QED BY <2>1 DEF BlockSet
<1> QED BY <1>1, <1>2, <1>3, <1>4, <1>5 DEF Finishes, BlockKinds, Reasons

(* The chunks of whole calls.                                              *)
LEMMA CallChunksTyped ==
  ASSUME NEW calls \in Seq(CallSet)
  PROVE  CallChunks(calls) \in Seq(CallItems)
<1> DEFINE item(k, new, arguments) == Item("calls", <<Part(k - 1, new, arguments)>>)
           rest(k) == [j \in DOMAIN calls[k].arguments |-> item(k, FALSE, <<calls[k].arguments[j]>>)]
           s == [k \in DOMAIN calls |-> <<item(k, TRUE, <<>>)>> \o rest(k)]
<1>0. CallChunks(calls) = FlattenSeq(s) BY DEF CallChunks
<1>1. ASSUME NEW k \in DOMAIN calls, NEW new \in BOOLEAN, NEW arguments \in Seq(Sym)
      PROVE  item(k, new, arguments) \in CallItems
  <2>1. k - 1 \in Nat OBVIOUS
  <2>2. Part(k - 1, new, arguments) \in PartSet BY <2>1 DEF Part, PartSet
  <2>3. <<Part(k - 1, new, arguments)>> \in Seq(PartSet) BY <2>2, OneIsSeq
  <2> QED BY <2>3, Zenon DEF Item, CallItems
<1> HIDE DEF item
<1>2. ASSUME NEW k \in DOMAIN calls PROVE <<item(k, TRUE, <<>>)>> \o rest(k) \in Seq(CallItems)
  <2> DEFINE n == Len(calls[k].arguments)
  <2>1. calls[k] \in CallSet OBVIOUS
  <2>2. calls[k].arguments \in Seq(Sym) BY <2>1 DEF CallSet
  <2>3. DOMAIN calls[k].arguments = 1..n /\ n \in Nat BY <2>2
  <2>4. <<>> \in Seq(Sym) OBVIOUS
  <2>5. item(k, TRUE, <<>>) \in CallItems BY <1>1, <2>4
  <2>6. ASSUME NEW j \in 1..n PROVE item(k, FALSE, <<calls[k].arguments[j]>>) \in CallItems
    <3>1. calls[k].arguments[j] \in Sym BY <2>2
    <3>2. <<calls[k].arguments[j]>> \in Seq(Sym) BY <3>1, OneIsSeq
    <3> QED BY <1>1, <3>2
  <2>7. rest(k) \in [1..n -> CallItems] BY <2>3, <2>6
  <2> HIDE DEF n, rest
  <2>8. rest(k) \in Seq(CallItems) BY <2>3, <2>7, SeqFrom
  <2>9. <<item(k, TRUE, <<>>)>> \in Seq(CallItems) BY <2>5, OneIsSeq
  <2> QED BY <2>8, <2>9, ConcatProperties
<1> HIDE DEF rest
<1>3. DOMAIN calls = 1..Len(calls) /\ Len(calls) \in Nat OBVIOUS
<1>4. s \in [1..Len(calls) -> Seq(CallItems)] BY <1>2, <1>3
<1> HIDE DEF s
<1>5. s \in Seq(Seq(CallItems)) BY <1>3, <1>4, SeqFrom
<1> QED BY <1>0, <1>5, FlattenFacts

ToolUsesRuns(f, b, items, n, V) ==
  /\ f \in [0..n -> V] /\ f[0] = b /\ \A i \in 1..n : f[i] = ToolUse(f[i - 1], items[i])
  /\ ToolUses(b, items) = f[n]

(* The folds of this module, step by step: whole calls on the wire,        *)
LEMMA ToolUseFold ==
  ASSUME NEW items, NEW n \in Nat, DOMAIN items = 1..n, NEW V, NEW b \in V,
         \A v \in V : \A i \in 1..n : ToolUse(v, items[i]) \in V
  PROVE  \E f : ToolUsesRuns(f, b, items, n, V)
<1> DEFINE D == DOMAIN items
           Is(it) == it = [s \in SUBSET D |-> IF s = {} THEN b ELSE ToolUse(it[s \ {Max(s)}], items[Max(s)])]
           it == CHOOSE it : Is(it)
           step == [i \in 1..n |-> [v \in V |-> ToolUse(v, items[i])]]
<1>1. ToolUses(b, items) = it[D] BY DEF ToolUses, FoldLeft, MapThenFoldSet
<1>2. \A i \in 1..n : \A v \in V : step[i][v] = ToolUse(v, items[i]) OBVIOUS
<1> HIDE DEF step
<1>3. StepsIn(step, 1..n, V) BY <1>2 DEF StepsIn
<1>4. \E k : Is(k)
  <2>1. PICK k : MaxFold(k, n, b, V, step) BY <1>3, FoldFunctionExists
  <2>2. \A s \in SUBSET D : k[s] = IF s = {} THEN b ELSE ToolUse(k[s \ {Max(s)}], items[Max(s)])
    <3> TAKE s \in SUBSET D
    <3>1. CASE s = {} BY <2>1, <3>1 DEF MaxFold
    <3>2. CASE s # {}
      <4>1. Max(s) \in 1..n BY <3>2, MaxFacts
      <4>2. k[s \ {Max(s)}] \in V BY <2>1 DEF MaxFold
      <4>3. k[s] = step[Max(s)][k[s \ {Max(s)}]] BY <2>1, <3>2 DEF MaxFold
      <4> QED BY <1>2, <3>2, <4>1, <4>2, <4>3
    <3> QED BY <3>1, <3>2
  <2>3. k = [s \in SUBSET D |-> k[s]] BY <2>1 DEF MaxFold
  <2>4. Is(k) BY <2>2, <2>3
  <2> QED BY <2>4
<1>5. Is(it) BY <1>4
<1> HIDE DEF it
<1>6. \A s \in SUBSET (1..n) : it[s] = IF s = {} THEN b ELSE ToolUse(it[s \ {Max(s)}], items[Max(s)])
  BY <1>5
<1>7. Folds(it, n, b, V, step)
  <2>1. it[{}] = b BY <1>6
  <2>2. ASSUME NEW s \in SUBSET (1..n), s # {}, it[s \ {Max(s)}] \in V
        PROVE  it[s] = step[Max(s)][it[s \ {Max(s)}]]
    <3>1. Max(s) \in 1..n BY <2>2, MaxFacts
    <3> QED BY <1>2, <1>6, <2>2, <3>1
  <2> QED BY <2>1, <2>2 DEF Folds
<1>8. PICK f : Through(f, n, b, V, step) /\ it[1..n] = f[n] BY <1>3, <1>7, FoldGoesThrough
<1>9. f \in [0..n -> V] /\ f[0] = b BY <1>8 DEF Through
<1>10. ASSUME NEW i \in 1..n PROVE f[i] = ToolUse(f[i - 1], items[i])
  <2>1. i - 1 \in 0..n OBVIOUS
  <2>2. f[i] = step[i][f[i - 1]] /\ f[i - 1] \in V BY <1>8, <2>1 DEF Through
  <2> QED BY <1>2, <2>2
<1> QED BY <1>1, <1>8, <1>9, <1>10 DEF ToolUsesRuns

ToolPartsRuns(f, b, items, n, V) ==
  /\ f \in [0..n -> V] /\ f[0] = b /\ \A i \in 1..n : f[i] = ToolPart(f[i - 1], items[i])
  /\ ToolParts(b, items) = f[n]

(* parts of calls on the wire,                                             *)
LEMMA ToolPartFold ==
  ASSUME NEW items, NEW n \in Nat, DOMAIN items = 1..n, NEW V, NEW b \in V,
         \A v \in V : \A i \in 1..n : ToolPart(v, items[i]) \in V
  PROVE  \E f : ToolPartsRuns(f, b, items, n, V)
<1> DEFINE D == DOMAIN items
           Is(it) == it = [s \in SUBSET D |-> IF s = {} THEN b ELSE ToolPart(it[s \ {Max(s)}], items[Max(s)])]
           it == CHOOSE it : Is(it)
           step == [i \in 1..n |-> [v \in V |-> ToolPart(v, items[i])]]
<1>1. ToolParts(b, items) = it[D] BY DEF ToolParts, FoldLeft, MapThenFoldSet
<1>2. \A i \in 1..n : \A v \in V : step[i][v] = ToolPart(v, items[i]) OBVIOUS
<1> HIDE DEF step
<1>3. StepsIn(step, 1..n, V) BY <1>2 DEF StepsIn
<1>4. \E k : Is(k)
  <2>1. PICK k : MaxFold(k, n, b, V, step) BY <1>3, FoldFunctionExists
  <2>2. \A s \in SUBSET D : k[s] = IF s = {} THEN b ELSE ToolPart(k[s \ {Max(s)}], items[Max(s)])
    <3> TAKE s \in SUBSET D
    <3>1. CASE s = {} BY <2>1, <3>1 DEF MaxFold
    <3>2. CASE s # {}
      <4>1. Max(s) \in 1..n BY <3>2, MaxFacts
      <4>2. k[s \ {Max(s)}] \in V BY <2>1 DEF MaxFold
      <4>3. k[s] = step[Max(s)][k[s \ {Max(s)}]] BY <2>1, <3>2 DEF MaxFold
      <4> QED BY <1>2, <3>2, <4>1, <4>2, <4>3
    <3> QED BY <3>1, <3>2
  <2>3. k = [s \in SUBSET D |-> k[s]] BY <2>1 DEF MaxFold
  <2>4. Is(k) BY <2>2, <2>3
  <2> QED BY <2>4
<1>5. Is(it) BY <1>4
<1> HIDE DEF it
<1>6. \A s \in SUBSET (1..n) : it[s] = IF s = {} THEN b ELSE ToolPart(it[s \ {Max(s)}], items[Max(s)])
  BY <1>5
<1>7. Folds(it, n, b, V, step)
  <2>1. it[{}] = b BY <1>6
  <2>2. ASSUME NEW s \in SUBSET (1..n), s # {}, it[s \ {Max(s)}] \in V
        PROVE  it[s] = step[Max(s)][it[s \ {Max(s)}]]
    <3>1. Max(s) \in 1..n BY <2>2, MaxFacts
    <3> QED BY <1>2, <1>6, <2>2, <3>1
  <2> QED BY <2>1, <2>2 DEF Folds
<1>8. PICK f : Through(f, n, b, V, step) /\ it[1..n] = f[n] BY <1>3, <1>7, FoldGoesThrough
<1>9. f \in [0..n -> V] /\ f[0] = b BY <1>8 DEF Through
<1>10. ASSUME NEW i \in 1..n PROVE f[i] = ToolPart(f[i - 1], items[i])
  <2>1. i - 1 \in 0..n OBVIOUS
  <2>2. f[i] = step[i][f[i - 1]] /\ f[i - 1] \in V BY <1>8, <2>1 DEF Through
  <2> QED BY <1>2, <2>2
<1> QED BY <1>1, <1>8, <1>9, <1>10 DEF ToolPartsRuns

MergeRuns(f, b, items, n, V) ==
  /\ f \in [0..n -> V] /\ f[0] = b /\ \A i \in 1..n : f[i] = MergePart(f[i - 1], items[i])
  /\ Merge(b, items) = f[n]

(* parts merged into the calls of the whole reply,                         *)
LEMMA MergeFold ==
  ASSUME NEW items, NEW n \in Nat, DOMAIN items = 1..n, NEW V, NEW b \in V,
         \A v \in V : \A i \in 1..n : MergePart(v, items[i]) \in V
  PROVE  \E f : MergeRuns(f, b, items, n, V)
<1> DEFINE D == DOMAIN items
           Is(it) == it = [s \in SUBSET D |-> IF s = {} THEN b ELSE MergePart(it[s \ {Max(s)}], items[Max(s)])]
           it == CHOOSE it : Is(it)
           step == [i \in 1..n |-> [v \in V |-> MergePart(v, items[i])]]
<1>1. Merge(b, items) = it[D] BY DEF Merge, FoldLeft, MapThenFoldSet
<1>2. \A i \in 1..n : \A v \in V : step[i][v] = MergePart(v, items[i]) OBVIOUS
<1> HIDE DEF step
<1>3. StepsIn(step, 1..n, V) BY <1>2 DEF StepsIn
<1>4. \E k : Is(k)
  <2>1. PICK k : MaxFold(k, n, b, V, step) BY <1>3, FoldFunctionExists
  <2>2. \A s \in SUBSET D : k[s] = IF s = {} THEN b ELSE MergePart(k[s \ {Max(s)}], items[Max(s)])
    <3> TAKE s \in SUBSET D
    <3>1. CASE s = {} BY <2>1, <3>1 DEF MaxFold
    <3>2. CASE s # {}
      <4>1. Max(s) \in 1..n BY <3>2, MaxFacts
      <4>2. k[s \ {Max(s)}] \in V BY <2>1 DEF MaxFold
      <4>3. k[s] = step[Max(s)][k[s \ {Max(s)}]] BY <2>1, <3>2 DEF MaxFold
      <4> QED BY <1>2, <3>2, <4>1, <4>2, <4>3
    <3> QED BY <3>1, <3>2
  <2>3. k = [s \in SUBSET D |-> k[s]] BY <2>1 DEF MaxFold
  <2>4. Is(k) BY <2>2, <2>3
  <2> QED BY <2>4
<1>5. Is(it) BY <1>4
<1> HIDE DEF it
<1>6. \A s \in SUBSET (1..n) : it[s] = IF s = {} THEN b ELSE MergePart(it[s \ {Max(s)}], items[Max(s)])
  BY <1>5
<1>7. Folds(it, n, b, V, step)
  <2>1. it[{}] = b BY <1>6
  <2>2. ASSUME NEW s \in SUBSET (1..n), s # {}, it[s \ {Max(s)}] \in V
        PROVE  it[s] = step[Max(s)][it[s \ {Max(s)}]]
    <3>1. Max(s) \in 1..n BY <2>2, MaxFacts
    <3> QED BY <1>2, <1>6, <2>2, <3>1
  <2> QED BY <2>1, <2>2 DEF Folds
<1>8. PICK f : Through(f, n, b, V, step) /\ it[1..n] = f[n] BY <1>3, <1>7, FoldGoesThrough
<1>9. f \in [0..n -> V] /\ f[0] = b BY <1>8 DEF Through
<1>10. ASSUME NEW i \in 1..n PROVE f[i] = MergePart(f[i - 1], items[i])
  <2>1. i - 1 \in 0..n OBVIOUS
  <2>2. f[i] = step[i][f[i - 1]] /\ f[i - 1] \in V BY <1>8, <2>1 DEF Through
  <2> QED BY <1>2, <2>2
<1> QED BY <1>1, <1>8, <1>9, <1>10 DEF MergeRuns

PlacedAllRuns(f, b, items, n, V) ==
  /\ f \in [0..n -> V] /\ f[0] = b /\ \A i \in 1..n : f[i] = Placed(f[i - 1], items[i])
  /\ PlacedAll(b, items) = f[n]

(* and parts placed in the content of the Anthropic message.               *)
LEMMA PlacedFold ==
  ASSUME NEW items, NEW n \in Nat, DOMAIN items = 1..n, NEW V, NEW b \in V,
         \A v \in V : \A i \in 1..n : Placed(v, items[i]) \in V
  PROVE  \E f : PlacedAllRuns(f, b, items, n, V)
<1> DEFINE D == DOMAIN items
           Is(it) == it = [s \in SUBSET D |-> IF s = {} THEN b ELSE Placed(it[s \ {Max(s)}], items[Max(s)])]
           it == CHOOSE it : Is(it)
           step == [i \in 1..n |-> [v \in V |-> Placed(v, items[i])]]
<1>1. PlacedAll(b, items) = it[D] BY DEF PlacedAll, FoldLeft, MapThenFoldSet
<1>2. \A i \in 1..n : \A v \in V : step[i][v] = Placed(v, items[i]) OBVIOUS
<1> HIDE DEF step
<1>3. StepsIn(step, 1..n, V) BY <1>2 DEF StepsIn
<1>4. \E k : Is(k)
  <2>1. PICK k : MaxFold(k, n, b, V, step) BY <1>3, FoldFunctionExists
  <2>2. \A s \in SUBSET D : k[s] = IF s = {} THEN b ELSE Placed(k[s \ {Max(s)}], items[Max(s)])
    <3> TAKE s \in SUBSET D
    <3>1. CASE s = {} BY <2>1, <3>1 DEF MaxFold
    <3>2. CASE s # {}
      <4>1. Max(s) \in 1..n BY <3>2, MaxFacts
      <4>2. k[s \ {Max(s)}] \in V BY <2>1 DEF MaxFold
      <4>3. k[s] = step[Max(s)][k[s \ {Max(s)}]] BY <2>1, <3>2 DEF MaxFold
      <4> QED BY <1>2, <3>2, <4>1, <4>2, <4>3
    <3> QED BY <3>1, <3>2
  <2>3. k = [s \in SUBSET D |-> k[s]] BY <2>1 DEF MaxFold
  <2>4. Is(k) BY <2>2, <2>3
  <2> QED BY <2>4
<1>5. Is(it) BY <1>4
<1> HIDE DEF it
<1>6. \A s \in SUBSET (1..n) : it[s] = IF s = {} THEN b ELSE Placed(it[s \ {Max(s)}], items[Max(s)])
  BY <1>5
<1>7. Folds(it, n, b, V, step)
  <2>1. it[{}] = b BY <1>6
  <2>2. ASSUME NEW s \in SUBSET (1..n), s # {}, it[s \ {Max(s)}] \in V
        PROVE  it[s] = step[Max(s)][it[s \ {Max(s)}]]
    <3>1. Max(s) \in 1..n BY <2>2, MaxFacts
    <3> QED BY <1>2, <1>6, <2>2, <3>1
  <2> QED BY <2>1, <2>2 DEF Folds
<1>8. PICK f : Through(f, n, b, V, step) /\ it[1..n] = f[n] BY <1>3, <1>7, FoldGoesThrough
<1>9. f \in [0..n -> V] /\ f[0] = b BY <1>8 DEF Through
<1>10. ASSUME NEW i \in 1..n PROVE f[i] = Placed(f[i - 1], items[i])
  <2>1. i - 1 \in 0..n OBVIOUS
  <2>2. f[i] = step[i][f[i - 1]] /\ f[i - 1] \in V BY <1>8, <2>1 DEF Through
  <2> QED BY <1>2, <2>2
<1> QED BY <1>1, <1>8, <1>9, <1>10 DEF PlacedAllRuns

-----------------------------------------------------------------------------
(* Types of the OpenAI routes.                                             *)

(* The kinds of chunks.                                                     *)
LEMMA ChunkSets ==
  /\ \A items \in Seq(CallItems) : items \in Seq(Chunks)
  /\ \A v \in Plain \cup Deltas \cup CallItems \cup FinishItems : v \in Chunks
<1>1. \A items \in Seq(CallItems) : items \in Seq(Chunks) BY DEF Chunks
<1> QED BY <1>1 DEF Chunks

(* A chunk more, of a type that ends nothing.                              *)
LEMMA SendTyped ==
  ASSUME NEW items \in Seq(Chunks)
  PROVE  /\ \A c \in ChatSet : Send(c, items) \in ChatSet
         /\ \A c \in LegacySet : Send(c, items) \in LegacySet
<1>1. ASSUME NEW c \in ChatSet PROVE Send(c, items) \in ChatSet
  <2>1. c.chunks \o items \in Seq(Chunks) BY ConcatProperties DEF ChatSet
  <2> QED BY <2>1 DEF Send, ChatSet
<1>2. ASSUME NEW c \in LegacySet PROVE Send(c, items) \in LegacySet
  <2>1. c.chunks \o items \in Seq(Chunks) BY ConcatProperties DEF LegacySet
  <2> QED BY <2>1 DEF Send, LegacySet
<1> QED BY <1>1, <1>2

(* Calls of a worker, and calls padded and merged.                         *)
LEMMA NormalizedTyped ==
  ASSUME NEW calls \in Seq(CallSet)
  PROVE  Normalized(calls) \in Seq(CallSet) /\ Len(Normalized(calls)) = Len(calls)
         /\ \A k \in 1..Len(calls) : Normalized(calls)[k] = Call(1, calls[k].arguments)
<1> DEFINE n == Len(calls)
           s == Normalized(calls)
<1>1. n \in Nat /\ DOMAIN calls = 1..n /\ \A k \in 1..n : calls[k] \in CallSet OBVIOUS
<1>2. s = [k \in 1..n |-> Call(1, calls[k].arguments)] BY <1>1 DEF Normalized
<1>3. \A k \in 1..n : Call(1, calls[k].arguments) \in CallSet BY <1>1 DEF Call, CallSet
<1> HIDE DEF n, s
<1>4. s \in [1..n -> CallSet] BY <1>2, <1>3
<1>5. s \in Seq(CallSet) /\ Len(s) = n BY <1>1, <1>4, SeqFrom
<1> QED BY <1>2, <1>5 DEF n, s

(* A sequence made longer with one item.                                   *)
LEMMA ReachingTyped ==
  ASSUME NEW S, NEW s \in Seq(S), NEW item \in S, NEW index \in Nat
  PROVE  /\ Reaching(index, s, item) \in Seq(S)
         /\ Len(Reaching(index, s, item)) = IF index < Len(s) THEN Len(s) ELSE index + 1
         /\ \A k \in 1..Len(s) : Reaching(index, s, item)[k] = s[k]
         /\ \A k \in (Len(s) + 1)..(index + 1) : Reaching(index, s, item)[k] = item
<1>1. CASE index < Len(s)
  <2>1. Reaching(index, s, item) = s BY <1>1 DEF Reaching
  <2>2. (Len(s) + 1)..(index + 1) = {} BY <1>1
  <2> QED BY <1>1, <2>1, <2>2
<1>2. CASE ~(index < Len(s))
  <2> DEFINE r == [k \in 1..(index + 1) |-> IF k <= Len(s) THEN s[k] ELSE item]
  <2>1. Reaching(index, s, item) = r BY <1>2 DEF Reaching
  <2>2. \A k \in 1..(index + 1) : (IF k <= Len(s) THEN s[k] ELSE item) \in S OBVIOUS
  <2>3. r \in [1..(index + 1) -> S] BY <2>2
  <2>4. \A k \in 1..Len(s) : k \in 1..(index + 1) /\ r[k] = s[k] BY <1>2
  <2>5. \A k \in (Len(s) + 1)..(index + 1) : k \in 1..(index + 1) /\ r[k] = item OBVIOUS
  <2>6. index + 1 \in Nat OBVIOUS
  <2> HIDE DEF r
  <2>7. r \in Seq(S) /\ Len(r) = index + 1 BY <2>3, <2>6, SeqFrom
  <2> QED BY <1>2, <2>1, <2>4, <2>5, <2>7
<1> QED BY <1>1, <1>2

(* A part merged into the calls.                                           *)
LEMMA MergePartTyped ==
  ASSUME NEW calls \in Seq(CallSet), NEW part \in PartSet
  PROVE  MergePart(calls, part) \in Seq(CallSet)
<1> DEFINE p == Padded(calls, part.index)
           k == part.index + 1
           name == IF part.new THEN p[k].name + 1 ELSE p[k].name
           arguments == p[k].arguments \o part.arguments
<1>1. part.index \in Nat /\ part.new \in BOOLEAN /\ part.arguments \in Seq(Sym) BY DEF PartSet
<1>2. Call(0, <<>>) \in CallSet BY DEF Call, CallSet
<1>3. p \in Seq(CallSet) /\ k \in 1..Len(p) BY <1>1, <1>2, ReachingTyped DEF Padded
<1>4. MergePart(calls, part) = [p EXCEPT ![k].name = IF part.new THEN @ + 1 ELSE @,
                                         ![k].arguments = @ \o part.arguments]
  BY DEF MergePart
<1> HIDE DEF p, k
<1>5. p[k] \in CallSet BY <1>3
<1>6. name \in Nat BY <1>1, <1>5 DEF CallSet
<1>7. arguments \in Seq(Sym) BY <1>1, <1>5, ConcatProperties DEF CallSet
<1>8. MergePart(calls, part) = [p EXCEPT ![k] = [p[k] EXCEPT !.name = name, !.arguments = arguments]]
  BY <1>3, <1>4, <1>5 DEF CallSet
<1> HIDE DEF name, arguments
<1>9. [p[k] EXCEPT !.name = name, !.arguments = arguments] \in CallSet BY <1>5, <1>6, <1>7 DEF CallSet
<1> QED BY <1>3, <1>8, <1>9, ExceptSeq

(* Parts of one event.                                                     *)
LEMMA MergeTyped ==
  ASSUME NEW calls \in Seq(CallSet), NEW parts \in Seq(PartSet)
  PROVE  Merge(calls, parts) \in Seq(CallSet)
<1> DEFINE n == Len(parts)
           V == Seq(CallSet)
<1>1. n \in Nat /\ DOMAIN parts = 1..n /\ \A i \in 1..n : parts[i] \in PartSet OBVIOUS
<1>2. \A v \in V : \A i \in 1..n : MergePart(v, parts[i]) \in V BY <1>1, MergePartTyped
<1>3. calls \in V OBVIOUS
<1> HIDE DEF n, V
<1>4. PICK f : MergeRuns(f, calls, parts, n, V) BY <1>1, <1>2, <1>3, MergeFold
<1>5. f[n] \in V BY <1>1, <1>4 DEF MergeRuns
<1> QED BY <1>4, <1>5 DEF V, MergeRuns

(* What an event makes of the OpenAI stream,                               *)
LEMMA OnChatTyped ==
  ASSUME NEW type, NEW body, Sent(type, body), chat \in ChatSet
  PROVE  OnChat(type, body) \in ChatSet
<1>1. CASE type \in {"delta", "reasoning_delta"} /\ body \in Seq(Sym)
  <2>1. Item(type, body) \in Chunks BY <1>1 DEF Item, Deltas, Chunks
  <2>2. <<Item(type, body)>> \in Seq(Chunks) BY <2>1, OneIsSeq
  <2>3. OnChat(type, body) = Send(chat, <<Item(type, body)>>) BY <1>1 DEF OnChat
  <2> QED BY <2>2, <2>3, SendTyped
<1>2. CASE type = "tool_calls" /\ body \in Seq(CallSet)
  <2>1. CallChunks(body) \in Seq(Chunks) BY <1>2, CallChunksTyped, ChunkSets
  <2>2. OnChat(type, body) = [Send(chat, CallChunks(body)) EXCEPT !.tools = TRUE] BY <1>2 DEF OnChat
  <2>3. Send(chat, CallChunks(body)) \in ChatSet BY <2>1, SendTyped
  <2> QED BY <2>2, <2>3 DEF ChatSet
<1>3. CASE type = "tool_call_delta" /\ body \in Seq(PartSet)
  <2>1. Item("calls", body) \in Chunks BY <1>3 DEF Item, CallItems, Chunks
  <2>2. <<Item("calls", body)>> \in Seq(Chunks) BY <2>1, OneIsSeq
  <2>3. OnChat(type, body) = [Send(chat, <<Item("calls", body)>>) EXCEPT !.tools = TRUE] BY <1>3 DEF OnChat
  <2>4. Send(chat, <<Item("calls", body)>>) \in ChatSet BY <2>2, SendTyped
  <2> QED BY <2>3, <2>4 DEF ChatSet
<1>4. CASE type = "completed" /\ body \in [finish : Finishes, matched : BOOLEAN]
  <2> DEFINE i == Item("finish", ChatFinish(body.finish))
  <2>1. i \in Chunks BY <1>4 DEF Item, FinishItems, Chunks, ChatFinish, Known, Finishes
  <2>2. OnChat(type, body) = IF chat.completed THEN chat ELSE [Send(chat, <<i>>) EXCEPT !.completed = TRUE]
    BY <1>4 DEF OnChat
  <2> HIDE DEF i
  <2>3. <<i>> \in Seq(Chunks) BY <2>1, OneIsSeq
  <2>4. Send(chat, <<i>>) \in ChatSet BY <2>3, SendTyped
  <2> QED BY <2>2, <2>4 DEF ChatSet
<1> QED BY <1>1, <1>2, <1>3, <1>4 DEF Sent

(* of the completions stream,                                              *)
LEMMA OnLegacyTyped ==
  ASSUME NEW type, NEW body, Sent(type, body), legacy \in LegacySet
  PROVE  OnLegacy(type, body) \in LegacySet
<1>1. CASE type \in {"delta", "reasoning_delta"} /\ body \in Seq(Sym)
  <2>1. Item("delta", body) \in Chunks BY <1>1 DEF Item, Deltas, Chunks
  <2>2. <<Item("delta", body)>> \in Seq(Chunks) BY <2>1, OneIsSeq
  <2>3. OnLegacy(type, body) = [Send(legacy, <<Item("delta", body)>>) EXCEPT !.text = @ \o body] BY <1>1 DEF OnLegacy
  <2>4. Send(legacy, <<Item("delta", body)>>) \in LegacySet BY <2>2, SendTyped
  <2>5. Send(legacy, <<Item("delta", body)>>).text \o body \in Seq(Sym) BY <1>1, <2>4, ConcatProperties DEF LegacySet
  <2> QED BY <2>3, <2>4, <2>5 DEF LegacySet
<1>2. CASE type \in {"tool_calls", "tool_call_delta"}
  <2>1. OnLegacy(type, body) = legacy BY <1>2 DEF OnLegacy
  <2> QED BY <2>1
<1>4. CASE type = "completed" /\ body \in [finish : Finishes, matched : BOOLEAN]
  <2> DEFINE i == Item("finish", TextFinish(body.finish))
  <2>1. i \in Chunks BY <1>4 DEF Item, FinishItems, Chunks, TextFinish, Known, Finishes
  <2>2. OnLegacy(type, body) = IF legacy.completed THEN legacy ELSE [Send(legacy, <<i>>) EXCEPT !.completed = TRUE]
    BY <1>4 DEF OnLegacy
  <2> HIDE DEF i
  <2>3. <<i>> \in Seq(Chunks) BY <2>1, OneIsSeq
  <2>4. Send(legacy, <<i>>) \in LegacySet BY <2>3, SendTyped
  <2> QED BY <2>2, <2>4 DEF LegacySet
<1> QED BY <1>1, <1>2, <1>4 DEF Sent

(* and of the whole reply.                                                 *)
LEMMA OnWholeTyped ==
  ASSUME NEW type, NEW body, Sent(type, body), whole \in WholeSet
  PROVE  OnWhole(type, body) \in WholeSet
<1>0. whole.text \in Seq(Sym) /\ whole.reasoning \in Seq(Sym) /\ whole.calls \in Seq(CallSet) BY DEF WholeSet
<1>1. CASE type \in {"delta", "reasoning_delta"} /\ body \in Seq(Sym)
  <2>1. whole.text \o body \in Seq(Sym) /\ whole.reasoning \o body \in Seq(Sym) BY <1>0, <1>1, ConcatProperties
  <2>2. \/ OnWhole(type, body) = [whole EXCEPT !.text = @ \o body]
        \/ OnWhole(type, body) = [whole EXCEPT !.reasoning = @ \o body]
    BY <1>1 DEF OnWhole
  <2> QED BY <2>1, <2>2 DEF WholeSet
<1>2. CASE type = "tool_calls" /\ body \in Seq(CallSet)
  <2>1. Normalized(body) \in Seq(CallSet) BY <1>2, NormalizedTyped
  <2>2. OnWhole(type, body) = [whole EXCEPT !.calls = Normalized(body), !.finish = "tool_calls"] BY <1>2 DEF OnWhole
  <2> QED BY <2>1, <2>2 DEF WholeSet, Finishes
<1>3. CASE type = "tool_call_delta" /\ body \in Seq(PartSet)
  <2>1. Merge(whole.calls, body) \in Seq(CallSet) BY <1>0, <1>3, MergeTyped
  <2>2. OnWhole(type, body) = [whole EXCEPT !.calls = Merge(@, body)] BY <1>3 DEF OnWhole
  <2> QED BY <2>1, <2>2 DEF WholeSet
<1>4. CASE type = "completed" /\ body \in [finish : Finishes, matched : BOOLEAN]
  <2>1. OnWhole(type, body) = [whole EXCEPT !.finish = body.finish] BY <1>4 DEF OnWhole
  <2>2. body.finish \in Finishes BY <1>4
  <2> QED BY <2>1, <2>2 DEF WholeSet
<1> QED BY <1>1, <1>2, <1>3, <1>4 DEF Sent

-----------------------------------------------------------------------------
(* The frames of the Anthropic stream.  Bracketed says of any sequence of  *)
(* frames what Framed says of the frames sent.                             *)
Started(f, k) == Tally(f, k - 1, "content_block_start")
Stopped(f, k) == Tally(f, k - 1, "content_block_stop")
GoodFrame(f, k) ==
  /\ Tally(f, k - 1, "message_stop") > 0 => f[k].type = "error"
  /\ Tally(f, k - 1, "error") = 0
  /\ f[k].type \in {"content_block_start", "message_delta"} => Started(f, k) = Stopped(f, k)
  /\ f[k].type = "content_block_start" => f[k].index = Started(f, k)
  /\ f[k].type \in {"content_block_delta", "content_block_stop"} =>
       Started(f, k) = Stopped(f, k) + 1 /\ f[k].index = Stopped(f, k)
Bracketed(f) == \A k \in 1..Len(f) : GoodFrame(f, k)

(* For the frames sent it is what the run checks.                          *)
LEMMA BracketedIsFramed == ASSUME wire \in WireSet PROVE Bracketed(wire.frames) <=> Framed
<1>1. DOMAIN wire.frames = 1..Len(wire.frames) BY DEF WireSet
<1> QED BY <1>1, Zenon DEF Bracketed, Framed, GoodFrame, Started, Stopped, Tally

(* Bracketed frames with one frame more that may come then.                *)
LEMMA OneMoreFrame ==
  ASSUME NEW f \in Seq(Frames), Bracketed(f), NEW i \in Frames,
         GoodFrame(Append(f, i), Len(f) + 1)
  PROVE  Bracketed(Append(f, i))
<1> DEFINE r == Append(f, i)
<1>1. Len(f) \in Nat /\ Len(r) = Len(f) + 1 /\ \A k \in 1..Len(f) : r[k] = f[k] OBVIOUS
<1>2. ASSUME NEW k \in 1..Len(f) PROVE GoodFrame(r, k)
  <2>1. k - 1 \in 0..Len(f) /\ r[k] = f[k] BY <1>1
  <2>2. \A type : Tally(r, k - 1, type) = Tally(f, k - 1, type)
    <3> TAKE type
    <3>1. \A j \in 0..Len(f) : Tally(Append(f, i), j, type) = Tally(f, j, type) BY TallyAppend
    <3> QED BY <2>1, <3>1
  <2> HIDE DEF r
  <2>3. GoodFrame(f, k) BY DEF Bracketed
  <2> QED BY <2>1, <2>2, <2>3 DEF GoodFrame, Started, Stopped
<1> HIDE DEF r
<1>3. GoodFrame(r, Len(f) + 1) BY DEF r
<1>4. \A k \in 1..Len(r) : k \in 1..Len(f) \/ k = Len(f) + 1 BY <1>1
<1>5. \A k \in 1..Len(r) : GoodFrame(r, k) BY <1>2, <1>3, <1>4
<1> QED BY <1>5 DEF Bracketed, r

(* A stream that goes on: as many blocks were started as `index` says, all *)
(* but an open one are stopped, and nothing ended it.                      *)
Live(v) ==
  /\ v \in WireSet /\ Bracketed(v.frames)
  /\ Tally(v.frames, Len(v.frames), "content_block_start") = v.index
  /\ Tally(v.frames, Len(v.frames), "content_block_stop") = IF v.open = "none" THEN v.index ELSE v.index - 1
  /\ Tally(v.frames, Len(v.frames), "message_stop") = 0
  /\ Tally(v.frames, Len(v.frames), "error") = 0
  /\ v.open # "none" => v.index > 0

(* Pushing one frame.                                                      *)
LEMMA PushOne ==
  ASSUME NEW v \in WireSet, NEW i \in Frames
  PROVE  /\ Push(v, <<i>>) = [v EXCEPT !.frames = Append(v.frames, i)]
         /\ Push(v, <<i>>) \in WireSet
         /\ Len(Append(v.frames, i)) = Len(v.frames) + 1 /\ Len(v.frames) \in Nat
         /\ Append(v.frames, i)[Len(v.frames) + 1] = i
         /\ Append(v.frames, i) \in Seq(Frames)
<1>1. v.frames \in Seq(Frames) BY DEF WireSet
<1>2. v.frames \o <<i>> = Append(v.frames, i) BY <1>1
<1>3. Append(v.frames, i) \in Seq(Frames) /\ Len(Append(v.frames, i)) = Len(v.frames) + 1
      /\ Len(v.frames) \in Nat /\ Append(v.frames, i)[Len(v.frames) + 1] = i BY <1>1
<1>4. Push(v, <<i>>) = [v EXCEPT !.frames = Append(v.frames, i)] BY <1>2 DEF Push
<1>5. [v EXCEPT !.frames = Append(v.frames, i)] \in WireSet BY <1>3 DEF WireSet
<1> QED BY <1>3, <1>4, <1>5

(* What the next frame adds to the counts of a live stream.                *)
LEMMA PushedCounts ==
  ASSUME NEW v, Live(v), NEW i \in Frames
  PROVE  /\ \A type : Tally(Append(v.frames, i), Len(v.frames) + 1, type)
                        = Tally(v.frames, Len(v.frames), type) + IF i.type = type THEN 1 ELSE 0
         /\ \A type : Tally(Append(v.frames, i), (Len(v.frames) + 1) - 1, type)
                        = Tally(v.frames, Len(v.frames), type)
<1>1. v.frames \in Seq(Frames) BY DEF Live, WireSet
<1>2. Len(v.frames) \in 0..Len(v.frames) /\ (Len(v.frames) + 1) - 1 = Len(v.frames) BY <1>1
<1> QED BY <1>1, <1>2, TallyAppend

(* A block is stopped,                                                     *)
LEMMA CloseLive ==
  ASSUME NEW v, Live(v)
  PROVE  Live(CloseBlock(v)) /\ CloseBlock(v).open = "none"
         /\ CloseBlock(v).index = v.index /\ CloseBlock(v).reason = v.reason
<1>1. CASE v.open = "none" BY <1>1 DEF CloseBlock
<1>2. CASE v.open # "none"
  <2> DEFINE i == Frame("content_block_stop", v.index - 1, v.open, <<>>)
             f == Append(v.frames, i)
             r == [v EXCEPT !.frames = f, !.open = "none"]
  <2>1. v \in WireSet /\ v.index \in Nat /\ v.index > 0 /\ v.open \in BlockKinds BY <1>2 DEF Live, WireSet
  <2>2. i \in Frames BY <2>1 DEF Frame, Frames, BlockFrames
  <2>3. i.type = "content_block_stop" /\ i.index = v.index - 1 BY DEF Frame
  <2>4. CloseBlock(v) = [Push(v, <<i>>) EXCEPT !.open = "none"] BY <1>2 DEF CloseBlock
  <2> HIDE DEF i
  <2>5. Push(v, <<i>>) = [v EXCEPT !.frames = f] /\ f \in Seq(Frames) /\ Len(f) = Len(v.frames) + 1
        /\ f[Len(v.frames) + 1] = i
    BY <2>1, <2>2, PushOne
  <2>6. CloseBlock(v) = r BY <2>1, <2>4, <2>5 DEF WireSet
  <2>7. \A type : Tally(f, Len(v.frames) + 1, type)
                    = Tally(v.frames, Len(v.frames), type) + IF i.type = type THEN 1 ELSE 0
    BY <2>2, PushedCounts
  <2>8. \A type : Tally(f, (Len(v.frames) + 1) - 1, type) = Tally(v.frames, Len(v.frames), type)
    BY <2>2, PushedCounts
  <2>9. v.frames \in Seq(Frames) BY <2>1 DEF WireSet
  <2>10. GoodFrame(f, Len(v.frames) + 1)
    BY <1>2, <2>1, <2>3, <2>5, <2>8 DEF GoodFrame, Started, Stopped, Live
  <2>11. Bracketed(f) BY <2>2, <2>9, <2>10, OneMoreFrame DEF Live
  <2>12. r \in WireSet /\ r.frames = f /\ r.open = "none" /\ r.index = v.index /\ r.reason = v.reason
    BY <2>1, <2>5 DEF WireSet
  <2> HIDE DEF f, r
  <2>13. Live(r) BY <1>2, <2>1, <2>3, <2>5, <2>7, <2>11, <2>12 DEF Live
  <2> QED BY <2>6, <2>12, <2>13
<1> QED BY <1>1, <1>2

(* started,                                                                *)
LEMMA OpenAtLive ==
  ASSUME NEW v, Live(v), v.open = "none", NEW kind \in BlockKinds
  PROVE  Live(OpenAt(v, kind)) /\ OpenAt(v, kind).open = kind
         /\ OpenAt(v, kind).index = v.index + 1 /\ OpenAt(v, kind).reason = v.reason
<1> DEFINE i == Frame("content_block_start", v.index, kind, <<>>)
           f == Append(v.frames, i)
           r == [v EXCEPT !.frames = f, !.open = kind, !.index = v.index + 1]
<1>1. v \in WireSet /\ v.index \in Nat BY DEF Live, WireSet
<1>2. i \in Frames BY <1>1 DEF Frame, Frames, BlockFrames
<1>3. i.type = "content_block_start" /\ i.index = v.index BY DEF Frame
<1>4. OpenAt(v, kind) = [Push(v, <<i>>) EXCEPT !.open = kind, !.index = @ + 1] BY DEF OpenAt
<1> HIDE DEF i
<1>5. Push(v, <<i>>) = [v EXCEPT !.frames = f] /\ f \in Seq(Frames) /\ Len(f) = Len(v.frames) + 1
      /\ f[Len(v.frames) + 1] = i
  BY <1>1, <1>2, PushOne
<1>6. OpenAt(v, kind) = r BY <1>1, <1>4, <1>5 DEF WireSet
<1>7. \A type : Tally(f, Len(v.frames) + 1, type)
                  = Tally(v.frames, Len(v.frames), type) + IF i.type = type THEN 1 ELSE 0
  BY <1>2, PushedCounts
<1>8. \A type : Tally(f, (Len(v.frames) + 1) - 1, type) = Tally(v.frames, Len(v.frames), type)
  BY <1>2, PushedCounts
<1>9. v.frames \in Seq(Frames) BY <1>1 DEF WireSet
<1>10. GoodFrame(f, Len(v.frames) + 1) BY <1>1, <1>3, <1>5, <1>8 DEF GoodFrame, Started, Stopped, Live
<1>11. Bracketed(f) BY <1>2, <1>9, <1>10, OneMoreFrame DEF Live
<1>12. r \in WireSet /\ r.frames = f /\ r.open = kind /\ r.index = v.index + 1 /\ r.reason = v.reason
  <2>1. v.index + 1 \in Nat /\ f \in Seq(Frames) /\ kind \in {"none"} \cup BlockKinds BY <1>1, <1>5
  <2> HIDE DEF f
  <2> QED BY <1>1, <2>1 DEF WireSet
<1>14. kind # "none" BY DEF BlockKinds
<1> HIDE DEF f, r
<1>13. Live(r) BY <1>1, <1>3, <1>5, <1>7, <1>11, <1>12, <1>14 DEF Live
<1> QED BY <1>6, <1>12, <1>13

(* filled.                                                                 *)
LEMMA FillLive ==
  ASSUME NEW v, Live(v), v.open # "none", NEW kind \in BlockKinds, NEW body \in Seq(Sym)
  PROVE  Live(Fill(v, kind, body)) /\ Fill(v, kind, body).open = v.open
         /\ Fill(v, kind, body).index = v.index /\ Fill(v, kind, body).reason = v.reason
<1>1. CASE body = <<>> BY <1>1 DEF Fill
<1>2. CASE body # <<>>
  <2> DEFINE i == Frame("content_block_delta", v.index - 1, kind, body)
             f == Append(v.frames, i)
             r == [v EXCEPT !.frames = f]
  <2>1. v \in WireSet /\ v.index \in Nat /\ v.index > 0 BY DEF Live, WireSet
  <2>2. i \in Frames BY <2>1 DEF Frame, Frames, BlockFrames
  <2>3. i.type = "content_block_delta" /\ i.index = v.index - 1 BY DEF Frame
  <2>4. Fill(v, kind, body) = Push(v, <<i>>) BY <1>2 DEF Fill
  <2> HIDE DEF i
  <2>5. Push(v, <<i>>) = r /\ f \in Seq(Frames) /\ Len(f) = Len(v.frames) + 1
        /\ f[Len(v.frames) + 1] = i
    BY <2>1, <2>2, PushOne
  <2>7. \A type : Tally(f, Len(v.frames) + 1, type)
                    = Tally(v.frames, Len(v.frames), type) + IF i.type = type THEN 1 ELSE 0
    BY <2>2, PushedCounts
  <2>8. \A type : Tally(f, (Len(v.frames) + 1) - 1, type) = Tally(v.frames, Len(v.frames), type)
    BY <2>2, PushedCounts
  <2>9. v.frames \in Seq(Frames) BY <2>1 DEF WireSet
  <2>10. GoodFrame(f, Len(v.frames) + 1)
    BY <2>1, <2>3, <2>5, <2>8 DEF GoodFrame, Started, Stopped, Live
  <2>11. Bracketed(f) BY <2>2, <2>9, <2>10, OneMoreFrame DEF Live
  <2>12. r \in WireSet /\ r.frames = f /\ r.open = v.open /\ r.index = v.index /\ r.reason = v.reason
    BY <2>1, <2>5 DEF WireSet
  <2> HIDE DEF f, r
  <2>13. Live(r) BY <2>1, <2>3, <2>5, <2>7, <2>11, <2>12 DEF Live
  <2> QED BY <2>4, <2>5, <2>12, <2>13
<1> QED BY <1>1, <1>2

(* A block of another kind is opened behind the one that is stopped.       *)
LEMMA OpenLive ==
  ASSUME NEW v, Live(v), NEW kind \in BlockKinds
  PROVE  /\ Live(OpenBlock(v, kind)) /\ OpenBlock(v, kind).open = kind
         /\ OpenBlock(v, kind).reason = v.reason /\ OpenBlock(v, kind).index = v.index + 1
         /\ Live(Opened(v, kind)) /\ Opened(v, kind).open = kind /\ Opened(v, kind).reason = v.reason
<1>1. /\ Live(CloseBlock(v)) /\ CloseBlock(v).open = "none" /\ CloseBlock(v).reason = v.reason
      /\ CloseBlock(v).index = v.index
  BY CloseLive
<1>2. /\ Live(OpenBlock(v, kind)) /\ OpenBlock(v, kind).open = kind /\ OpenBlock(v, kind).reason = v.reason
      /\ OpenBlock(v, kind).index = v.index + 1
  BY <1>1, OpenAtLive DEF OpenBlock
<1>3. CASE v.open = kind BY <1>2, <1>3 DEF Opened
<1>4. CASE v.open # kind BY <1>2, <1>4 DEF Opened
<1> QED BY <1>2, <1>3, <1>4

(* Text, thinking, and calls whole or in parts leave the stream live.      *)
LEMMA TextLive ==
  ASSUME NEW v, Live(v), NEW kind \in BlockKinds, NEW body \in Seq(Sym)
  PROVE  Live(Fill(Opened(v, kind), kind, body)) /\ Fill(Opened(v, kind), kind, body).reason = v.reason
<1>1. kind # "none" BY DEF BlockKinds
<1>2. Live(Opened(v, kind)) /\ Opened(v, kind).open = kind /\ Opened(v, kind).reason = v.reason BY OpenLive
<1> QED BY <1>1, <1>2, FillLive

(* A whole call.                                                           *)
LEMMA ToolUseLive ==
  ASSUME NEW v, Live(v), NEW call \in CallSet
  PROVE  Live(ToolUse(v, call)) /\ ToolUse(v, call).open = "none"
         /\ ToolUse(v, call).index = v.index + 1 /\ ToolUse(v, call).reason = v.reason
<1> DEFINE o == OpenBlock(v, "tool_use")
           l == Fill(o, "tool_use", call.arguments)
<1>1. "tool_use" \in BlockKinds /\ "tool_use" # "none" BY DEF BlockKinds
<1>2. call.arguments \in Seq(Sym) BY DEF CallSet
<1>3. Live(o) /\ o.open = "tool_use" /\ o.reason = v.reason /\ o.index = v.index + 1 BY <1>1, OpenLive
<1> HIDE DEF o
<1>4. Live(l) /\ l.index = o.index /\ l.reason = o.reason BY <1>1, <1>2, <1>3, FillLive
<1>5. ToolUse(v, call) = CloseBlock(l) BY DEF ToolUse, l, o
<1> HIDE DEF l
<1>6. Live(CloseBlock(l)) /\ CloseBlock(l).open = "none" /\ CloseBlock(l).index = l.index
      /\ CloseBlock(l).reason = l.reason
  BY <1>4, CloseLive
<1> QED BY <1>3, <1>4, <1>5, <1>6

(* A part of a call.                                                       *)
LEMMA ToolPartLive ==
  ASSUME NEW v, Live(v), NEW part \in PartSet
  PROVE  Live(ToolPart(v, part)) /\ ToolPart(v, part).reason = v.reason
<1>1. "tool_use" \in BlockKinds /\ "tool_use" # "none" BY DEF BlockKinds
<1>2. part.arguments \in Seq(Sym) /\ part.new \in BOOLEAN BY DEF PartSet
<1>3. Live(OpenBlock(v, "tool_use")) /\ OpenBlock(v, "tool_use").open = "tool_use"
      /\ OpenBlock(v, "tool_use").reason = v.reason
  BY <1>1, OpenLive
<1>4. CASE part.new
  <2>1. ToolPart(v, part) = Fill(OpenBlock(v, "tool_use"), "tool_use", part.arguments) BY <1>4 DEF ToolPart
  <2> QED BY <1>1, <1>2, <1>3, <2>1, FillLive
<1>5. CASE ~part.new
  <2>1. ToolPart(v, part) = Fill(Opened(v, "tool_use"), "tool_use", part.arguments) BY <1>5 DEF ToolPart
  <2> QED BY <1>1, <1>2, <2>1, TextLive
<1> QED BY <1>2, <1>4, <1>5

(* The calls and the parts of one event.                                   *)
LEMMA ToolsLive ==
  ASSUME NEW v, Live(v)
  PROVE  /\ \A calls \in Seq(CallSet) : Live(ToolUses(v, calls))
         /\ \A parts \in Seq(PartSet) : Live(ToolParts(v, parts))
<1> DEFINE V == {u \in WireSet : Live(u)}
<1>1. v \in V /\ \A u \in V : Live(u) BY DEF Live
<1>2. \A u : Live(u) => u \in V BY DEF Live
<1> HIDE DEF V
<1>3. ASSUME NEW calls \in Seq(CallSet) PROVE Live(ToolUses(v, calls))
  <2> DEFINE n == Len(calls)
  <2>1. n \in Nat /\ DOMAIN calls = 1..n /\ \A i \in 1..n : calls[i] \in CallSet OBVIOUS
  <2>2. \A u \in V : \A i \in 1..n : ToolUse(u, calls[i]) \in V BY <1>1, <1>2, <2>1, ToolUseLive
  <2> HIDE DEF n
  <2>3. PICK f : ToolUsesRuns(f, v, calls, n, V) BY <1>1, <2>1, <2>2, ToolUseFold
  <2>4. f[n] \in V /\ ToolUses(v, calls) = f[n] BY <2>1, <2>3 DEF ToolUsesRuns
  <2> QED BY <1>1, <2>4
<1>4. ASSUME NEW parts \in Seq(PartSet) PROVE Live(ToolParts(v, parts))
  <2> DEFINE n == Len(parts)
  <2>1. n \in Nat /\ DOMAIN parts = 1..n /\ \A i \in 1..n : parts[i] \in PartSet OBVIOUS
  <2>2. \A u \in V : \A i \in 1..n : ToolPart(u, parts[i]) \in V BY <1>1, <1>2, <2>1, ToolPartLive
  <2> HIDE DEF n
  <2>3. PICK f : ToolPartsRuns(f, v, parts, n, V) BY <1>1, <2>1, <2>2, ToolPartFold
  <2>4. f[n] \in V /\ ToolParts(v, parts) = f[n] BY <2>1, <2>3 DEF ToolPartsRuns
  <2> QED BY <1>1, <2>4
<1> QED BY <1>3, <1>4

(* Another stop reason leaves a live stream live.                          *)
LEMMA ReasonLive ==
  ASSUME NEW v, Live(v), NEW reason \in Reasons
  PROVE  Live([v EXCEPT !.reason = reason])
<1> DEFINE r == [v EXCEPT !.reason = reason]
<1>1. v \in WireSet BY DEF Live
<1>2. r \in WireSet /\ r.frames = v.frames /\ r.open = v.open /\ r.index = v.index BY <1>1 DEF WireSet
<1> HIDE DEF r
<1>3. Live(r) BY <1>2 DEF Live
<1> QED BY <1>3 DEF r

(* The end of a stream: what is open is stopped, the message is stopped,   *)
(* and nothing told of an error.                                           *)
Whole(v) ==
  /\ v \in WireSet /\ Bracketed(v.frames)
  /\ Tally(v.frames, Len(v.frames), "error") = 0

(* The frames an ending adds leave the stream whole.                       *)
LEMMA EndingWhole ==
  ASSUME NEW v, Live(v), NEW reason \in Reasons
  PROVE  Whole(Ending(v, reason))
<1> DEFINE l == LastBlock(v)
           i == Item("message_delta", reason)
           j == Item("message_stop", <<>>)
           f == Append(l.frames, i)
           m == [l EXCEPT !.frames = f]
           k == Append(f, j)
           r == [l EXCEPT !.frames = k, !.reason = reason]
<1>1. Live(l) /\ l.open = "none"
  <2>1. "text" \in BlockKinds BY DEF BlockKinds
  <2>2. Live(OpenBlock(v, "text")) BY <2>1, OpenLive
  <2>3. CASE v.index = 0 BY <2>2, <2>3, CloseLive DEF LastBlock
  <2>4. CASE v.index # 0 BY <2>4, CloseLive DEF LastBlock
  <2> QED BY <2>3, <2>4
<1> HIDE DEF l
<1>2. i \in Frames /\ j \in Frames /\ i.type = "message_delta" /\ j.type = "message_stop"
  BY DEF Item, Frames, OtherFrames
<1>3. Ending(v, reason) = [Push(l, <<i, j>>) EXCEPT !.reason = reason] BY DEF Ending, l
<1> HIDE DEF i, j
<1>4. l \in WireSet /\ l.frames \in Seq(Frames) BY <1>1 DEF Live, WireSet
<1>5. f \in Seq(Frames) /\ k \in Seq(Frames) /\ Len(l.frames) \in Nat /\ Len(f) = Len(l.frames) + 1
      /\ Len(k) = Len(f) + 1 /\ f[Len(l.frames) + 1] = i /\ k[Len(f) + 1] = j
      /\ l.frames \o <<i, j>> = k
  <2>1. l.frames \o <<i, j>> = Append(Append(l.frames, i), j) BY <1>2, <1>4
  <2> QED BY <1>2, <1>4, <2>1
<1>6. Ending(v, reason) = r BY <1>3, <1>4, <1>5 DEF Push, WireSet
<1>7. \A type : Tally(f, Len(l.frames) + 1, type)
                  = Tally(l.frames, Len(l.frames), type) + IF i.type = type THEN 1 ELSE 0
  BY <1>1, <1>2, PushedCounts
<1>8. \A type : Tally(f, (Len(l.frames) + 1) - 1, type) = Tally(l.frames, Len(l.frames), type)
  BY <1>1, <1>2, PushedCounts
<1>9. GoodFrame(f, Len(l.frames) + 1)
  BY <1>1, <1>2, <1>5, <1>8 DEF GoodFrame, Started, Stopped, Live
<1>10. Bracketed(f) BY <1>1, <1>2, <1>4, <1>9, OneMoreFrame DEF Live
<1>11. Tally(f, Len(f), "message_stop") = 0 /\ Tally(f, Len(f), "error") = 0
  BY <1>1, <1>2, <1>5, <1>7 DEF Live
<1>12. \A type : Tally(k, Len(f) + 1, type) = Tally(f, Len(f), type) + IF j.type = type THEN 1 ELSE 0
  <2> TAKE type
  <2> HIDE DEF f
  <2> QED BY <1>2, <1>5, TallyAppend
<1>13. \A type : Tally(k, (Len(f) + 1) - 1, type) = Tally(f, Len(f), type)
  <2> TAKE type
  <2>1. (Len(f) + 1) - 1 \in 0..Len(f) /\ (Len(f) + 1) - 1 = Len(f) BY <1>5
  <2> HIDE DEF f
  <2> QED BY <1>2, <1>5, <2>1, TallyAppend
<1>14. GoodFrame(k, Len(f) + 1) BY <1>2, <1>5, <1>11, <1>13 DEF GoodFrame
<1>15. Bracketed(k)
  <2> HIDE DEF f
  <2> QED BY <1>2, <1>5, <1>10, <1>14, OneMoreFrame
<1>16. Tally(k, Len(k), "error") = 0 BY <1>2, <1>5, <1>11, <1>12
<1>17. r \in WireSet /\ r.frames = k BY <1>4, <1>5 DEF WireSet
<1> HIDE DEF k, r
<1> QED BY <1>6, <1>15, <1>16, <1>17 DEF Whole

(* An event leaves the stream live, or ends it.                            *)
LEMMA OnWireLive ==
  ASSUME NEW type, NEW body, Sent(type, body), Live(wire)
  PROVE  /\ type # "completed" => Live(OnWire(type, body))
         /\ Whole(OnWire(type, body))
<1>0. /\ {"text", "thinking"} \subseteq BlockKinds /\ "tool_use" \in Reasons
      /\ \A v : Live(v) => Whole(v)
  BY DEF BlockKinds, Reasons, Live, Whole
<1>1. CASE type = "delta" /\ body \in Seq(Sym)
  <2>1. OnWire(type, body) = Fill(Opened(wire, "text"), "text", body) BY <1>1 DEF OnWire, Text
  <2> QED BY <1>0, <1>1, <2>1, TextLive
<1>2. CASE type = "reasoning_delta" /\ body \in Seq(Sym)
  <2>1. OnWire(type, body) = IF Thinking THEN Fill(Opened(wire, "thinking"), "thinking", body) ELSE wire
    BY <1>2 DEF OnWire, Thought
  <2> QED BY <1>0, <1>2, <2>1, TextLive
<1>3. CASE type = "tool_calls" /\ body \in Seq(CallSet)
  <2>1. OnWire(type, body) = [ToolUses(wire, body) EXCEPT !.reason = "tool_use"] BY <1>3 DEF OnWire
  <2>2. Live(ToolUses(wire, body)) BY <1>3, ToolsLive
  <2> QED BY <1>0, <2>1, <2>2, ReasonLive
<1>4. CASE type = "tool_call_delta" /\ body \in Seq(PartSet)
  <2>1. OnWire(type, body) = [ToolParts(wire, body) EXCEPT !.reason = "tool_use"] BY <1>4 DEF OnWire
  <2>2. Live(ToolParts(wire, body)) BY <1>4, ToolsLive
  <2> QED BY <1>0, <2>1, <2>2, ReasonLive
<1>5. CASE type = "completed" /\ body \in [finish : Finishes, matched : BOOLEAN]
  <2>1. OnWire(type, body) = Ending(wire, StopReason(wire.reason, body)) BY <1>5 DEF OnWire
  <2>2. StopReason(wire.reason, body) \in Reasons
    <3>1. body.matched \in BOOLEAN BY <1>5
    <3> QED BY <3>1 DEF StopReason, FinishReason, Reasons
  <2> QED BY <1>5, <2>1, <2>2, EndingWhole
<1> QED BY <1>1, <1>2, <1>3, <1>4, <1>5 DEF Sent

-----------------------------------------------------------------------------
(* Types of the Anthropic message.                                         *)

(* A block more, or a longer last one.                                     *)
LEMMA ExtendTyped ==
  ASSUME NEW content \in Seq(BlockSet), NEW kind \in BlockKinds, NEW body \in Seq(Sym)
  PROVE  Extend(content, kind, body) \in Seq(BlockSet)
<1>1. CASE content # <<>> /\ Last(content).kind = kind
  <2> DEFINE n == Len(content)
             b == [content[n] EXCEPT !.body = content[n].body \o body]
  <2>1. n \in 1..Len(content) /\ content[n] \in BlockSet BY <1>1
  <2>2. content[n].body \o body \in Seq(Sym) BY <2>1, ConcatProperties DEF BlockSet
  <2>3. b \in BlockSet BY <2>1, <2>2 DEF BlockSet
  <2>4. Extend(content, kind, body) = [content EXCEPT ![Len(content)].body = @ \o body] BY <1>1 DEF Extend
  <2>5. Extend(content, kind, body) = [content EXCEPT ![n] = b] BY <2>1, <2>4 DEF BlockSet
  <2> HIDE DEF n, b
  <2> QED BY <2>1, <2>3, <2>5, ExceptSeq
<1>2. CASE ~(content # <<>> /\ Last(content).kind = kind)
  <2>1. Extend(content, kind, body) = Append(content, Block(kind, body)) BY <1>2, Zenon DEF Extend
  <2>2. Block(kind, body) \in BlockSet BY DEF Block, BlockSet
  <2> QED BY <2>1, <2>2
<1> QED BY <1>1, <1>2

(* The calls of a worker as blocks.                                        *)
LEMMA UsesTyped ==
  ASSUME NEW calls \in Seq(CallSet)
  PROVE  Uses(calls) \in Seq(BlockSet) /\ Len(Uses(calls)) = Len(calls)
         /\ \A k \in 1..Len(calls) : Uses(calls)[k] = Block("tool_use", calls[k].arguments)
<1> DEFINE n == Len(calls)
           s == Uses(calls)
<1>1. n \in Nat /\ DOMAIN calls = 1..n /\ \A k \in 1..n : calls[k] \in CallSet OBVIOUS
<1>2. s = [k \in 1..n |-> Block("tool_use", calls[k].arguments)] BY <1>1 DEF Uses
<1>3. \A k \in 1..n : Block("tool_use", calls[k].arguments) \in BlockSet
  BY <1>1 DEF Block, BlockSet, CallSet, BlockKinds
<1> HIDE DEF n, s
<1>4. s \in [1..n -> BlockSet] BY <1>2, <1>3
<1>5. s \in Seq(BlockSet) /\ Len(s) = n BY <1>1, <1>4, SeqFrom
<1> QED BY <1>2, <1>5 DEF n, s

(* A part placed in the content.                                           *)
LEMMA PlacedTyped ==
  ASSUME NEW m \in MessageSet, NEW part \in PartSet
  PROVE  Placed(m, part) \in MessageSet
<1> DEFINE all == Grown(m.content, part.index)
           k == part.index + 1
           b == [all[k] EXCEPT !.body = all[k].body \o part.arguments]
           reason == IF m.reason = "none" THEN "tool_use" ELSE m.reason
<1>1. part.index \in Nat /\ part.arguments \in Seq(Sym) /\ m.content \in Seq(BlockSet) /\ m.reason \in Reasons
  BY DEF PartSet, MessageSet
<1>2. Block("tool_use", <<>>) \in BlockSet BY DEF Block, BlockSet, BlockKinds
<1>3. all \in Seq(BlockSet) /\ k \in 1..Len(all) BY <1>1, <1>2, ReachingTyped DEF Grown
<1>4. Placed(m, part) = IF all[k].kind # "tool_use" THEN [m EXCEPT !.content = all]
                        ELSE [content |-> [all EXCEPT ![k].body = @ \o part.arguments], reason |-> reason]
  BY DEF Placed
<1> HIDE DEF all, k
<1>5. all[k] \in BlockSet BY <1>3
<1>6. all[k].body \o part.arguments \in Seq(Sym) BY <1>1, <1>5, ConcatProperties DEF BlockSet
<1>7. b \in BlockSet BY <1>5, <1>6 DEF BlockSet
<1>8. [all EXCEPT ![k].body = @ \o part.arguments] = [all EXCEPT ![k] = b] BY <1>3, <1>5 DEF BlockSet
<1> HIDE DEF b
<1>9. [all EXCEPT ![k] = b] \in Seq(BlockSet) BY <1>3, <1>7, ExceptSeq
<1>10. reason \in Reasons BY <1>1 DEF Reasons
<1> HIDE DEF reason
<1>11. CASE all[k].kind # "tool_use" BY <1>3, <1>4, <1>11 DEF MessageSet
<1>12. CASE all[k].kind = "tool_use"
  <2>1. Placed(m, part) = [content |-> [all EXCEPT ![k] = b], reason |-> reason] BY <1>4, <1>8, <1>12
  <2> QED BY <1>9, <1>10, <2>1 DEF MessageSet
<1> QED BY <1>11, <1>12

(* What an event makes of the message.                                     *)
LEMMA OnMessageTyped ==
  ASSUME NEW type, NEW body, Sent(type, body), message \in MessageSet
  PROVE  OnMessage(type, body) \in MessageSet
<1>0. message.content \in Seq(BlockSet) /\ message.reason \in Reasons /\ {"text", "thinking"} \subseteq BlockKinds
  BY DEF MessageSet, BlockKinds
<1>1. CASE type = "delta" /\ body \in Seq(Sym)
  <2>1. Extend(message.content, "text", body) \in Seq(BlockSet) BY <1>0, <1>1, ExtendTyped
  <2>2. OnMessage(type, body) = [message EXCEPT !.content = Extend(@, "text", body)] BY <1>1 DEF OnMessage
  <2> QED BY <2>1, <2>2 DEF MessageSet
<1>2. CASE type = "reasoning_delta" /\ body \in Seq(Sym)
  <2>1. Extend(message.content, "thinking", body) \in Seq(BlockSet) BY <1>0, <1>2, ExtendTyped
  <2>2. OnMessage(type, body) = IF Thinking THEN [message EXCEPT !.content = Extend(@, "thinking", body)] ELSE message
    BY <1>2 DEF OnMessage
  <2> QED BY <2>1, <2>2 DEF MessageSet
<1>3. CASE type = "tool_calls" /\ body \in Seq(CallSet)
  <2>1. message.content \o Uses(body) \in Seq(BlockSet) BY <1>0, <1>3, UsesTyped, ConcatProperties
  <2>2. OnMessage(type, body) = [message EXCEPT !.content = @ \o Uses(body), !.reason = "tool_use"]
    BY <1>3 DEF OnMessage
  <2> QED BY <2>1, <2>2 DEF MessageSet, Reasons
<1>4. CASE type = "tool_call_delta" /\ body \in Seq(PartSet)
  <2> DEFINE n == Len(body)
  <2>1. n \in Nat /\ DOMAIN body = 1..n /\ \A i \in 1..n : body[i] \in PartSet BY <1>4
  <2>2. \A u \in MessageSet : \A i \in 1..n : Placed(u, body[i]) \in MessageSet BY <2>1, PlacedTyped
  <2> HIDE DEF n
  <2>3. PICK f : PlacedAllRuns(f, message, body, n, MessageSet) BY <2>1, <2>2, PlacedFold
  <2>4. f[n] \in MessageSet /\ PlacedAll(message, body) = f[n] BY <2>1, <2>3 DEF PlacedAllRuns
  <2>5. OnMessage(type, body) = PlacedAll(message, body) BY <1>4 DEF OnMessage
  <2> QED BY <2>4, <2>5
<1>5. CASE type = "completed" /\ body \in [finish : Finishes, matched : BOOLEAN]
  <2>1. OnMessage(type, body) = [message EXCEPT !.reason = StopReason(@, body)] BY <1>5 DEF OnMessage
  <2>2. StopReason(message.reason, body) \in Reasons
    <3>1. body.matched \in BOOLEAN BY <1>5
    <3> QED BY <3>1 DEF StopReason, FinishReason, Reasons
  <2> QED BY <2>1, <2>2 DEF MessageSet
<1> QED BY <1>1, <1>2, <1>3, <1>4, <1>5 DEF Sent

-----------------------------------------------------------------------------
(* The OpenAI streams end once.                                            *)
Amount(s, type) == Tally(s, Len(s), type)

(* A stream that goes on has told neither its end nor an error, and its    *)
(* finish once it completed.                                               *)
Fresh(c) ==
  /\ c.chunks \in Seq(Chunks) /\ c.completed \in BOOLEAN /\ c.failed = FALSE
  /\ Amount(c.chunks, "done") = 0 /\ Amount(c.chunks, "error") = 0
  /\ Amount(c.chunks, "finish") = IF c.completed THEN 1 ELSE 0

(* One that is over, or goes on, ends once.                                *)
OnceOver(c, done) ==
  /\ c.chunks \in Seq(Chunks)
  /\ Amount(c.chunks, "finish") <= 1 /\ Amount(c.chunks, "done") <= 1
  /\ done => Last(c.chunks).type = "done" /\ (c.failed \/ Amount(c.chunks, "finish") = 1)
  /\ \A j, k \in 1..Len(c.chunks) : c.chunks[j].type = "error" /\ c.chunks[k].type = "finish" => k < j

(* What the run checks of the two streams.                                 *)
LEMMA EndsOnceIs ==
  ASSUME OnceOver(chat, over \in {"error", "eof"}), OnceOver(legacy, over \in {"error", "eof"})
  PROVE  EndsOnce
<1>1. DOMAIN chat.chunks = 1..Len(chat.chunks) /\ DOMAIN legacy.chunks = 1..Len(legacy.chunks)
  BY DEF OnceOver
<1>2. \A type : Count(chat.chunks, type) = Amount(chat.chunks, type)
             /\ Count(legacy.chunks, type) = Amount(legacy.chunks, type)
  BY <1>1 DEF Count, Amount, Tally
<1> QED BY <1>1, <1>2, Zenon DEF EndsOnce, OnceOver

(* A stream that goes on ends once so far.                                 *)
LEMMA FreshIsOnce ==
  ASSUME NEW c, Fresh(c) PROVE OnceOver(c, FALSE)
<1>1. Len(c.chunks) \in Nat BY DEF Fresh
<1>2. \A j \in 1..Len(c.chunks) : c.chunks[j].type # "error" BY <1>1, TallySome DEF Fresh, Amount
<1> QED BY <1>2 DEF Fresh, OnceOver

(* One chunk more of a type that does not end a stream.                    *)
LEMMA CountOne ==
  ASSUME NEW s \in Seq(Chunks), NEW i \in Chunks
  PROVE  /\ Append(s, i) = s \o <<i>> /\ Append(s, i) \in Seq(Chunks)
         /\ \A type : Amount(Append(s, i), type) = Amount(s, type) + IF i.type = type THEN 1 ELSE 0
<1>1. Len(Append(s, i)) = Len(s) + 1 /\ Append(s, i) = s \o <<i>> /\ Append(s, i) \in Seq(Chunks) OBVIOUS
<1>2. \A type : Tally(Append(s, i), Len(s) + 1, type) = Tally(s, Len(s), type) + IF i.type = type THEN 1 ELSE 0
  BY TallyAppend
<1> QED BY <1>1, <1>2 DEF Amount

(* Chunks of other types count for nothing.                                *)
LEMMA CountNone ==
  ASSUME NEW s \in Seq(Chunks), NEW t \in Seq(Chunks), NEW type,
         \A k \in 1..Len(t) : t[k].type # type
  PROVE  Amount(s \o t, type) = Amount(s, type)
<1> DEFINE r == s \o t
<1>1. r \in Seq(Chunks) /\ Len(r) = Len(s) + Len(t) /\ Len(s) \in Nat /\ Len(t) \in Nat BY ConcatProperties
<1>2. \A k \in 1..Len(r) : r[k] = IF k <= Len(s) THEN s[k] ELSE t[k - Len(s)] BY ConcatProperties
<1> HIDE DEF r
<1>3. \A k \in 1..Len(r) : r[k].type = type => k \in 1..Len(s)
  <2> SUFFICES ASSUME NEW k \in 1..Len(r), r[k].type = type, k \notin 1..Len(s) PROVE FALSE OBVIOUS
  <2>1. k - Len(s) \in 1..Len(t) /\ ~(k <= Len(s)) BY <1>1
  <2> QED BY <1>2, <2>1
<1>4. \A k \in 1..Len(s) : k \in 1..Len(r) /\ r[k] = s[k] BY <1>1, <1>2
<1>5. {k \in 1..Len(r) : r[k].type = type} = {k \in 1..Len(s) : s[k].type = type} BY <1>3, <1>4
<1> QED BY <1>5 DEF Amount, Tally, r

(* An event before the finish: no other finish.                            *)
LEMMA ChatGoesOn ==
  ASSUME NEW type, NEW body, Sent(type, body), chat \in ChatSet, Fresh(chat), ~chat.completed
  PROVE  Fresh(OnChat(type, body)) /\ (OnChat(type, body).completed <=> type = "completed")
<1>0. chat.chunks \in Seq(Chunks) BY DEF Fresh
<1>1. CASE type \in {"delta", "reasoning_delta"} /\ body \in Seq(Sym)
  <2> DEFINE i == Item(type, body)
             f == Append(chat.chunks, i)
  <2>1. i \in Chunks /\ i.type = type BY <1>1 DEF Item, Deltas, Chunks
  <2>2. OnChat(type, body) = Send(chat, <<i>>) BY <1>1 DEF OnChat
  <2> HIDE DEF i
  <2>3. f = chat.chunks \o <<i>> /\ f \in Seq(Chunks)
        /\ \A t : Amount(f, t) = Amount(chat.chunks, t) + IF i.type = t THEN 1 ELSE 0
    BY <1>0, <2>1, CountOne
  <2>4. OnChat(type, body) = [chat EXCEPT !.chunks = f] BY <2>2, <2>3 DEF Send
  <2> HIDE DEF f
  <2>5. /\ OnChat(type, body).chunks = f /\ OnChat(type, body).failed = chat.failed
        /\ OnChat(type, body).completed = chat.completed
    BY <2>4 DEF ChatSet
  <2> QED BY <1>1, <2>1, <2>3, <2>5 DEF Fresh
<1>2. CASE type = "tool_calls" /\ body \in Seq(CallSet)
  <2> DEFINE t == CallChunks(body)
             f == chat.chunks \o t
  <2>1. OnChat(type, body) = [Send(chat, t) EXCEPT !.tools = TRUE] BY <1>2 DEF OnChat
  <2>2. t \in Seq(CallItems) /\ t \in Seq(Chunks) BY <1>2, CallChunksTyped, ChunkSets
  <2> HIDE DEF t
  <2>3. \A k \in 1..Len(t) : t[k].type = "calls"
    <3> TAKE k \in 1..Len(t)
    <3>1. t[k] \in CallItems BY <2>2
    <3> QED BY <3>1 DEF CallItems
  <2>4. f \in Seq(Chunks) BY <1>0, <2>2, ConcatProperties
  <2>5. /\ Amount(f, "done") = Amount(chat.chunks, "done") /\ Amount(f, "error") = Amount(chat.chunks, "error")
        /\ Amount(f, "finish") = Amount(chat.chunks, "finish")
    BY <1>0, <2>2, <2>3, CountNone
  <2>6. OnChat(type, body) = [[chat EXCEPT !.chunks = f] EXCEPT !.tools = TRUE] BY <2>1 DEF Send
  <2> HIDE DEF f
  <2> QED BY <1>2, <2>4, <2>5, <2>6 DEF Fresh, ChatSet
<1>3. CASE type = "tool_call_delta" /\ body \in Seq(PartSet)
  <2> DEFINE i == Item("calls", body)
             f == Append(chat.chunks, i)
  <2>1. i \in Chunks /\ i.type = "calls" BY <1>3 DEF Item, CallItems, Chunks
  <2>2. OnChat(type, body) = [Send(chat, <<i>>) EXCEPT !.tools = TRUE] BY <1>3 DEF OnChat
  <2> HIDE DEF i
  <2>3. f = chat.chunks \o <<i>> /\ f \in Seq(Chunks)
        /\ \A t : Amount(f, t) = Amount(chat.chunks, t) + IF i.type = t THEN 1 ELSE 0
    BY <1>0, <2>1, CountOne
  <2>4. OnChat(type, body) = [[chat EXCEPT !.chunks = f] EXCEPT !.tools = TRUE] BY <2>2, <2>3 DEF Send
  <2> HIDE DEF f
  <2>5. /\ OnChat(type, body).chunks = f /\ OnChat(type, body).failed = chat.failed
        /\ OnChat(type, body).completed = chat.completed
    BY <2>4 DEF ChatSet
  <2>6. Amount(f, "done") = 0 /\ Amount(f, "error") = 0 /\ Amount(f, "finish") = 0
    BY <2>1, <2>3 DEF Fresh
  <2>7. chat.completed = FALSE /\ chat.failed = FALSE BY DEF Fresh
  <2>8. type # "completed" BY <1>3
  <2> QED BY <2>3, <2>5, <2>6, <2>7, <2>8 DEF Fresh
<1>4. CASE type = "completed" /\ body \in [finish : Finishes, matched : BOOLEAN]
  <2> DEFINE i == Item("finish", ChatFinish(body.finish))
             f == Append(chat.chunks, i)
  <2>1. i \in Chunks /\ i.type = "finish" BY <1>4 DEF Item, FinishItems, Chunks, ChatFinish, Known, Finishes
  <2>2. OnChat(type, body) = [Send(chat, <<i>>) EXCEPT !.completed = TRUE] BY <1>4 DEF OnChat
  <2> HIDE DEF i
  <2>3. f = chat.chunks \o <<i>> /\ f \in Seq(Chunks)
        /\ \A t : Amount(f, t) = Amount(chat.chunks, t) + IF i.type = t THEN 1 ELSE 0
    BY <1>0, <2>1, CountOne
  <2>4. OnChat(type, body) = [[chat EXCEPT !.chunks = f] EXCEPT !.completed = TRUE] BY <2>2, <2>3 DEF Send
  <2> HIDE DEF f
  <2>5. /\ OnChat(type, body).chunks = f /\ OnChat(type, body).failed = chat.failed
        /\ OnChat(type, body).completed = TRUE
    BY <2>4 DEF ChatSet
  <2>6. Amount(f, "done") = 0 /\ Amount(f, "error") = 0 /\ Amount(f, "finish") = 1
    BY <2>1, <2>3 DEF Fresh
  <2>7. chat.completed = FALSE /\ chat.failed = FALSE BY DEF Fresh
  <2>8. type = "completed" BY <1>4
  <2> QED BY <2>3, <2>5, <2>6, <2>7, <2>8 DEF Fresh
<1> QED BY <1>1, <1>2, <1>3, <1>4 DEF Sent

(* The completions stream likewise.                                        *)
LEMMA LegacyGoesOn ==
  ASSUME NEW type, NEW body, Sent(type, body), legacy \in LegacySet, Fresh(legacy), ~legacy.completed
  PROVE  Fresh(OnLegacy(type, body)) /\ (OnLegacy(type, body).completed <=> type = "completed")
<1>0. legacy.chunks \in Seq(Chunks) BY DEF Fresh
<1>1. CASE type \in {"delta", "reasoning_delta"} /\ body \in Seq(Sym)
  <2> DEFINE i == Item("delta", body)
             f == Append(legacy.chunks, i)
  <2>1. i \in Chunks /\ i.type = "delta" BY <1>1 DEF Item, Deltas, Chunks
  <2>2. OnLegacy(type, body) = [Send(legacy, <<i>>) EXCEPT !.text = @ \o body] BY <1>1 DEF OnLegacy
  <2> HIDE DEF i
  <2>3. f = legacy.chunks \o <<i>> /\ f \in Seq(Chunks)
        /\ \A t : Amount(f, t) = Amount(legacy.chunks, t) + IF i.type = t THEN 1 ELSE 0
    BY <1>0, <2>1, CountOne
  <2>4. OnLegacy(type, body) = [[legacy EXCEPT !.chunks = f] EXCEPT !.text = @ \o body] BY <2>2, <2>3 DEF Send
  <2> HIDE DEF f
  <2>5. /\ OnLegacy(type, body).chunks = f /\ OnLegacy(type, body).failed = legacy.failed
        /\ OnLegacy(type, body).completed = legacy.completed
    BY <2>4 DEF LegacySet
  <2> QED BY <1>1, <2>1, <2>3, <2>5 DEF Fresh
<1>2. CASE type \in {"tool_calls", "tool_call_delta"}
  <2>1. OnLegacy(type, body) = legacy BY <1>2 DEF OnLegacy
  <2> QED BY <1>2, <2>1
<1>4. CASE type = "completed" /\ body \in [finish : Finishes, matched : BOOLEAN]
  <2> DEFINE i == Item("finish", TextFinish(body.finish))
             f == Append(legacy.chunks, i)
  <2>1. i \in Chunks /\ i.type = "finish" BY <1>4 DEF Item, FinishItems, Chunks, TextFinish, Known, Finishes
  <2>2. OnLegacy(type, body) = [Send(legacy, <<i>>) EXCEPT !.completed = TRUE] BY <1>4 DEF OnLegacy
  <2> HIDE DEF i
  <2>3. f = legacy.chunks \o <<i>> /\ f \in Seq(Chunks)
        /\ \A t : Amount(f, t) = Amount(legacy.chunks, t) + IF i.type = t THEN 1 ELSE 0
    BY <1>0, <2>1, CountOne
  <2>4. OnLegacy(type, body) = [[legacy EXCEPT !.chunks = f] EXCEPT !.completed = TRUE] BY <2>2, <2>3 DEF Send
  <2> HIDE DEF f
  <2>5. /\ OnLegacy(type, body).chunks = f /\ OnLegacy(type, body).failed = legacy.failed
        /\ OnLegacy(type, body).completed = TRUE
    BY <2>4 DEF LegacySet
  <2>6. Amount(f, "done") = 0 /\ Amount(f, "error") = 0 /\ Amount(f, "finish") = 1
    BY <2>1, <2>3 DEF Fresh
  <2>7. legacy.completed = FALSE /\ legacy.failed = FALSE BY DEF Fresh
  <2>8. type = "completed" BY <1>4
  <2> QED BY <2>3, <2>5, <2>6, <2>7, <2>8 DEF Fresh
<1> QED BY <1>1, <1>2, <1>4 DEF Sent

Streams == ChatSet \cup LegacySet
(* The end of a stream, after an error or not.                             *)
LEMMA ClosedOnce ==
  ASSUME NEW c \in Streams, Fresh(c)
  PROVE  /\ OnceOver(Closed(c), TRUE) /\ OnceOver(Closed(Failed(c)), TRUE)
         /\ \A S \in {ChatSet, LegacySet} : c \in S => Closed(c) \in S /\ Closed(Failed(c)) \in S
<1> DEFINE fin == Item("finish", "stop")
           don == Item("done", <<>>)
           err == Item("error", <<>>)
           cs == c.chunks
           f == IF c.completed THEN cs ELSE Append(cs, fin)
           d == Append(f, don)
           q == Append(cs, err)
           r == Append(q, don)
<1>1. cs \in Seq(Chunks) /\ Len(cs) \in Nat BY DEF Fresh
<1>2. /\ fin \in Chunks /\ fin.type = "finish" /\ don \in Chunks /\ don.type = "done"
      /\ err \in Chunks /\ err.type = "error"
  BY DEF Item, Chunks, FinishItems, Plain, Finishes
<1>3. Closed(c) = Send(c, (IF c.completed THEN <<>> ELSE <<fin>>) \o <<don>>) BY DEF Closed, Fresh
<1>4. Failed(c) = [Send(c, <<err>>) EXCEPT !.failed = TRUE] BY DEF Failed
<1> HIDE DEF fin, don, err
<1>5. f \in Seq(Chunks) /\ f = cs \o (IF c.completed THEN <<>> ELSE <<fin>>)
  <2> HIDE DEF cs
  <2>1. cs \o <<>> = cs BY <1>1, ConcatEmptySeq
  <2>2. Append(cs, fin) = cs \o <<fin>> /\ Append(cs, fin) \in Seq(Chunks) BY <1>1, <1>2
  <2> QED BY <1>1, <2>1, <2>2
<1>6. d \in Seq(Chunks) /\ d = f \o <<don>> /\ q \in Seq(Chunks) /\ q = cs \o <<err>>
      /\ r \in Seq(Chunks) /\ r = q \o <<don>> BY <1>1, <1>2, <1>5, CountOne
<1>7. d = cs \o ((IF c.completed THEN <<>> ELSE <<fin>>) \o <<don>>)
  <2>1. (IF c.completed THEN <<>> ELSE <<fin>>) \in Seq(Chunks) /\ <<don>> \in Seq(Chunks) BY <1>2
  <2> HIDE DEF f, cs
  <2> QED BY <1>1, <1>5, <1>6, <2>1, ConcatAssociative
<1>8. Closed(c) = [c EXCEPT !.chunks = d] BY <1>3, <1>7 DEF Send
<1>9. Failed(c) = [[c EXCEPT !.chunks = q] EXCEPT !.failed = TRUE] BY <1>4, <1>6 DEF Send
<1>10. Failed(c).chunks = q /\ Failed(c).failed = TRUE BY <1>9 DEF Streams, ChatSet, LegacySet
<1>11. Closed(Failed(c)) = [Failed(c) EXCEPT !.chunks = r]
  <2>1. <<>> \o <<don>> = <<don>> BY <1>2
  <2>2. Closed(Failed(c)) = Send(Failed(c), <<don>>) BY <1>10, <2>1 DEF Closed, don
  <2> QED BY <1>6, <1>10, <2>2 DEF Send
<1>12. Closed(c) \in Streams /\ Closed(c).chunks = d /\ Closed(c).failed = c.failed
  BY <1>6, <1>8 DEF Streams, ChatSet, LegacySet
<1>13. Closed(Failed(c)).chunks = r /\ Closed(Failed(c)).failed = TRUE
  BY <1>9, <1>11 DEF Streams, ChatSet, LegacySet
<1>14. \A S \in {ChatSet, LegacySet} : c \in S => Closed(c) \in S /\ Closed(Failed(c)) \in S
  BY <1>6, <1>8, <1>9, <1>11 DEF ChatSet, LegacySet
<1>20. \A t : Amount(f, t) = Amount(cs, t) + (IF c.completed THEN 0 ELSE IF fin.type = t THEN 1 ELSE 0)
  <2> TAKE t
  <2>0. Amount(cs, t) \in Nat BY <1>1, TallyNat DEF Amount
  <2>1. CASE c.completed BY <2>0, <2>1
  <2>2. CASE ~c.completed BY <1>1, <1>2, <2>2, CountOne
  <2> QED BY <2>1, <2>2
<1>21. \A t : Amount(d, t) = Amount(f, t) + IF don.type = t THEN 1 ELSE 0
  <2> HIDE DEF f
  <2> QED BY <1>2, <1>5, CountOne
<1>22. /\ \A t : Amount(q, t) = Amount(cs, t) + IF err.type = t THEN 1 ELSE 0
       /\ \A t : Amount(r, t) = Amount(q, t) + IF don.type = t THEN 1 ELSE 0
  <2> HIDE DEF cs, q
  <2> QED BY <1>1, <1>2, <1>6, CountOne DEF q
<1>30. Len(d) = Len(f) + 1 /\ d[Len(d)] = don /\ Len(f) \in Nat BY <1>2, <1>5
<1>31. Len(q) = Len(cs) + 1 /\ q[Len(q)] = err /\ Len(r) = Len(q) + 1 /\ r[Len(r)] = don
       /\ (\A k \in 1..Len(cs) : r[k] = cs[k]) /\ r[Len(cs) + 1] = err
  BY <1>1, <1>2
<1>32. \A k \in 1..Len(cs) : cs[k].type # "error" BY <1>1, TallySome DEF Fresh, Amount
<1>33. Amount(cs, "done") = 0 /\ Amount(cs, "error") = 0 /\ Amount(cs, "finish") = (IF c.completed THEN 1 ELSE 0)
       /\ c.completed \in BOOLEAN
  BY DEF Fresh
<1> HIDE DEF cs, f, d, q, r
<1>40. OnceOver(Closed(c), TRUE)
  <2>1. Amount(d, "finish") = 1 /\ Amount(d, "done") = 1 /\ Amount(d, "error") = 0
    BY <1>2, <1>20, <1>21, <1>33
  <2>2. \A j \in 1..Len(d) : d[j].type # "error"
    <3>1. Len(d) \in Nat BY <1>6
    <3> QED BY <2>1, <3>1, TallySome DEF Amount
  <2> QED BY <1>2, <1>6, <1>12, <1>30, <2>1, <2>2 DEF OnceOver, Last
<1>41. OnceOver(Closed(Failed(c)), TRUE)
  <2>1. Amount(r, "finish") <= 1 /\ Amount(r, "done") = 1 BY <1>2, <1>22, <1>33
  <2>2. ASSUME NEW j \in 1..Len(r), NEW k \in 1..Len(r), r[j].type = "error", r[k].type = "finish"
        PROVE  k < j
    <3>1. j = Len(cs) + 1
      <4>1. j \in 1..Len(cs) \/ j = Len(cs) + 1 \/ j = Len(r) BY <1>1, <1>31
      <4> QED BY <1>2, <1>31, <1>32, <2>2, <4>1
    <3>2. k \in 1..Len(cs)
      <4>1. k \in 1..Len(cs) \/ k = Len(cs) + 1 \/ k = Len(r) BY <1>1, <1>31
      <4> QED BY <1>2, <1>31, <2>2, <4>1
    <3> QED BY <1>1, <3>1, <3>2
  <2>3. Last(r).type = "done" BY <1>2, <1>31 DEF Last
  <2>4. Amount(r, "done") <= 1 BY <2>1
  <2> QED BY <1>6, <1>13, <2>1, <2>2, <2>3, <2>4, Zenon DEF OnceOver
<1> QED BY <1>14, <1>40, <1>41

-----------------------------------------------------------------------------
(* The invariant of the routes: as long as a stream goes on its chunks and *)
(* frames have told no end; and whatever happened, they are well formed.   *)
GoingOn == over = "no" =>
  /\ Fresh(chat) /\ Fresh(legacy) /\ chat.completed = legacy.completed
  /\ Whole(wire) /\ (~chat.completed => Live(wire))
Formed ==
  /\ OnceOver(chat, over \in {"error", "eof"}) /\ OnceOver(legacy, over \in {"error", "eof"})
  /\ Bracketed(wire.frames)
RouteInv == RouteTyped /\ GoingOn /\ Formed

(* The invariant gives the shapes and the forms,                           *)
LEMMA RoutesFormed == RouteInv => RouteTypeOK /\ WellFormed
<1> SUFFICES ASSUME RouteInv PROVE RouteTypeOK /\ WellFormed OBVIOUS
<1>1. EndsOnce BY EndsOnceIs DEF RouteInv, Formed
<1>2. Framed BY BracketedIsFramed DEF RouteInv, Formed, RouteTyped
<1> QED BY <1>1, <1>2, RoutesTyped DEF RouteInv, WellFormed

(* it holds at first.                                                      *)
LEMMA RoutesBegin == RouteInit => RouteInv
<1> SUFFICES ASSUME RouteInit PROVE RouteInv OBVIOUS
<1> DEFINE i == Item("role", <<>>)
           m == Item("message_start", <<>>)
<1>1. i \in Chunks /\ i.type = "role" /\ m \in Frames /\ m.type = "message_start"
  BY DEF Item, Chunks, Plain, Frames, OtherFrames
<1>2. /\ chat = [chunks |-> <<i>>, completed |-> FALSE, failed |-> FALSE, tools |-> FALSE]
      /\ wire = [frames |-> <<m>>, index |-> 0, open |-> "none", reason |-> "none"]
      /\ legacy = [chunks |-> <<>>, completed |-> FALSE, failed |-> FALSE, text |-> <<>>]
      /\ whole = [text |-> <<>>, reasoning |-> <<>>, calls |-> <<>>, finish |-> "stop"]
      /\ message = [content |-> <<>>, reason |-> "none"]
      /\ opened = 0 /\ events = 0 /\ over = "no"
  BY DEF RouteInit
<1> HIDE DEF i, m
<1>3. <<i>> \in Seq(Chunks) /\ <<m>> \in Seq(Frames) /\ Len(<<i>>) = 1 /\ Len(<<m>>) = 1
      /\ <<i>>[1] = i /\ <<m>>[1] = m
  BY <1>1
<1>4. RouteTyped
  <2>1. chat \in ChatSet BY <1>2, <1>3 DEF ChatSet
  <2>2. legacy \in LegacySet BY <1>2 DEF LegacySet
  <2>3. whole \in WholeSet BY <1>2 DEF WholeSet, Finishes
  <2>4. wire \in WireSet BY <1>2, <1>3 DEF WireSet, Reasons
  <2>5. message \in MessageSet BY <1>2 DEF MessageSet, Reasons
  <2> QED BY <1>2, <2>1, <2>2, <2>3, <2>4, <2>5 DEF RouteTyped
<1>5. \A type : type # "role" => Amount(<<i>>, type) = 0
  <2> TAKE type
  <2>1. \A k \in 1..1 : <<i>>[k] = i BY <1>3
  <2>2. type # "role" => \A k \in 1..1 : <<i>>[k].type # type BY <1>1, <2>1
  <2>3. 1 \in Nat OBVIOUS
  <2> QED BY <1>3, <2>2, <2>3, TallySome DEF Amount
<1>6. \A type : Amount(<<>>, type) = 0
  <2> TAKE type
  <2>1. Len(<<>>) = 0 /\ 0 \in Nat /\ 1..0 = {} OBVIOUS
  <2> QED BY <2>1, TallySome DEF Amount
<1>7. Fresh(chat)
  <2>1. chat.chunks = <<i>> /\ chat.completed = FALSE /\ chat.failed = FALSE BY <1>2
  <2>2. Amount(chat.chunks, "done") = 0 BY <1>5, <2>1
  <2>3. Amount(chat.chunks, "error") = 0 BY <1>5, <2>1
  <2>4. Amount(chat.chunks, "finish") = 0 BY <1>5, <2>1
  <2>5. chat.chunks \in Seq(Chunks) BY <1>3, <2>1
  <2> QED BY <2>1, <2>2, <2>3, <2>4, <2>5 DEF Fresh
<1>8. Fresh(legacy)
  <2>1. legacy.chunks = <<>> /\ legacy.completed = FALSE /\ legacy.failed = FALSE BY <1>2
  <2>2. Amount(legacy.chunks, "done") = 0 BY <1>6, <2>1
  <2>3. Amount(legacy.chunks, "error") = 0 BY <1>6, <2>1
  <2>4. Amount(legacy.chunks, "finish") = 0 BY <1>6, <2>1
  <2>5. legacy.chunks \in Seq(Chunks) BY <2>1
  <2> QED BY <2>1, <2>2, <2>3, <2>4, <2>5 DEF Fresh
<1>9. Live(wire)
  <2>1. wire.frames = <<m>> /\ wire.index = 0 /\ wire.open = "none" BY <1>2
  <2>2. \A type : type # "message_start" => Tally(<<m>>, 1, type) = 0
    <3> TAKE type
    <3>1. \A k \in 1..1 : <<m>>[k] = m BY <1>3
    <3>2. type # "message_start" => \A k \in 1..1 : <<m>>[k].type # type BY <1>1, <3>1
    <3>3. 1 \in Nat OBVIOUS
    <3> QED BY <3>2, <3>3, TallySome
  <2>3. \A type : Tally(<<m>>, 1 - 1, type) = 0
    <3> TAKE type
    <3>1. 1 - 1 = 0 /\ 0 \in Nat /\ 1..0 = {} OBVIOUS
    <3> QED BY <3>1, TallySome
  <2>4. GoodFrame(<<m>>, 1) BY <1>1, <1>3, <2>3 DEF GoodFrame
  <2>5. Bracketed(<<m>>) BY <1>3, <2>4 DEF Bracketed
  <2> QED BY <1>3, <1>4, <2>1, <2>2, <2>5 DEF Live, RouteTyped
<1>10. GoingOn BY <1>2, <1>7, <1>8, <1>9 DEF GoingOn, Live, Whole
<1>11. Formed
  <2>1. OnceOver(chat, FALSE) /\ OnceOver(legacy, FALSE) BY <1>7, <1>8, FreshIsOnce
  <2>2. (over \in {"error", "eof"}) = FALSE BY <1>2
  <2>3. Bracketed(wire.frames) BY <1>9 DEF Live
  <2> QED BY <2>1, <2>2, <2>3 DEF Formed
<1> QED BY <1>4, <1>10, <1>11 DEF RouteInv

(* An event keeps it,                                                      *)
LEMMA FeedFormed ==
  ASSUME RouteInv, NEW type, NEW body, Sent(type, body), ~chat.completed, opened' \in Nat, Feed(type, body)
  PROVE  RouteInv' /\ (chat.completed' <=> type = "completed")
<1>1. /\ over = "no" /\ over' = "no" /\ events' = events + 1
      /\ chat' = OnChat(type, body) /\ whole' = OnWhole(type, body) /\ legacy' = OnLegacy(type, body)
      /\ wire' = OnWire(type, body) /\ message' = OnMessage(type, body)
  BY DEF Feed
<1>2. /\ chat \in ChatSet /\ legacy \in LegacySet /\ whole \in WholeSet /\ wire \in WireSet
      /\ message \in MessageSet /\ events \in Nat
  BY DEF RouteInv, RouteTyped
<1>3. Fresh(chat) /\ Fresh(legacy) /\ chat.completed = legacy.completed /\ Live(wire)
  BY <1>1 DEF RouteInv, GoingOn
<1>4. Fresh(chat') /\ (chat'.completed <=> type = "completed") BY <1>1, <1>2, <1>3, ChatGoesOn
<1>5. Fresh(legacy') /\ (legacy'.completed <=> type = "completed") BY <1>1, <1>2, <1>3, LegacyGoesOn
<1>6. (type # "completed" => Live(wire')) /\ Whole(wire') BY <1>1, <1>3, OnWireLive
<1>7. RouteTyped'
  <2>1. chat' \in ChatSet /\ legacy' \in LegacySet /\ whole' \in WholeSet /\ message' \in MessageSet
    BY <1>1, <1>2, OnChatTyped, OnLegacyTyped, OnWholeTyped, OnMessageTyped
  <2>2. wire' \in WireSet BY <1>6 DEF Whole
  <2> QED BY <1>1, <1>2, <2>1, <2>2 DEF RouteTyped
<1>8. chat'.completed \in BOOLEAN /\ legacy'.completed \in BOOLEAN BY <1>4, <1>5 DEF Fresh
<1>9. GoingOn' BY <1>4, <1>5, <1>6, <1>8 DEF GoingOn
<1>10. Formed'
  <2>1. OnceOver(chat', FALSE) /\ OnceOver(legacy', FALSE) BY <1>4, <1>5, FreshIsOnce
  <2>2. (over' \in {"error", "eof"}) = FALSE BY <1>1
  <2>3. Bracketed(wire'.frames) BY <1>6 DEF Whole
  <2> QED BY <2>1, <2>2, <2>3 DEF Formed
<1> QED BY <1>4, <1>7, <1>9, <1>10 DEF RouteInv

(* and so does every end of the stream.                                    *)
LEMMA EndsFormed ==
  ASSUME RouteInv, Break \/ Eof \/ Disconnect
  PROVE  RouteInv'
<1>1. over = "no" BY DEF Break, Eof, Disconnect
<1>2. /\ chat \in ChatSet /\ legacy \in LegacySet /\ whole \in WholeSet /\ wire \in WireSet
      /\ message \in MessageSet /\ events \in Nat /\ opened \in Nat
  BY DEF RouteInv, RouteTyped
<1>3. Fresh(chat) /\ Fresh(legacy) /\ Whole(wire) BY <1>1 DEF RouteInv, GoingOn
<1>4. chat \in Streams /\ legacy \in Streams BY <1>2 DEF Streams
<1>5. /\ OnceOver(Closed(chat), TRUE) /\ OnceOver(Closed(Failed(chat)), TRUE)
      /\ OnceOver(Closed(legacy), TRUE) /\ OnceOver(Closed(Failed(legacy)), TRUE)
  BY <1>3, <1>4, ClosedOnce
<1>6. /\ Closed(chat) \in ChatSet /\ Closed(Failed(chat)) \in ChatSet
      /\ Closed(legacy) \in LegacySet /\ Closed(Failed(legacy)) \in LegacySet
  BY <1>2, <1>3, <1>4, ClosedOnce
<1>7. CASE Break
  <2> DEFINE i == Item("error", <<>>)
             f == Append(wire.frames, i)
  <2>1. /\ over' = "error" /\ chat' = Closed(Failed(chat)) /\ legacy' = Closed(Failed(legacy))
        /\ wire' = Push(wire, <<i>>) /\ UNCHANGED <<whole, message, opened, events>>
    BY <1>7 DEF Break
  <2>2. i \in Frames /\ i.type = "error" BY DEF Item, Frames, OtherFrames
  <2> HIDE DEF i
  <2>3. wire' = [wire EXCEPT !.frames = f] /\ wire' \in WireSet
        /\ Len(f) = Len(wire.frames) + 1 /\ Len(wire.frames) \in Nat /\ f[Len(wire.frames) + 1] = i
    BY <1>2, <2>1, <2>2, PushOne
  <2>4. wire'.frames = f BY <1>2, <2>3 DEF WireSet
  <2>5. wire.frames \in Seq(Frames) BY <1>2 DEF WireSet
  <2>6. \A type : Tally(f, (Len(wire.frames) + 1) - 1, type) = Tally(wire.frames, Len(wire.frames), type)
    <3> TAKE type
    <3>1. (Len(wire.frames) + 1) - 1 \in 0..Len(wire.frames) /\ (Len(wire.frames) + 1) - 1 = Len(wire.frames)
      BY <2>3
    <3> QED BY <2>2, <2>5, <3>1, TallyAppend
  <2>7. GoodFrame(f, Len(wire.frames) + 1) BY <1>3, <2>2, <2>3, <2>6 DEF GoodFrame, Whole
  <2>8. Bracketed(f) BY <1>3, <2>2, <2>5, <2>7, OneMoreFrame DEF Whole
  <2> HIDE DEF f
  <2>9. Formed' BY <1>5, <2>1, <2>4, <2>8 DEF Formed
  <2>10. RouteTyped' BY <1>2, <1>6, <2>1, <2>3 DEF RouteTyped
  <2> QED BY <2>1, <2>9, <2>10 DEF RouteInv, GoingOn
<1>8. CASE Eof
  <2>1. /\ over' = "eof" /\ chat' = Closed(chat) /\ legacy' = Closed(legacy)
        /\ UNCHANGED <<whole, wire, message, opened, events>>
    BY <1>8 DEF Eof
  <2>2. Formed' BY <1>3, <1>5, <2>1 DEF Formed, Whole
  <2>3. RouteTyped' BY <1>2, <1>6, <2>1 DEF RouteTyped
  <2> QED BY <2>1, <2>2, <2>3 DEF RouteInv, GoingOn
<1>9. CASE Disconnect
  <2>1. over' = "gone" /\ UNCHANGED <<chat, whole, legacy, wire, message, opened, events>>
    BY <1>9 DEF Disconnect
  <2>2. (over \in {"error", "eof"}) = FALSE /\ (over' \in {"error", "eof"}) = FALSE BY <1>1, <2>1
  <2>3. Formed' BY <2>1, <2>2 DEF Formed, RouteInv
  <2>4. RouteTyped' BY <1>2, <2>1 DEF RouteTyped
  <2> QED BY <2>1, <2>3, <2>4 DEF RouteInv, GoingOn
<1> QED BY <1>7, <1>8, <1>9

(* A provider's stream.                                                    *)
LEMMA ProviderFormed ==
  ASSUME RouteInv, NEW engine, ProviderNext(engine) PROVE RouteInv'
<1>1. opened \in Nat /\ events \in Nat BY DEF RouteInv, RouteTyped
<1>0. events \in Sym BY <1>1 DEF Sym
<1>2. <<events>> \in Seq(Sym) /\ <<>> \in Seq(Sym) BY <1>0
<1>3. CASE ProviderText
  <2>1. Sent("delta", <<events>>) BY <1>2 DEF Sent
  <2>2. opened' \in Nat /\ ~chat.completed /\ Feed("delta", <<events>>)
    BY <1>1, <1>3 DEF ProviderText, Sending
  <2> QED BY <2>1, <2>2, FeedFormed
<1>4. CASE ProviderCall
  <2>1. opened' \in {opened + 1, opened + 2} /\ ~chat.completed BY <1>4 DEF ProviderCall, Sending
  <2>2. PICK arguments \in {<<>>, <<events>>} :
          Feed("tool_call_delta", [k \in 1..(opened' - opened) |-> Part(opened + k - 1, TRUE, arguments)])
    BY <1>4 DEF ProviderCall
  <2> DEFINE n == opened' - opened
             ps == [k \in 1..n |-> Part(opened + k - 1, TRUE, arguments)]
  <2>3. n \in Nat /\ opened' \in Nat
    <3>1. CASE opened' = opened + 1 BY <1>1, <3>1
    <3>2. CASE opened' = opened + 2 BY <1>1, <3>2
    <3> QED BY <2>1, <3>1, <3>2
  <2>10. arguments \in Seq(Sym) BY <1>2
  <2>4. \A k \in 1..n : Part(opened + k - 1, TRUE, arguments) \in PartSet
    <3> HIDE DEF n
    <3> TAKE k \in 1..n
    <3>1. opened + k - 1 \in Nat BY <1>1, <2>3
    <3> QED BY <2>10, <3>1 DEF Part, PartSet
  <2>5. ps \in [1..n -> PartSet] BY <2>4
  <2> HIDE DEF n, ps
  <2>6. ps \in Seq(PartSet) BY <2>3, <2>5, SeqFrom
  <2>7. Sent("tool_call_delta", ps) BY <2>6 DEF Sent
  <2>8. Feed("tool_call_delta", ps) BY <2>2 DEF ps, n
  <2> QED BY <2>1, <2>3, <2>7, <2>8, FeedFormed
<1>5. CASE ProviderPart
  <2>1. opened' \in Nat /\ ~chat.completed BY <1>1, <1>5 DEF ProviderPart, Sending
  <2>2. PICK index \in 0..(opened - 1) : Feed("tool_call_delta", <<Part(index, FALSE, <<events>>)>>)
    BY <1>5 DEF ProviderPart
  <2> DEFINE i == Part(index, FALSE, <<events>>)
  <2>3. i \in PartSet BY <1>1, <1>2 DEF Part, PartSet
  <2> HIDE DEF i
  <2>4. <<i>> \in Seq(PartSet) BY <2>3
  <2>5. Sent("tool_call_delta", <<i>>) BY <2>4 DEF Sent
  <2>6. Feed("tool_call_delta", <<i>>) BY <2>2 DEF i
  <2> QED BY <2>1, <2>5, <2>6, FeedFormed
<1>6. CASE ProviderDone
  <2>1. opened' \in Nat /\ ~chat.completed BY <1>1, <1>6 DEF ProviderDone
  <2>2. PICK finish \in {"stop", "length", "tool_calls"} : Feed("completed", Done(finish, FALSE))
    BY <1>6 DEF ProviderDone
  <2>3. Done(finish, FALSE) \in [finish : Finishes, matched : BOOLEAN] BY DEF Done, Finishes
  <2>4. Sent("completed", Done(finish, FALSE)) BY <2>3 DEF Sent
  <2> QED BY <2>1, <2>2, <2>4, FeedFormed
<1>7. CASE ProviderEnds(engine) \/ Break \/ Disconnect
  <2>1. Break \/ Eof \/ Disconnect BY <1>7 DEF ProviderEnds
  <2> QED BY <2>1, EndsFormed
<1> QED BY <1>3, <1>4, <1>5, <1>6, <1>7 DEF ProviderNext
-----------------------------------------------------------------------------
(* Where markers are, and what is held back.                               *)

(* The greatest of some of 0, ..., n.                                      *)
LEMMA MaxFrom ==
  ASSUME NEW n \in Nat, NEW s \in SUBSET (0..n), s # {}
  PROVE  Max(s) \in s /\ \A i \in s : i <= Max(s)
<1> DEFINE B == {k \in Nat : n - k \in s}
<1>1. \A i \in s : i \in 0..n /\ n - i \in B OBVIOUS
<1>2. B \subseteq Nat /\ B # {} BY <1>1
<1>3. \A k \in B : n - k \in s OBVIOUS
<1> HIDE DEF B
<1>4. PICK k \in B : \A j \in B : k <= j BY <1>2, LeastOf
<1>5. n - k \in s /\ \A i \in s : n - k >= i BY <1>1, <1>2, <1>3, <1>4
<1>6. \A i \in s : i \in Int BY <1>1
<1>7. \E i \in s : \A j \in s : i >= j BY <1>5
<1>8. Max(s) \in s /\ \A i \in s : Max(s) >= i BY <1>7, Zenon DEF Max
<1> QED BY <1>6, <1>8

(* The first place of a marker.                                            *)
LEMMA FirstFacts ==
  ASSUME NEW T, NEW s \in Seq(T), NEW ms, Places(s, ms) # {}
  PROVE  /\ First(s, ms) \in 1..Len(s) /\ \E m \in ms : At(m, s, First(s, ms))
         /\ \A i \in 1..Len(s) : \A m \in ms : At(m, s, i) => First(s, ms) <= i
<1>1. Places(s, ms) \subseteq Nat /\ Places(s, ms) \subseteq 1..Len(s) BY DEF Places
<1>2. First(s, ms) \in Places(s, ms) /\ \A i \in Places(s, ms) : First(s, ms) <= i
  BY <1>1, MinFacts DEF First
<1> QED BY <1>1, <1>2 DEF Places

(* What is before a place and after it.                                    *)
LEMMA Pieced ==
  ASSUME NEW T, NEW s \in Seq(T), NEW i \in 1..(Len(s) + 1)
  PROVE  /\ Before(s, i) \in Seq(T) /\ Len(Before(s, i)) = i - 1
         /\ \A k \in 1..(i - 1) : Before(s, i)[k] = s[k]
         /\ After(s, i) \in Seq(T) /\ Len(After(s, i)) = Len(s) - i + 1
         /\ \A k \in 1..(Len(s) - i + 1) : After(s, i)[k] = s[i + k - 1]
<1>1. Len(s) \in Nat /\ \A k \in 1..Len(s) : s[k] \in T OBVIOUS
<1>2. 1 \in 1..(Len(s) + 1) /\ i - 1 \in (1 - 1)..Len(s) BY <1>1
<1>3. Len(s) \in (i - 1)..Len(s) BY <1>1
<1> QED BY <1>1, <1>2, <1>3 DEF Before, After

(* How much is held back.                                                  *)
LEMMA HoldFacts ==
  ASSUME NEW T, NEW s \in Seq(T), NEW ms
  PROVE  /\ Hold(s, ms) \in 0..Len(s) /\ Safe(s, ms) \in 0..Len(s)
         /\ Hold(s, ms) > 0 => \E m \in ms : Hold(s, ms) < Len(m)
         /\ \A n \in 1..Len(s) : \A m \in ms :
              n < Len(m) /\ IsPrefix(After(s, Len(s) - n + 1), m) => n <= Hold(s, ms)
<1> DEFINE H == {n \in 1..Len(s) : \E m \in ms : n < Len(m) /\ IsPrefix(After(s, Len(s) - n + 1), m)}
           G == {0} \cup H
<1>1. Len(s) \in Nat OBVIOUS
<1>2. Hold(s, ms) = Max(G) BY DEF Hold
<1>3. G \in SUBSET (0..Len(s)) /\ G # {} BY <1>1
<1>4. \A n \in G : n > 0 => n \in H OBVIOUS
<1>5. \A n \in H : \E m \in ms : n < Len(m) OBVIOUS
<1>6. \A n \in 1..Len(s) : \A m \in ms : n < Len(m) /\ IsPrefix(After(s, Len(s) - n + 1), m) => n \in G
  OBVIOUS
<1> HIDE DEF G, H
<1>7. Max(G) \in G /\ \A i \in G : i <= Max(G) BY <1>1, <1>3, MaxFrom
<1>8. Hold(s, ms) \in 0..Len(s) BY <1>2, <1>3, <1>7
<1> QED BY <1>1, <1>2, <1>4, <1>5, <1>6, <1>7, <1>8 DEF Safe

(* A marker is at a place when its symbols are there.                      *)
LEMMA AtIs ==
  ASSUME NEW T, NEW s \in Seq(T), NEW m \in Seq(T), NEW i \in Nat \ {0}
  PROVE  At(m, s, i) <=> i + Len(m) - 1 <= Len(s) /\ \A j \in 1..Len(m) : s[i + j - 1] = m[j]
<1> DEFINE n == Len(m)
           sub == SubSeq(s, i, i + n - 1)
<1>1. n \in Nat /\ Len(s) \in Nat /\ DOMAIN m = 1..n /\ DOMAIN s = 1..Len(s) OBVIOUS
<1> SUFFICES ASSUME i + n - 1 <= Len(s) PROVE sub = m <=> \A j \in 1..n : s[i + j - 1] = m[j]
  BY DEF At
<1>2. sub \in Seq(T) /\ Len(sub) = n /\ \A j \in 1..n : sub[j] = s[i + j - 1]
  <2>1. i \in 1..(Len(s) + 1) /\ i + n - 1 \in (i - 1)..Len(s) BY <1>1
  <2>2. \A j \in i..(i + n - 1) : s[j] \in T BY <1>1
  <2> HIDE DEF n
  <2>3. (i + n - 1) - i + 1 = n BY <1>1
  <2> QED BY <1>1, <2>1, <2>2, <2>3
<1> HIDE DEF sub, n
<1>3. (\A j \in 1..n : sub[j] = m[j]) => sub = m BY <1>1, <1>2, SeqEqual DEF n
<1>4. sub = m => \A j \in 1..n : sub[j] = m[j] OBVIOUS
<1> QED BY <1>2, <1>3, <1>4

(* A marker is seen not to begin at a place of s.                          *)
Differs(m, s, i) == \E j \in 1..Len(m) : i + j - 1 <= Len(s) /\ s[i + j - 1] # m[j]
(* s is what t has after its first p symbols.                              *)
Within(s, t, p) == p + Len(s) <= Len(t) /\ \A k \in 1..Len(s) : t[p + k] = s[k]

(* It does not begin there, whatever follows.                              *)
LEMMA DiffersStays ==
  ASSUME NEW T, NEW s \in Seq(T), NEW t \in Seq(T), NEW m \in Seq(T), NEW i \in Nat \ {0}, NEW p \in Nat,
         Within(s, t, p), Differs(m, s, i)
  PROVE  Differs(m, t, p + i) /\ ~At(m, t, p + i)
<1>1. PICK j \in 1..Len(m) : i + j - 1 <= Len(s) /\ s[i + j - 1] # m[j] BY DEF Differs
<1>2. i + j - 1 \in 1..Len(s) /\ Len(s) \in Nat /\ Len(t) \in Nat BY <1>1
<1>3. t[p + (i + j - 1)] = s[i + j - 1] /\ p + (i + j - 1) = (p + i) + j - 1 /\ (p + i) + j - 1 <= Len(t)
  BY <1>2 DEF Within
<1>4. p + i \in Nat \ {0} OBVIOUS
<1> HIDE DEF Within
<1>5. Differs(m, t, p + i) BY <1>1, <1>3 DEF Differs
<1>6. ASSUME At(m, t, p + i) PROVE FALSE
  <2>1. \A k \in 1..Len(m) : t[(p + i) + k - 1] = m[k] BY <1>4, <1>6, AtIs
  <2> QED BY <1>1, <1>3, <2>1
<1> QED BY <1>5, <1>6

(* And where it is, it is in what contains s.                              *)
LEMMA AtStays ==
  ASSUME NEW T, NEW s \in Seq(T), NEW t \in Seq(T), NEW m \in Seq(T), NEW i \in Nat \ {0}, NEW p \in Nat,
         Within(s, t, p), i + Len(m) - 1 <= Len(s)
  PROVE  At(m, t, p + i) <=> At(m, s, i)
<1>1. Len(m) \in Nat /\ Len(s) \in Nat /\ Len(t) \in Nat /\ p + i \in Nat \ {0} OBVIOUS
<1>2. \A j \in 1..Len(m) : i + j - 1 \in 1..Len(s) /\ p + (i + j - 1) = (p + i) + j - 1 BY <1>1
<1>3. \A j \in 1..Len(m) : t[(p + i) + j - 1] = s[i + j - 1] BY <1>2 DEF Within
<1>4. (p + i) + Len(m) - 1 <= Len(t) BY <1>1 DEF Within
<1> HIDE DEF Within
<1>5. At(m, s, i) <=> \A j \in 1..Len(m) : s[i + j - 1] = m[j] BY AtIs
<1>6. At(m, t, p + i) <=> \A j \in 1..Len(m) : t[(p + i) + j - 1] = m[j] BY <1>1, <1>4, AtIs
<1> QED BY <1>3, <1>5, <1>6

(* What is not held back begins no marker.                                 *)
LEMMA SafeDiffers ==
  ASSUME NEW T, NEW s \in Seq(T), NEW ms, Places(s, ms) = {}, NEW m \in ms, m \in Seq(T),
         NEW i \in 1..Safe(s, ms)
  PROVE  Differs(m, s, i)
<1>0. Hold(s, ms) \in 0..Len(s) /\ Safe(s, ms) \in 0..Len(s) /\ Safe(s, ms) = Len(s) - Hold(s, ms)
      /\ Len(s) \in Nat /\ Len(m) \in Nat
  BY HoldFacts DEF Safe
<1> SUFFICES ASSUME ~Differs(m, s, i) PROVE FALSE OBVIOUS
<1>1. \A j \in 1..Len(m) : i + j - 1 <= Len(s) => s[i + j - 1] = m[j] BY DEF Differs
<1> DEFINE n == Len(s) - i + 1
<1>2. i \in 1..Len(s) /\ n \in 1..Len(s) /\ Len(s) - n + 1 = i /\ n > Hold(s, ms) BY <1>0
<1>3. CASE n >= Len(m)
  <2>1. i + Len(m) - 1 <= Len(s) BY <1>0, <1>2, <1>3
  <2>2. \A j \in 1..Len(m) : s[i + j - 1] = m[j] BY <1>0, <1>1, <1>2, <2>1
  <2>3. At(m, s, i)
    <3>1. i \in Nat \ {0} BY <1>0, <1>2
    <3>2. \A t, l \in Seq(T) : \A k \in Nat \ {0} :
            At(l, t, k) <=> k + Len(l) - 1 <= Len(t) /\ \A j \in 1..Len(l) : t[k + j - 1] = l[j]
      BY AtIs
    <3> QED BY <2>1, <2>2, <3>1, <3>2
  <2> QED BY <1>2, <2>3 DEF Places
<1>4. CASE n < Len(m)
  <2> DEFINE r == After(s, i)
  <2>1. r \in Seq(T) /\ Len(r) = n /\ \A k \in 1..n : r[k] = s[i + k - 1]
    <3>1. i \in 1..(Len(s) + 1) BY <1>0, <1>2
    <3> QED BY <3>1, Pieced
  <2>2. \A k \in 1..n : r[k] = m[k] BY <1>0, <1>1, <1>2, <1>4, <2>1
  <2> HIDE DEF r, n
  <2>3. IsPrefix(r, m)
    <3>1. SubSeq(r, 1, n) \in Seq(T) /\ Len(SubSeq(r, 1, n)) = n /\ \A k \in 1..n : SubSeq(r, 1, n)[k] = r[k]
      BY <1>2, <2>1
    <3>2. SubSeq(m, 1, n) \in Seq(T) /\ Len(SubSeq(m, 1, n)) = n /\ \A k \in 1..n : SubSeq(m, 1, n)[k] = m[k]
      BY <1>0, <1>2, <1>4
    <3>3. SubSeq(r, 1, n) = SubSeq(m, 1, n) BY <2>2, <3>1, <3>2, SeqEqual
    <3> QED BY <1>4, <2>1, <3>3 DEF IsPrefix
  <2>4. n <= Hold(s, ms) BY <1>2, <1>4, <2>3, HoldFacts DEF r
  <2> QED BY <1>0, <1>2, <2>4
<1> QED BY <1>0, <1>2, <1>3, <1>4

(* Sequences of symbols.                                                   *)
Str == Seq(Symbols)
(* The empty one, and joins.                                               *)
LEMMA StrFacts ==
  /\ <<>> \in Str /\ \A x \in Str : x \o <<>> = x /\ <<>> \o x = x /\ Len(x) \in Nat
  /\ \A x, y \in Str : x \o y \in Str /\ Len(x \o y) = Len(x) + Len(y)
  /\ \A x, y, z \in Str : (x \o y) \o z = x \o (y \o z)
<1>1. \A x \in Str : x \o <<>> = x /\ <<>> \o x = x /\ Len(x) \in Nat BY DEF Str
<1>2. \A x, y \in Str : x \o y \in Str /\ Len(x \o y) = Len(x) + Len(y) BY DEF Str
<1>3. ASSUME NEW x \in Str, NEW y \in Str, NEW z \in Str PROVE (x \o y) \o z = x \o (y \o z)
  <2>1. x \in Seq(Symbols) /\ y \in Seq(Symbols) /\ z \in Seq(Symbols) BY DEF Str
  <2> QED BY <2>1, ConcatAssociative
<1> QED BY <1>1, <1>2, <1>3 DEF Str

(* Joining is associative.                                                 *)
LEMMA Assoc == ASSUME NEW x \in Str, NEW y \in Str, NEW z \in Str PROVE (x \o y) \o z = x \o (y \o z)
BY StrFacts

AllMarkers == {ToolStart, ThinkStart, ThinkEnd, Wrapper}
(* The markers looked for.                                                 *)
LEMMA MarkersFine ==
  /\ \A r : MarkersIn(r) \subseteq AllMarkers
  /\ \A m \in AllMarkers : m \in Str /\ Len(m) \in Nat /\ Len(m) > 1
<1>1. \A r : MarkersIn(r) \subseteq AllMarkers BY DEF MarkersIn, Tools, AllMarkers
<1>2. \A m \in AllMarkers : m \in Str /\ Len(m) > 1 BY MarkersSplit DEF AllMarkers, Str
<1> QED BY <1>1, <1>2 DEF Str

(* Before the first marker none begins.                                    *)
LEMMA FirstDiffers ==
  ASSUME NEW s \in Str, NEW ms \in SUBSET AllMarkers, Places(s, ms) # {}, NEW m \in ms,
         NEW i \in 1..(First(s, ms) - 1)
  PROVE  Differs(m, s, i)
<1> DEFINE q == First(s, ms)
<1>1. q \in 1..Len(s) /\ (\E o \in ms : At(o, s, q)) /\ \A k \in 1..Len(s) : At(m, s, k) => q <= k
  BY FirstFacts DEF Str
<1>2. PICK o \in ms : At(o, s, q) BY <1>1
<1>3. m \in Str /\ o \in Str /\ Len(m) \in Nat /\ Len(o) \in Nat /\ Len(o) > 1 /\ Len(s) \in Nat
  BY MarkersFine DEF Str
<1> HIDE DEF q
<1>4. i \in 1..Len(s) /\ i < q /\ i \in 1..(q - 1) BY <1>1, <1>3 DEF q
<1>5. ~At(m, s, i) BY <1>1, <1>4
<1>6. CASE i + Len(m) - 1 <= Len(s)
  <2>0. i \in Nat \ {0} /\ s \in Seq(Symbols) /\ m \in Seq(Symbols) BY <1>3, <1>4 DEF Str
  <2>01. At(m, s, i) <=> i + Len(m) - 1 <= Len(s) /\ \A j \in 1..Len(m) : s[i + j - 1] = m[j] BY <2>0, AtIs
  <2>1. PICK j \in 1..Len(m) : s[i + j - 1] # m[j] BY <1>5, <1>6, <2>01
  <2>2. i + j - 1 <= Len(s) BY <1>3, <1>4, <1>6
  <2> QED BY <2>1, <2>2 DEF Differs
<1>7. CASE i + Len(m) - 1 > Len(s)
  <2> DEFINE j == q - i + 1
  <2>1. j \in 2..Len(m) /\ i + j - 1 = q BY <1>1, <1>3, <1>4, <1>7
  <2>2. s[q] = o[1]
    <3>1. \A k \in 1..Len(o) : s[q + k - 1] = o[k] BY <1>1, <1>2, <1>3, AtIs DEF Str
    <3>2. 1 \in 1..Len(o) /\ q + 1 - 1 = q BY <1>1, <1>3
    <3>3. s[q + 1 - 1] = o[1] BY <3>1, <3>2
    <3> QED BY <3>2, <3>3
  <2> HIDE DEF j
  <2>3. m[j] # o[1] BY <2>1, MarkersApart DEF AllMarkers
  <2>4. s[i + j - 1] # m[j] /\ i + j - 1 <= Len(s) /\ j \in 1..Len(m) BY <1>1, <1>3, <2>1, <2>2, <2>3
  <2> QED BY <2>4 DEF Differs
<1> QED BY <1>3, <1>4, <1>6, <1>7

(* At a place there is one marker at most.                                 *)
LEMMA OneMarker ==
  ASSUME NEW s \in Str, NEW i \in Nat \ {0}, NEW m \in AllMarkers, NEW o \in AllMarkers,
         At(m, s, i), At(o, s, i)
  PROVE  m = o
<1>1. m \in Str /\ o \in Str /\ Len(m) \in Nat /\ Len(o) \in Nat BY MarkersFine
<1>2. /\ \A j \in 1..Len(m) : s[i + j - 1] = m[j]
      /\ \A j \in 1..Len(o) : s[i + j - 1] = o[j]
  BY <1>1, AtIs DEF Str
<1>3. ASSUME NEW a \in AllMarkers, NEW b \in AllMarkers, Len(a) \in Nat, Len(b) \in Nat, a \in Str, b \in Str,
             Len(a) <= Len(b), \A j \in 1..Len(a) : a[j] = b[j]
      PROVE  a = b
  <2> DEFINE n == Len(a)
  <2>1. SubSeq(a, 1, n) \in Str /\ Len(SubSeq(a, 1, n)) = n /\ \A k \in 1..n : SubSeq(a, 1, n)[k] = a[k]
    BY <1>3 DEF Str
  <2>2. SubSeq(b, 1, n) \in Str /\ Len(SubSeq(b, 1, n)) = n /\ \A k \in 1..n : SubSeq(b, 1, n)[k] = b[k]
    BY <1>3 DEF Str
  <2>3. SubSeq(a, 1, n) = SubSeq(b, 1, n) BY <1>3, <2>1, <2>2, SeqEqual DEF Str
  <2>4. IsPrefix(a, b) BY <1>3, <2>3 DEF IsPrefix
  <2> QED BY <2>4, MarkersApart DEF AllMarkers
<1>4. CASE Len(m) <= Len(o)
  <2>1. \A j \in 1..Len(m) : m[j] = o[j] BY <1>1, <1>2, <1>4
  <2> QED BY <1>1, <1>3, <1>4, <2>1
<1>5. CASE Len(o) <= Len(m)
  <2>1. \A j \in 1..Len(o) : o[j] = m[j] BY <1>1, <1>2, <1>5
  <2> QED BY <1>1, <1>3, <1>5, <2>1
<1> QED BY <1>1, <1>4, <1>5

-----------------------------------------------------------------------------
(* The text in one piece.                                                  *)
ScanSet == [at : 1..(Len(text) + 1), reasoning : BOOLEAN, found : BOOLEAN, delta : Str, reasoning_delta : Str]

(* One step of the scan: past the marker that is read, or past a symbol.   *)
LEMMA ScanMarker ==
  ASSUME text \in Str, NEW s \in ScanSet, ~s.found, NEW m \in MarkersIn(s.reasoning), At(m, text, s.at)
  PROVE  /\ s.at <= Len(text)
         /\ Scanned(s) = [at |-> s.at + Len(m), reasoning |-> (s.reasoning \/ m = ThinkStart) /\ m # ThinkEnd,
                          found |-> (m = ToolStart), delta |-> s.delta, reasoning_delta |-> s.reasoning_delta]
         /\ Scanned(s) \in ScanSet /\ Scanned(s).at > s.at
<1> DEFINE o == CHOOSE m_1 \in MarkersIn(s.reasoning) : At(m_1, text, s.at)
<1>1. m \in AllMarkers /\ m \in Str /\ Len(m) \in Nat /\ Len(m) > 1 BY MarkersFine
<1>2. s.at \in 1..(Len(text) + 1) /\ Len(text) \in Nat BY DEF ScanSet, Str
<1>3. o \in MarkersIn(s.reasoning) /\ At(o, text, s.at) OBVIOUS
<1>4. o = m
  <2>1. o \in AllMarkers BY <1>3, MarkersFine
  <2>2. s.at \in Nat \ {0} BY <1>2
  <2> HIDE DEF o
  <2> QED BY <1>1, <1>3, <2>1, <2>2, OneMarker
<1>5. s.at + Len(m) - 1 <= Len(text) BY DEF At
<1>6. s.at <= Len(text) BY <1>1, <1>2, <1>5
<1>7. Scanned(s) = [s EXCEPT !.at = @ + Len(o), !.found = (o = ToolStart),
                             !.reasoning = (@ \/ o = ThinkStart) /\ o # ThinkEnd]
  BY <1>2, <1>6 DEF Scanned
<1> HIDE DEF o
<1>8. Scanned(s) = [at |-> s.at + Len(m), reasoning |-> (s.reasoning \/ m = ThinkStart) /\ m # ThinkEnd,
                    found |-> (m = ToolStart), delta |-> s.delta, reasoning_delta |-> s.reasoning_delta]
  BY <1>4, <1>7 DEF ScanSet
<1>9. Scanned(s) \in ScanSet /\ Scanned(s).at > s.at BY <1>1, <1>2, <1>5, <1>8 DEF ScanSet
<1> QED BY <1>6, <1>8, <1>9

(* The same state with one symbol more in its stream.                      *)
Onto(s, c) ==
  [at |-> s.at + 1, reasoning |-> s.reasoning, found |-> s.found,
   delta |-> IF s.reasoning THEN s.delta ELSE Append(s.delta, c),
   reasoning_delta |-> IF s.reasoning THEN Append(s.reasoning_delta, c) ELSE s.reasoning_delta]

(* Where no marker begins, the scan passes one symbol.                     *)
LEMMA ScanSymbol ==
  ASSUME text \in Str, NEW s \in ScanSet, ~s.found, s.at <= Len(text),
         \A m \in MarkersIn(s.reasoning) : ~At(m, text, s.at)
  PROVE  Scanned(s) = Onto(s, text[s.at]) /\ Scanned(s) \in ScanSet /\ Scanned(s).at > s.at
<1>1. s.at \in 1..Len(text) /\ Len(text) \in Nat /\ text[s.at] \in Symbols BY DEF ScanSet, Str
<1> DEFINE c == text[s.at]
<1>2. Scanned(s) = [s EXCEPT !.at = @ + 1, ![Stream(s)] = Append(@, c)] BY <1>1 DEF Scanned
<1> HIDE DEF c
<1>3. c \in Symbols BY <1>1 DEF c
<1>4. CASE s.reasoning
  <2>1. Stream(s) = "reasoning_delta" BY <1>4 DEF Stream
  <2>2. Scanned(s) = [s EXCEPT !.at = @ + 1, !.reasoning_delta = Append(@, c)] BY <1>2, <2>1
  <2>3. Scanned(s) = Onto(s, c) BY <1>4, <2>2 DEF Onto, ScanSet
  <2> QED BY <1>1, <1>3, <1>4, <2>3 DEF Onto, ScanSet, Str, c
<1>5. CASE ~s.reasoning
  <2>1. Stream(s) = "delta" BY <1>5 DEF Stream
  <2>2. Scanned(s) = [s EXCEPT !.at = @ + 1, !.delta = Append(@, c)] BY <1>2, <2>1
  <2>3. Scanned(s) = Onto(s, c) BY <1>5, <2>2 DEF Onto, ScanSet
  <2> QED BY <1>1, <1>3, <1>5, <2>3 DEF Onto, ScanSet, Str, c
<1> QED BY <1>4, <1>5

(* A step extends the streams, or there is none.                           *)
Extends(s, t) ==
  /\ s.at <= t.at
  /\ \E a \in Str : t.delta = s.delta \o a
  /\ \E a \in Str : t.reasoning_delta = s.reasoning_delta \o a

(* A step of the scan keeps its shape and extends its streams.             *)
LEMMA ScanStep ==
  ASSUME text \in Str, NEW s \in ScanSet
  PROVE  /\ Scanned(s) \in ScanSet /\ Extends(s, Scanned(s))
         /\ s.found \/ s.at > Len(text) => Scanned(s) = s
         /\ ~s.found /\ s.at <= Len(text) => Scanned(s).at > s.at
<1>0. s.delta \in Str /\ s.reasoning_delta \in Str /\ s.found \in BOOLEAN /\ s.at \in 1..(Len(text) + 1)
      /\ Len(text) \in Nat
  BY DEF ScanSet, Str
<1>1. \A a \in Str : a = a \o <<>> BY DEF Str
<1>2. <<>> \in Str BY DEF Str
<1>3. Extends(s, s)
  <2>1. s.at <= s.at BY <1>0
  <2>2. s.delta = s.delta \o <<>> /\ s.reasoning_delta = s.reasoning_delta \o <<>> BY <1>0, <1>1
  <2> QED BY <1>2, <2>1, <2>2, Zenon DEF Extends
<1>4. CASE s.found \/ s.at > Len(text)
  <2>1. Scanned(s) = s BY <1>4 DEF Scanned
  <2> QED BY <1>0, <1>3, <1>4, <2>1
<1>5. CASE ~s.found /\ s.at <= Len(text) /\ \E m \in MarkersIn(s.reasoning) : At(m, text, s.at)
  <2>1. PICK m \in MarkersIn(s.reasoning) : At(m, text, s.at) BY <1>5
  <2>2. /\ Scanned(s) = [at |-> s.at + Len(m), reasoning |-> (s.reasoning \/ m = ThinkStart) /\ m # ThinkEnd,
                         found |-> (m = ToolStart), delta |-> s.delta, reasoning_delta |-> s.reasoning_delta]
        /\ Scanned(s) \in ScanSet /\ Scanned(s).at > s.at
    BY <1>5, <2>1, ScanMarker
  <2>3. Scanned(s).delta = s.delta /\ Scanned(s).reasoning_delta = s.reasoning_delta BY <2>2
  <2>4. Scanned(s).at \in 1..(Len(text) + 1) BY <2>2 DEF ScanSet
  <2>5. Extends(s, Scanned(s))
    <3>1. s.at <= Scanned(s).at BY <1>0, <2>2, <2>4
    <3>2. Scanned(s).delta = s.delta \o <<>> /\ Scanned(s).reasoning_delta = s.reasoning_delta \o <<>>
      BY <1>0, <1>1, <2>3
    <3> QED BY <1>2, <3>1, <3>2, Zenon DEF Extends
  <2> QED BY <1>0, <1>5, <2>2, <2>5
<1>6. CASE ~s.found /\ s.at <= Len(text) /\ \A m \in MarkersIn(s.reasoning) : ~At(m, text, s.at)
  <2> DEFINE c == text[s.at]
  <2>1. Scanned(s) = Onto(s, c) /\ Scanned(s) \in ScanSet /\ Scanned(s).at > s.at BY <1>6, ScanSymbol
  <2>2. c \in Symbols BY <1>0, <1>6 DEF Str
  <2> HIDE DEF c
  <2>3. <<c>> \in Str /\ \A a \in Str : Append(a, c) = a \o <<c>> BY <2>2 DEF Str
  <2>4. /\ Scanned(s).delta = IF s.reasoning THEN s.delta ELSE Append(s.delta, c)
        /\ Scanned(s).reasoning_delta = IF s.reasoning THEN Append(s.reasoning_delta, c) ELSE s.reasoning_delta
    BY <2>1 DEF Onto
  <2>5. Scanned(s).at \in 1..(Len(text) + 1) BY <2>1 DEF ScanSet
  <2>6. \E a \in Str : Scanned(s).delta = s.delta \o a BY <1>0, <1>1, <1>2, <2>3, <2>4
  <2>7. \E a \in Str : Scanned(s).reasoning_delta = s.reasoning_delta \o a BY <1>0, <1>1, <1>2, <2>3, <2>4
  <2>8. Extends(s, Scanned(s))
    <3>1. s.at <= Scanned(s).at BY <1>0, <2>1, <2>5
    <3> QED BY <2>6, <2>7, <3>1, Zenon DEF Extends
  <2> QED BY <1>0, <1>6, <2>1, <2>8
<1> QED BY <1>0, <1>4, <1>5, <1>6

(* The states of the scan: some step of the scan is in each.               *)
Runs(f) == f \in [0..Len(text) -> ScanSet] /\ f[0] = Start /\ \A k \in 1..Len(text) : f[k] = Scanned(f[k - 1])
OnPath(s) == \E f : Runs(f) /\ Scan = f[Len(text)] /\ \E k \in 0..Len(text) : f[k] = s /\ (k < s.at \/ s.found)

(* The scan is the end of such a run.                                      *)
LEMMA ScanRuns ==
  ASSUME text \in Str, begins \in BOOLEAN
  PROVE  \E f : Runs(f) /\ Scan = f[Len(text)]
<1> DEFINE n == Len(text)
           step == [k \in 1..n |-> [s \in ScanSet |-> Scanned(s)]]
           Is(f) == f = [k \in 0..n |-> IF k = 0 THEN Start ELSE Scanned(f[k - 1])]
           it == CHOOSE f : Is(f)
<1>1. n \in Nat BY DEF Str
<1>2. Scan = it[n] BY DEF Scan
<1>3. Start \in ScanSet
  <2>1. 1 \in 1..(n + 1) /\ <<>> \in Str BY <1>1 DEF Str
  <2> QED BY <2>1 DEF Start, ScanSet
<1>4. \A s \in ScanSet : Scanned(s) \in ScanSet BY ScanStep
<1>5. StepsIn(step, 1..n, ScanSet)
  <2>1. \A k \in 1..n : \A s \in ScanSet : step[k][s] = Scanned(s) OBVIOUS
  <2> QED BY <1>4, <2>1 DEF StepsIn
<1>6. \A k \in 1..n : \A s \in ScanSet : step[k][s] = Scanned(s) OBVIOUS
<1> HIDE DEF step, it, n
<1>7. PICK g : MaxFold(g, n, Start, ScanSet, step) BY <1>1, <1>3, <1>5, FoldFunctionExists
<1>8. Folds(g, n, Start, ScanSet, step)
  <2>1. g[{}] = Start BY <1>7 DEF MaxFold
  <2> QED BY <1>7, <2>1 DEF Folds, MaxFold
<1>9. PICK f : Through(f, n, Start, ScanSet, step) BY <1>1, <1>3, <1>5, <1>8, FoldGoesThrough
<1>10. f \in [0..n -> ScanSet] /\ f[0] = Start /\ \A k \in 1..n : f[k] = Scanned(f[k - 1])
  <2>1. f \in [0..n -> ScanSet] /\ f[0] = Start /\ \A k \in 1..n : f[k] = step[k][f[k - 1]] BY <1>9 DEF Through
  <2>2. \A k \in 1..n : f[k - 1] \in ScanSet
    <3> TAKE k \in 1..n
    <3>1. k - 1 \in 0..n BY <1>1
    <3> QED BY <2>1, <3>1
  <2> QED BY <1>6, <2>1, <2>2
<1>11. Is(f) BY <1>1, <1>10
<1>12. Is(it) BY <1>11 DEF it
<1>13. \A k \in 0..n : it[k] = IF k = 0 THEN Start ELSE Scanned(it[k - 1]) BY <1>12
<1>14. 0..n \subseteq {k \in 0..n : it[k] = f[k]}
  <2> DEFINE G == {k \in 0..n : it[k] = f[k]}
  <2>1. 0 \in G BY <1>1, <1>10, <1>13
  <2>2. ASSUME NEW k \in 1..n, k - 1 \in G PROVE k \in G
    <3>1. k \in 0..n /\ k # 0 /\ it[k - 1] = f[k - 1] BY <1>1, <2>2
    <3> QED BY <1>10, <1>13, <3>1
  <2> HIDE DEF G
  <2>3. 0..n \subseteq G BY <1>1, <2>1, <2>2, Counting
  <2> QED BY <2>3 DEF G
<1>15. n \in 0..n BY <1>1
<1>16. it[n] = f[n] BY <1>14, <1>15
<1> QED BY <1>2, <1>10, <1>16 DEF n, Runs

(* The scan begins on its path,                                            *)
LEMMA PathBegins ==
  ASSUME text \in Str, begins \in BOOLEAN
  PROVE  OnPath(Start) /\ Start \in ScanSet
<1>1. PICK f : Runs(f) /\ Scan = f[Len(text)] BY ScanRuns
<1>2. Len(text) \in Nat BY DEF Str
<1>3. 0 \in 0..Len(text) /\ f[0] = Start /\ Start.at = 1 BY <1>1, <1>2 DEF Runs, Start
<1>4. 0 < Start.at BY <1>3
<1>5. Start \in ScanSet
  <2>1. f \in [0..Len(text) -> ScanSet] BY <1>1 DEF Runs
  <2> QED BY <1>3, <2>1
<1> QED BY <1>1, <1>3, <1>4, <1>5 DEF OnPath

(* a step of it stays there,                                               *)
LEMMA PathGoesOn ==
  ASSUME text \in Str, NEW s \in ScanSet, OnPath(s), ~s.found, s.at <= Len(text)
  PROVE  OnPath(Scanned(s)) /\ Scanned(s) \in ScanSet /\ Scanned(s).at > s.at
<1>1. PICK f : Runs(f) /\ Scan = f[Len(text)] /\ \E k \in 0..Len(text) : f[k] = s /\ (k < s.at \/ s.found)
  BY DEF OnPath
<1>2. PICK k \in 0..Len(text) : f[k] = s /\ k < s.at BY <1>1
<1>3. Len(text) \in Nat /\ s.at \in 1..(Len(text) + 1) BY DEF Str, ScanSet
<1>4. k + 1 \in 1..Len(text) /\ (k + 1) - 1 = k /\ k + 1 \in 0..Len(text) BY <1>2, <1>3
<1>5. f[k + 1] = Scanned(s) BY <1>1, <1>2, <1>4 DEF Runs
<1>6. Scanned(s) \in ScanSet /\ Scanned(s).at > s.at BY ScanStep
<1>7. Scanned(s).at \in 1..(Len(text) + 1) BY <1>6 DEF ScanSet
<1>8. k + 1 < Scanned(s).at BY <1>2, <1>3, <1>6, <1>7
<1> QED BY <1>1, <1>4, <1>5, <1>6, <1>8 DEF OnPath

(* and the scan extends what is on it, and ends where there is no further  *)
(* step.                                                                   *)
LEMMA PathEnds ==
  ASSUME text \in Str, NEW s \in ScanSet, OnPath(s)
  PROVE  /\ Scan \in ScanSet /\ \E a \in Str : Scan.delta = s.delta \o a
         /\ \E a \in Str : Scan.reasoning_delta = s.reasoning_delta \o a
         /\ s.found \/ s.at > Len(text) => Scan = s
<1>1. PICK f : Runs(f) /\ Scan = f[Len(text)] /\ \E k \in 0..Len(text) : f[k] = s /\ (k < s.at \/ s.found)
  BY DEF OnPath
<1>2. PICK k \in 0..Len(text) : f[k] = s BY <1>1
<1> DEFINE n == Len(text)
           m == n - k
           Good(i) == /\ \E a \in Str : f[k + i].delta = s.delta \o a
                      /\ \E a \in Str : f[k + i].reasoning_delta = s.reasoning_delta \o a
                      /\ s.found \/ s.at > n => f[k + i] = s
           G == {i \in 0..m : Good(i)}
<1>3. n \in Nat /\ m \in Nat /\ s.delta \in Str /\ s.reasoning_delta \in Str BY DEF Str, ScanSet
<1>4. Good(0)
  <2>1. k + 0 = k /\ s.delta = s.delta \o <<>> /\ s.reasoning_delta = s.reasoning_delta \o <<>> /\ <<>> \in Str
    BY <1>3 DEF Str
  <2> QED BY <1>2, <2>1, Zenon
<1>5. ASSUME NEW i \in 1..m, i - 1 \in G PROVE i \in G
  <2>1. k + i \in 1..n /\ (k + i) - 1 = k + (i - 1) /\ k + (i - 1) \in 0..n BY <1>3
  <2> DEFINE p == f[k + (i - 1)]
  <2>2. f[k + i] = Scanned(p) /\ p \in ScanSet
    <3>1. f[k + i] = Scanned(f[(k + i) - 1]) BY <1>1, <2>1 DEF Runs
    <3>2. f \in [0..n -> ScanSet] BY <1>1 DEF Runs
    <3> QED BY <2>1, <3>1, <3>2
  <2>3. Good(i - 1) BY <1>5
  <2> HIDE DEF n, m
  <2>4. PICK a \in Str : p.delta = s.delta \o a BY <2>3
  <2>5. PICK b \in Str : p.reasoning_delta = s.reasoning_delta \o b BY <2>3
  <2>6. s.found \/ s.at > n => p = s BY <2>3
  <2> HIDE DEF Good, p
  <2>7. Extends(p, Scanned(p)) /\ (p.found \/ p.at > Len(text) => Scanned(p) = p) BY <2>2, ScanStep
  <2>8. PICK c \in Str : Scanned(p).delta = p.delta \o c BY <2>7 DEF Extends
  <2>9. PICK d \in Str : Scanned(p).reasoning_delta = p.reasoning_delta \o d BY <2>7 DEF Extends
  <2>10. a \o c \in Str /\ b \o d \in Str /\ (s.delta \o a) \o c = s.delta \o (a \o c)
         /\ (s.reasoning_delta \o b) \o d = s.reasoning_delta \o (b \o d)
    <3>1. s.delta \in Str /\ s.reasoning_delta \in Str BY <1>3
    <3>2. a \in Str /\ b \in Str /\ c \in Str /\ d \in Str BY <2>4, <2>5, <2>8, <2>9
    <3>3. a \o c \in Str /\ b \o d \in Str BY <3>2, StrFacts
    <3>4. (s.delta \o a) \o c = s.delta \o (a \o c)
      <4> DEFINE x == s.delta
      <4>1. x \in Seq(Symbols) /\ a \in Seq(Symbols) /\ c \in Seq(Symbols)
        BY <3>1, <3>2 DEF Str
      <4> HIDE DEF x
      <4>2. (x \o a) \o c = x \o (a \o c) BY <4>1, ConcatAssociative
      <4> QED BY <4>2 DEF x
    <3>5. (s.reasoning_delta \o b) \o d = s.reasoning_delta \o (b \o d)
      <4> DEFINE x == s.reasoning_delta
      <4>1. x \in Seq(Symbols) /\ b \in Seq(Symbols) /\ d \in Seq(Symbols)
        BY <3>1, <3>2 DEF Str
      <4> HIDE DEF x
      <4>2. (x \o b) \o d = x \o (b \o d) BY <4>1, ConcatAssociative
      <4> QED BY <4>2 DEF x
    <3> QED BY <3>3, <3>4, <3>5
  <2>11. f[k + i].delta = s.delta \o (a \o c) BY <2>2, <2>4, <2>8, <2>10
  <2>12. f[k + i].reasoning_delta = s.reasoning_delta \o (b \o d) BY <2>2, <2>5, <2>9, <2>10
  <2>13. s.found \/ s.at > n => f[k + i] = s BY <2>2, <2>6, <2>7 DEF n
  <2>14. \E e \in Str : f[k + i].delta = s.delta \o e BY <2>10, <2>11
  <2>15. \E e \in Str : f[k + i].reasoning_delta = s.reasoning_delta \o e BY <2>10, <2>12
  <2>16. Good(i) BY <2>13, <2>14, <2>15 DEF Good
  <2> QED BY <2>16
<1>6. 0 \in G
  <2>1. 0 \in 0..m BY <1>3
  <2> HIDE DEF Good, m
  <2> QED BY <1>4, <2>1
<1>7. m \in G
  <2> HIDE DEF G, m
  <2>1. 0..m \subseteq G BY <1>3, <1>5, <1>6, Counting
  <2>2. m \in 0..m BY <1>3
  <2> QED BY <2>1, <2>2
<1>8. Good(m) BY <1>7
<1>9. k + m = n /\ n \in 0..n BY <1>3
<1>10. Scan \in ScanSet
  <2>1. f \in [0..n -> ScanSet] BY <1>1 DEF Runs
  <2> QED BY <1>1, <1>9, <2>1
<1> HIDE DEF n, m
<1> QED BY <1>1, <1>8, <1>9, <1>10 DEF n
-----------------------------------------------------------------------------
(* The symbols after a state of the scan, when none begins a marker.       *)
Along(s, h, n) ==
  [at |-> s.at + n, reasoning |-> s.reasoning, found |-> FALSE,
   delta |-> IF s.reasoning THEN s.delta ELSE s.delta \o SubSeq(h, 1, n),
   reasoning_delta |-> IF s.reasoning THEN s.reasoning_delta \o SubSeq(h, 1, n) ELSE s.reasoning_delta]

(* What the first symbols of a sequence are.                               *)
LEMMA FirstSymbols ==
  ASSUME NEW h \in Str
  PROVE  /\ \A n \in 0..Len(h) : SubSeq(h, 1, n) \in Str /\ Len(SubSeq(h, 1, n)) = n
         /\ \A n \in 0..Len(h) : \A i \in 1..n : SubSeq(h, 1, n)[i] = h[i]
         /\ SubSeq(h, 1, 0) = <<>> /\ SubSeq(h, 1, Len(h)) = h
         /\ \A n \in 1..Len(h) : SubSeq(h, 1, n) = Append(SubSeq(h, 1, n - 1), h[n])
<1>1. Len(h) \in Nat /\ \A i \in 1..Len(h) : h[i] \in Symbols BY DEF Str
<1>2. \A n \in 0..Len(h) : SubSeq(h, 1, n) \in Str /\ Len(SubSeq(h, 1, n)) = n BY DEF Str
<1>3. \A n \in 0..Len(h) : \A i \in 1..n : SubSeq(h, 1, n)[i] = h[i] BY DEF Str
<1>4. SubSeq(h, 1, 0) = <<>> BY DEF Str
<1>5. SubSeq(h, 1, Len(h)) = h
  <2>1. Len(h) \in 0..Len(h) BY <1>1
  <2> DEFINE g == SubSeq(h, 1, Len(h))
  <2>2. g \in Seq(Symbols) /\ h \in Seq(Symbols) /\ Len(g) = Len(h) /\ \A i \in 1..Len(h) : g[i] = h[i]
    BY <1>2, <1>3, <2>1 DEF Str
  <2> HIDE DEF g
  <2>3. g = h BY <2>2, SeqEqual
  <2> QED BY <2>3 DEF g
<1>6. ASSUME NEW n \in 1..Len(h) PROVE SubSeq(h, 1, n) = Append(SubSeq(h, 1, n - 1), h[n])
  <2> DEFINE a == SubSeq(h, 1, n)
             b == SubSeq(h, 1, n - 1)
             c == Append(b, h[n])
  <2>1. n \in 0..Len(h) /\ n - 1 \in 0..Len(h) /\ h[n] \in Symbols BY <1>1
  <2>2. a \in Seq(Symbols) /\ Len(a) = n /\ \A i \in 1..n : a[i] = h[i] BY <1>2, <1>3, <2>1 DEF Str
  <2>3. b \in Seq(Symbols) /\ Len(b) = n - 1 /\ \A i \in 1..(n - 1) : b[i] = h[i] BY <1>2, <1>3, <2>1 DEF Str
  <2> HIDE DEF a, b
  <2>4. c \in Seq(Symbols) /\ Len(c) = n /\ \A i \in 1..n : c[i] = h[i] BY <2>1, <2>3
  <2> HIDE DEF c
  <2>5. a = c BY <2>2, <2>4, SeqEqual
  <2> QED BY <2>5 DEF a, b, c
<1> QED BY <1>2, <1>3, <1>4, <1>5, <1>6

(* One symbol more.                                                        *)
LEMMA JoinOne ==
  ASSUME NEW x \in Str, NEW y \in Str, NEW c \in Symbols
  PROVE  x \o Append(y, c) = Append(x \o y, c)
<1>1. x \in Seq(Symbols) /\ y \in Seq(Symbols) /\ <<c>> \in Seq(Symbols) BY DEF Str
<1>2. Append(y, c) = y \o <<c>> /\ Append(x \o y, c) = (x \o y) \o <<c>> BY <1>1
<1>3. (x \o y) \o <<c>> = x \o (y \o <<c>>) BY <1>1, ConcatAssociative
<1> QED BY <1>2, <1>3

(* The scan passes such symbols one by one.                                *)
LEMMA Walks ==
  ASSUME text \in Str, NEW s \in ScanSet, OnPath(s), ~s.found, NEW h \in Str, Within(h, text, s.at - 1),
         NEW n \in 0..Len(h),
         \A i \in 1..n : \A m \in MarkersIn(s.reasoning) : ~At(m, text, (s.at - 1) + i)
  PROVE  Along(s, h, n) \in ScanSet /\ OnPath(Along(s, h, n))
<1> DEFINE G == {i \in 0..n : Along(s, h, i) \in ScanSet /\ OnPath(Along(s, h, i))}
<1>1. /\ s.at \in Nat \ {0} /\ s.reasoning \in BOOLEAN /\ s.found = FALSE /\ s.delta \in Str
      /\ s.reasoning_delta \in Str /\ Len(text) \in Nat /\ Len(h) \in Nat
      /\ s.at + Len(h) <= Len(text) + 1
  BY DEF ScanSet, Str, Within
<1>2. Along(s, h, 0) = s
  <2>1. SubSeq(h, 1, 0) = <<>> /\ s.at + 0 = s.at BY <1>1, FirstSymbols
  <2>2. s.delta \o <<>> = s.delta /\ s.reasoning_delta \o <<>> = s.reasoning_delta BY <1>1, StrFacts
  <2>3. Along(s, h, 0) = [at |-> s.at, reasoning |-> s.reasoning, found |-> FALSE, delta |-> s.delta,
                          reasoning_delta |-> s.reasoning_delta]
    BY <1>1, <2>1, <2>2 DEF Along
  <2> QED BY <1>1, <2>3 DEF ScanSet
<1>3. 0 \in G BY <1>2
<1>4. ASSUME NEW i \in 1..n, i - 1 \in G PROVE i \in G
  <2> DEFINE t == Along(s, h, i - 1)
             c == h[i]
  <2>1. t \in ScanSet /\ OnPath(t) BY <1>4
  <2>2. t.at = (s.at - 1) + i /\ t.reasoning = s.reasoning /\ t.found = FALSE
        /\ t.delta = (IF s.reasoning THEN s.delta ELSE s.delta \o SubSeq(h, 1, i - 1))
        /\ t.reasoning_delta = (IF s.reasoning THEN s.reasoning_delta \o SubSeq(h, 1, i - 1) ELSE s.reasoning_delta)
    BY <1>1 DEF Along
  <2>30. i \in 1..Len(h) /\ i - 1 \in 0..Len(h) BY <1>1
  <2>31. c \in Symbols BY <2>30 DEF Str
  <2>32. \A k \in 1..Len(h) : text[(s.at - 1) + k] = h[k] BY DEF Within
  <2>3. i \in 1..Len(h) /\ i - 1 \in 0..Len(h) /\ c \in Symbols /\ text[(s.at - 1) + i] = c
    BY <2>30, <2>31, <2>32
  <2> HIDE DEF t, c
  <2>4. t.at <= Len(text) /\ \A m \in MarkersIn(t.reasoning) : ~At(m, text, t.at) BY <1>1, <2>2, <2>3
  <2>5. Scanned(t) = Onto(t, c) BY <2>1, <2>2, <2>3, <2>4, ScanSymbol
  <2>6. OnPath(Scanned(t)) /\ Scanned(t) \in ScanSet BY <2>1, <2>2, <2>4, PathGoesOn
  <2>7. SubSeq(h, 1, i) = Append(SubSeq(h, 1, i - 1), c) /\ SubSeq(h, 1, i - 1) \in Str
    BY <2>3, FirstSymbols DEF c
  <2>8. Onto(t, c) = Along(s, h, i)
    <3>1. s.delta \o Append(SubSeq(h, 1, i - 1), c) = Append(s.delta \o SubSeq(h, 1, i - 1), c)
      BY <1>1, <2>3, <2>7, JoinOne
    <3>2. s.reasoning_delta \o Append(SubSeq(h, 1, i - 1), c) = Append(s.reasoning_delta \o SubSeq(h, 1, i - 1), c)
      BY <1>1, <2>3, <2>7, JoinOne
    <3>3. t.at + 1 = s.at + i BY <1>1, <2>2, <2>3
    <3>4. (IF t.reasoning THEN t.delta ELSE Append(t.delta, c))
             = (IF s.reasoning THEN s.delta ELSE s.delta \o SubSeq(h, 1, i)) BY <2>2, <2>7, <3>1
    <3>5. (IF t.reasoning THEN Append(t.reasoning_delta, c) ELSE t.reasoning_delta)
             = (IF s.reasoning THEN s.reasoning_delta \o SubSeq(h, 1, i) ELSE s.reasoning_delta)
      BY <2>2, <2>7, <3>2
    <3> QED BY <2>2, <3>3, <3>4, <3>5 DEF Onto, Along
  <2> QED BY <2>5, <2>6, <2>8
<1>5. n \in 0..n /\ n \in Nat OBVIOUS
<1>6. \A i \in G : Along(s, h, i) \in ScanSet /\ OnPath(Along(s, h, i)) OBVIOUS
<1> HIDE DEF G
<1> QED BY <1>3, <1>4, <1>5, <1>6, Counting

-----------------------------------------------------------------------------
(* What is read of a stream: the bodies of some types of its items.        *)
Bodied(I, types, T) == \A e \in I : e.type \in types => e.body \in Seq(T)

(* The bodies of such items make a sequence, and one item adds its own.    *)
LEMMA BodiesFacts ==
  ASSUME NEW T, NEW I, NEW items \in Seq(I), NEW types, Bodied(I, types, T)
  PROVE  /\ Bodies(items, types) \in Seq(T)
         /\ items = <<>> => Bodies(items, types) = <<>>
         /\ \A e \in I : Bodies(Append(items, e), types) = Bodies(items, types) \o IF e.type \in types THEN e.body ELSE <<>>
<1> DEFINE B(e) == IF e.type \in types THEN e.body ELSE <<>>
           S(q) == [k \in DOMAIN q |-> B(q[k])]
<1>1. \A e \in I : B(e) \in Seq(T) BY DEF Bodied
<1>2. \A q : Bodies(q, types) = FlattenSeq(S(q)) BY DEF Bodies
<1> HIDE DEF B
<1>3. ASSUME NEW q \in Seq(I) PROVE S(q) \in Seq(Seq(T)) /\ Len(S(q)) = Len(q) /\ \A k \in 1..Len(q) : S(q)[k] = B(q[k])
  <2>1. Len(q) \in Nat /\ DOMAIN q = 1..Len(q) /\ \A k \in 1..Len(q) : q[k] \in I OBVIOUS
  <2>2. S(q) \in [1..Len(q) -> Seq(T)] /\ \A k \in 1..Len(q) : S(q)[k] = B(q[k]) BY <1>1, <2>1
  <2> HIDE DEF S
  <2> QED BY <2>1, <2>2, SeqFrom
<1>4. ASSUME NEW e \in I PROVE S(Append(items, e)) = Append(S(items), B(e))
  <2> DEFINE q == Append(items, e)
             a == S(q)
             b == Append(S(items), B(e))
  <2>1. q \in Seq(I) /\ Len(q) = Len(items) + 1 /\ q[Len(items) + 1] = e /\ Len(items) \in Nat
        /\ \A k \in 1..Len(items) : q[k] = items[k]
    OBVIOUS
  <2>2. B(e) \in Seq(T) BY <1>1
  <2> HIDE DEF q
  <2>3. a \in Seq(Seq(T)) /\ Len(a) = Len(q) /\ \A k \in 1..Len(q) : a[k] = B(q[k]) BY <1>3, <2>1
  <2>4. S(items) \in Seq(Seq(T)) /\ Len(S(items)) = Len(items) /\ \A k \in 1..Len(items) : S(items)[k] = B(items[k])
    BY <1>3
  <2> HIDE DEF S
  <2>5. b \in Seq(Seq(T)) /\ Len(b) = Len(q) /\ \A k \in 1..Len(q) : b[k] = B(q[k])
    BY <2>1, <2>2, <2>4
  <2> HIDE DEF a, b
  <2>6. a = b BY <2>3, <2>5, SeqEqual
  <2> QED BY <2>6 DEF a, b, q
<1>5. S(items) \in Seq(Seq(T)) BY <1>3
<1>6. items = <<>> => S(items) = <<>>
  <2>1. items = <<>> => DOMAIN items = {} OBVIOUS
  <2> QED BY <2>1
<1> HIDE DEF S
<1>7. /\ FlattenSeq(S(items)) \in Seq(T) /\ (S(items) = <<>> => FlattenSeq(S(items)) = <<>>)
      /\ \A t \in Seq(T) : FlattenSeq(Append(S(items), t)) = FlattenSeq(S(items)) \o t
  BY <1>5, FlattenFacts
<1>8. \A e \in I : FlattenSeq(S(Append(items, e))) = FlattenSeq(S(items)) \o B(e) BY <1>1, <1>4, <1>7
<1>9. Bodies(items, types) \in Seq(T) /\ (items = <<>> => Bodies(items, types) = <<>>) BY <1>2, <1>6, <1>7
<1>10. \A e \in I : Bodies(Append(items, e), types) = Bodies(items, types) \o B(e) BY <1>2, <1>8
<1> QED BY <1>9, <1>10 DEF B

(* The events a worker writes.                                             *)
WrittenSet == [type : {"delta", "reasoning_delta"}, body : Str]
CallEvents == [type : {"tool_calls"}, body : Parses]
LastSet == [type : {"completed"}, body : [finish : Finishes, matched : BOOLEAN]] \cup [type : {"error"}, body : {<<>>}]
OutSet == WrittenSet \cup CallEvents \cup LastSet

(* The content and the reasoning among them.                               *)
LEMMA WrittenFacts ==
  ASSUME NEW type \in {"delta", "reasoning_delta"}, out \in Seq(OutSet)
  PROVE  /\ Written(type) = Bodies(out, {type}) /\ Bodies(out, {type}) \in Str
         /\ out = <<>> => Bodies(out, {type}) = <<>>
         /\ \A e \in OutSet : Bodies(Append(out, e), {type}) = Bodies(out, {type}) \o IF e.type = type THEN e.body ELSE <<>>
<1>1. Written(type) = Bodies(out, {type})
  <2>1. \A k \in DOMAIN out : (IF out[k].type = type THEN out[k].body ELSE <<>>)
                              = (IF out[k].type \in {type} THEN out[k].body ELSE <<>>) OBVIOUS
  <2>2. [k \in DOMAIN out |-> IF out[k].type = type THEN out[k].body ELSE <<>>]
        = [k \in DOMAIN out |-> IF out[k].type \in {type} THEN out[k].body ELSE <<>>] BY <2>1
  <2> QED BY <2>2, Zenon DEF Written, Bodies
<1>2. Bodied(OutSet, {type}, Symbols)
  <2>1. \A e \in OutSet : e.type = type => e \in WrittenSet BY DEF OutSet, CallEvents, LastSet
  <2> QED BY <2>1 DEF Bodied, WrittenSet, Str
<1>3. /\ Bodies(out, {type}) \in Seq(Symbols) /\ (out = <<>> => Bodies(out, {type}) = <<>>)
      /\ \A e \in OutSet : Bodies(Append(out, e), {type}) = Bodies(out, {type}) \o IF e.type \in {type} THEN e.body ELSE <<>>
  <2> DEFINE ts == {type}
  <2>1. Bodied(OutSet, ts, Symbols) BY <1>2
  <2> HIDE DEF ts
  <2>2. /\ Bodies(out, ts) \in Seq(Symbols) /\ (out = <<>> => Bodies(out, ts) = <<>>)
        /\ \A e \in OutSet : Bodies(Append(out, e), ts) = Bodies(out, ts) \o IF e.type \in ts THEN e.body ELSE <<>>
    BY <2>1, BodiesFacts
  <2> QED BY <2>2 DEF ts
<1> QED BY <1>1, <1>3 DEF Str
-----------------------------------------------------------------------------
(* The stop filter.                                                        *)
ToldText == Bodies(out, {"delta"})
ToldThought == Bodies(out, {"reasoning_delta"})

(* One sequence goes on as another.                                        *)
LEMMA JoinedWithin ==
  ASSUME NEW x \in Str, NEW y \in Str
  PROVE  /\ Within(x, x \o y, 0) /\ Within(y, x \o y, Len(x))
         /\ x \o y \in Str /\ Len(x \o y) = Len(x) + Len(y) /\ Len(x) \in Nat /\ Len(y) \in Nat
<1>1. /\ x \o y \in Str /\ Len(x \o y) = Len(x) + Len(y) /\ Len(x) \in Nat /\ Len(y) \in Nat BY DEF Str
<1>2. /\ \A k \in 1..Len(x) : (x \o y)[0 + k] = x[k]
      /\ \A k \in 1..Len(y) : (x \o y)[Len(x) + k] = y[k]
  BY DEF Str
<1> QED BY <1>1, <1>2 DEF Within

(* What an event adds.                                                     *)
LEMMA WriteFacts ==
  ASSUME out \in Seq(OutSet), NEW type \in {"delta", "reasoning_delta"}, NEW body \in Str, Write(type, body)
  PROVE  /\ out' \in Seq(OutSet) /\ (out \in Seq(WrittenSet) => out' \in Seq(WrittenSet))
         /\ Len(out) <= Len(out') /\ \A k \in 1..Len(out) : out'[k] = out[k]
         /\ ToldText' = ToldText \o (IF type = "delta" THEN body ELSE <<>>) /\ ToldText \in Str
         /\ ToldThought' = ToldThought \o (IF type = "delta" THEN <<>> ELSE body) /\ ToldThought \in Str
<1>1. ToldText \in Str /\ ToldThought \in Str BY WrittenFacts DEF ToldText, ToldThought
<1>2. ToldText \o <<>> = ToldText /\ ToldThought \o <<>> = ToldThought BY <1>1, StrFacts
<1>3. CASE body = <<>>
  <2>1. out' = out BY <1>3 DEF Write
  <2>2. ToldText' = ToldText /\ ToldThought' = ToldThought BY <2>1 DEF ToldText, ToldThought
  <2>3. Len(out) \in Nat OBVIOUS
  <2> QED BY <1>1, <1>2, <1>3, <2>1, <2>2, <2>3
<1>4. CASE body # <<>>
  <2> DEFINE e == Event(type, body)
  <2>1. out' = Append(out, e) BY <1>4 DEF Write
  <2>2. e \in WrittenSet /\ e \in OutSet /\ e.type = type /\ e.body = body BY DEF Event, WrittenSet, OutSet
  <2> HIDE DEF e
  <2>3. out' \in Seq(OutSet) /\ (out \in Seq(WrittenSet) => out' \in Seq(WrittenSet)) BY <2>1, <2>2
  <2>4. Len(out) <= Len(out') /\ \A k \in 1..Len(out) : out'[k] = out[k] BY <2>1
  <2>5. /\ Bodies(Append(out, e), {"delta"}) = Bodies(out, {"delta"}) \o IF e.type = "delta" THEN e.body ELSE <<>>
        /\ Bodies(Append(out, e), {"reasoning_delta"})
           = Bodies(out, {"reasoning_delta"}) \o IF e.type = "reasoning_delta" THEN e.body ELSE <<>>
    BY <2>2, WrittenFacts
  <2>6. ToldText' = ToldText \o (IF type = "delta" THEN body ELSE <<>>) BY <2>1, <2>2, <2>5 DEF ToldText
  <2>7. ToldThought' = ToldThought \o (IF type = "delta" THEN <<>> ELSE body)
    BY <2>1, <2>2, <2>5 DEF ToldThought
  <2> QED BY <1>1, <2>3, <2>4, <2>6, <2>7
<1> QED BY <1>3, <1>4

(* The first stop sequence of a text is that of what extends it.           *)
LEMMA FirstGrows ==
  ASSUME NEW st \in Str, NEW d \in Str, NEW a \in Str, Places(d, {st}) # {}
  PROVE  /\ Places(d \o a, {st}) # {} /\ First(d \o a, {st}) = First(d, {st})
         /\ Before(d \o a, First(d, {st})) = Before(d, First(d, {st}))
         /\ First(d, {st}) \in 1..Len(d)
<1> DEFINE t == d \o a
           q == First(d, {st})
           r == First(t, {st})
<1>1. Within(d, t, 0) /\ t \in Str /\ Len(t) = Len(d) + Len(a) /\ Len(d) \in Nat /\ Len(a) \in Nat /\ Len(st) \in Nat
  BY JoinedWithin, StrFacts
<1> HIDE DEF t, q, r
<1>2. q \in 1..Len(d) /\ At(st, d, q) /\ \A k \in 1..Len(d) : At(st, d, k) => q <= k
  BY FirstFacts DEF q, Str
<1>3. q + Len(st) - 1 <= Len(d) BY <1>2 DEF At
<1>4. \A k \in Nat \ {0} : k + Len(st) - 1 <= Len(d) => (At(st, t, k) <=> At(st, d, k))
  <2> TAKE k \in Nat \ {0}
  <2> HAVE k + Len(st) - 1 <= Len(d)
  <2>1. 0 \in Nat /\ 0 + k = k /\ st \in Seq(Symbols) /\ d \in Seq(Symbols) /\ t \in Seq(Symbols) BY <1>1 DEF Str
  <2>2. At(st, t, 0 + k) <=> At(st, d, k) BY <1>1, <2>1, AtStays
  <2> QED BY <2>1, <2>2
<1>5. At(st, t, q) /\ q \in 1..Len(t) BY <1>1, <1>2, <1>3, <1>4
<1>6. Places(t, {st}) # {} BY <1>5 DEF Places
<1>7. r \in 1..Len(t) /\ At(st, t, r) /\ \A k \in 1..Len(t) : At(st, t, k) => r <= k
  BY <1>1, <1>6, FirstFacts DEF r, Str
<1>8. r <= q BY <1>5, <1>7
<1>9. r + Len(st) - 1 <= Len(d) /\ r \in 1..Len(d) /\ r \in Nat \ {0} BY <1>1, <1>2, <1>3, <1>7, <1>8
<1>10. At(st, d, r) BY <1>4, <1>7, <1>9
<1>11. r = q BY <1>2, <1>7, <1>8, <1>9, <1>10
<1>12. Before(t, q) = Before(d, q)
  <2>1. q \in 1..(Len(d) + 1) /\ q \in 1..(Len(t) + 1) /\ \A k \in 1..(q - 1) : t[0 + k] = d[k] /\ 0 + k = k
    BY <1>1, <1>2 DEF Within
  <2>2. Before(t, q) \in Seq(Symbols) /\ Len(Before(t, q)) = q - 1 /\ \A k \in 1..(q - 1) : Before(t, q)[k] = t[k]
    BY <1>1, <2>1, Pieced DEF Str
  <2>3. Before(d, q) \in Seq(Symbols) /\ Len(Before(d, q)) = q - 1 /\ \A k \in 1..(q - 1) : Before(d, q)[k] = d[k]
    BY <1>1, <2>1, Pieced DEF Str
  <2>4. \A k \in 1..(q - 1) : Before(t, q)[k] = Before(d, q)[k] BY <2>1, <2>2, <2>3
  <2> QED BY <2>2, <2>3, <2>4, SeqEqual
<1> QED BY <1>2, <1>6, <1>11, <1>12 DEF t, q, r

(* A stop sequence that begins nowhere in w is first in s when it is in    *)
(* what goes on with s.                                                    *)
LEMMA FirstAfter ==
  ASSUME NEW st \in Str, NEW w \in Str, NEW s \in Str, Places(s, {st}) # {},
         \A i \in 1..Len(w) : ~At(st, w \o s, i)
  PROVE  /\ Places(w \o s, {st}) # {} /\ First(w \o s, {st}) = Len(w) + First(s, {st})
         /\ First(s, {st}) \in 1..Len(s)
         /\ Before(w \o s, Len(w) + First(s, {st})) = w \o Before(s, First(s, {st}))
<1> DEFINE t == w \o s
           q == First(s, {st})
           r == First(t, {st})
           n == Len(w)
<1>1. Within(s, t, n) /\ Within(w, t, 0) /\ t \in Str /\ Len(t) = n + Len(s) /\ n \in Nat /\ Len(s) \in Nat /\ Len(st) \in Nat
  BY JoinedWithin, StrFacts
<1>0. \A i \in 1..n : ~At(st, t, i) OBVIOUS
<1> HIDE DEF t, q, r, n
<1>2. q \in 1..Len(s) /\ At(st, s, q) /\ \A k \in 1..Len(s) : At(st, s, k) => q <= k
  BY FirstFacts DEF q, Str
<1>3. q + Len(st) - 1 <= Len(s) BY <1>2 DEF At
<1>4. \A k \in Nat \ {0} : k + Len(st) - 1 <= Len(s) => (At(st, t, n + k) <=> At(st, s, k))
  <2> TAKE k \in Nat \ {0}
  <2> HAVE k + Len(st) - 1 <= Len(s)
  <2>1. st \in Seq(Symbols) /\ s \in Seq(Symbols) /\ t \in Seq(Symbols) BY <1>1 DEF Str
  <2> QED BY <1>1, <2>1, AtStays
<1>5. At(st, t, n + q) /\ n + q \in 1..Len(t) BY <1>1, <1>2, <1>3, <1>4
<1>6. Places(t, {st}) # {} BY <1>5 DEF Places
<1>7. r \in 1..Len(t) /\ At(st, t, r) /\ \A k \in 1..Len(t) : At(st, t, k) => r <= k
  BY <1>1, <1>6, FirstFacts DEF r, Str
<1>8. r <= n + q /\ r > n BY <1>0, <1>1, <1>5, <1>7
<1> DEFINE j == r - n
<1>9. j \in 1..Len(s) /\ j \in Nat \ {0} /\ j + Len(st) - 1 <= Len(s) /\ n + j = r BY <1>1, <1>2, <1>3, <1>7, <1>8
<1> HIDE DEF j
<1>10. At(st, s, j) BY <1>4, <1>7, <1>9
<1>11. q <= j BY <1>2, <1>9, <1>10
<1>12. r = n + q BY <1>1, <1>2, <1>8, <1>9, <1>11
<1>13. Before(t, n + q) = w \o Before(s, q)
  <2> DEFINE b == Before(s, q)
             c == w \o b
             e == Before(t, n + q)
  <2>1. b \in Str /\ Len(b) = q - 1 /\ \A k \in 1..(q - 1) : b[k] = s[k]
    <3>1. q \in 1..(Len(s) + 1) BY <1>1, <1>2
    <3> QED BY <3>1, Pieced DEF Str
  <2>2. e \in Seq(Symbols) /\ Len(e) = n + q - 1 /\ \A k \in 1..(n + q - 1) : e[k] = t[k]
    <3> DEFINE i == n + q
    <3>1. i \in 1..(Len(t) + 1) /\ t \in Seq(Symbols) /\ n + q - 1 = i - 1 BY <1>1, <1>2 DEF Str
    <3> HIDE DEF i
    <3>2. Before(t, i) \in Seq(Symbols) /\ Len(Before(t, i)) = i - 1 /\ \A k \in 1..(i - 1) : Before(t, i)[k] = t[k]
      BY <3>1, Pieced
    <3> QED BY <3>1, <3>2 DEF i
  <2> HIDE DEF b, e
  <2>3. Within(w, c, 0) /\ Within(b, c, n) /\ c \in Seq(Symbols) /\ Len(c) = n + (q - 1) BY <2>1, JoinedWithin DEF n, Str
  <2> HIDE DEF c
  <2>4. ASSUME NEW k \in 1..(n + q - 1) PROVE e[k] = c[k]
    <3>1. CASE k <= n
      <4>1. k \in 1..Len(w) /\ 0 + k = k BY <1>1, <3>1 DEF n
      <4> QED BY <1>1, <2>2, <2>3, <4>1 DEF Within
    <3>2. CASE k > n
      <4> DEFINE i == k - n
      <4>1. i \in 1..(q - 1) /\ i \in 1..Len(s) /\ n + i = k BY <1>1, <1>2, <3>2
      <4> HIDE DEF i
      <4>2. t[n + i] = s[i] /\ c[n + i] = b[i] BY <1>1, <2>1, <2>3, <4>1 DEF Within
      <4> QED BY <2>1, <2>2, <4>1, <4>2
    <3> QED BY <1>1, <1>2, <3>1, <3>2
  <2>5. Len(e) = Len(c) /\ \A k \in 1..Len(e) : e[k] = c[k] BY <1>1, <1>2, <2>2, <2>3, <2>4
  <2>6. e = c BY <2>2, <2>3, <2>5, SeqEqual
  <2> QED BY <2>6 DEF e, c, b
<1> QED BY <1>2, <1>6, <1>12, <1>13 DEF t, q, r, n

(* What the stop filter has let through of the content d and of the        *)
(* reasoning r that came out of the splitter.                              *)
FilterTyped ==
  /\ out \in Seq(OutSet) /\ kept \in Str /\ hit \in BOOLEAN /\ muted \in BOOLEAN /\ stop \in Str
  /\ (muted => hit) /\ (hit => stop # <<>>) /\ (kept = <<>> \/ Len(kept) < Len(stop))
  /\ (stop = <<>> => kept = <<>>)
Told(d, r) ==
  /\ d \in Str /\ r \in Str
  /\ ~hit => d = ToldText \o kept
  /\ ~hit /\ stop # <<>> => \A i \in 1..Len(ToldText) : Differs(stop, d, i)
  /\ hit => Places(d, {stop}) # {} /\ ToldText = Before(d, First(d, {stop}))
  /\ \E a \in Str : r = ToldThought \o a
  /\ ~muted => r = ToldThought

(* A part of the content that is let through, what is held back after it.  *)
LEMMA KeepsEnd ==
  ASSUME FilterTyped, NEW d, NEW r, Told(d, r), NEW x \in Str, ~hit, stop # <<>>, UNCHANGED stop,
         Places(kept \o x, {stop}) = {}, KeepEnd(kept \o x)
  PROVE  FilterTyped' /\ Told(d \o x, r)' /\ Len(out) <= Len(out') /\ (\A k \in 1..Len(out) : out'[k] = out[k])
         /\ (out \in Seq(WrittenSet) => out' \in Seq(WrittenSet))
<1> DEFINE s == kept \o x
           w == ToldText
           n == Safe(s, {stop})
           y == SubSeq(s, 1, n)
           z == After(s, n + 1)
           t == d \o x
<1>1. kept \in Str /\ stop \in Str /\ d \in Str /\ r \in Str /\ ToldText \in Str /\ ToldThought \in Str
      /\ out \in Seq(OutSet) /\ Len(stop) \in Nat /\ hit = FALSE /\ muted = FALSE
  <2>1. ToldText \in Str /\ ToldThought \in Str BY WrittenFacts DEF FilterTyped, ToldText, ToldThought
  <2> QED BY <2>1 DEF FilterTyped, Told, Str
<1>2. s \in Str /\ Len(s) \in Nat BY <1>1, StrFacts
<1> HIDE DEF s
<1>3. n \in 0..Len(s) /\ n = Len(s) - Hold(s, {stop}) /\ (Hold(s, {stop}) > 0 => Hold(s, {stop}) < Len(stop))
      /\ Hold(s, {stop}) \in 0..Len(s)
  BY <1>2, HoldFacts DEF Safe, Str
<1> HIDE DEF n
<1>4. y \in Str /\ Len(y) = n /\ \A k \in 1..n : y[k] = s[k] BY <1>2, <1>3, FirstSymbols
<1>5. z \in Str /\ Len(z) = Len(s) - n /\ \A k \in 1..(Len(s) - n) : z[k] = s[n + k]
  <2>1. n + 1 \in 1..(Len(s) + 1) BY <1>2, <1>3
  <2>2. z \in Seq(Symbols) /\ Len(z) = Len(s) - (n + 1) + 1 /\ \A k \in 1..(Len(s) - (n + 1) + 1) : z[k] = s[(n + 1) + k - 1]
    BY <1>2, <2>1, Pieced DEF Str
  <2>3. Len(s) - (n + 1) + 1 = Len(s) - n BY <1>2, <1>3
  <2>4. \A k \in 1..(Len(s) - n) : (n + 1) + k - 1 = n + k BY <1>2, <1>3
  <2> HIDE DEF z
  <2> QED BY <2>2, <2>3, <2>4 DEF Str
<1>6. kept' = z /\ Write("delta", y) /\ hit' = hit /\ muted' = muted /\ stop' = stop
  BY DEF KeepEnd, s, n
<1> HIDE DEF y, z
<1>7. y \o z = s
  <2>1. Within(y, y \o z, 0) /\ Within(z, y \o z, n) /\ y \o z \in Seq(Symbols) /\ Len(y \o z) = Len(s)
    BY <1>2, <1>3, <1>4, <1>5, JoinedWithin DEF Str
  <2> DEFINE c == y \o z
  <2> HIDE DEF c
  <2>2. ASSUME NEW k \in 1..Len(s) PROVE c[k] = s[k]
    <3>1. CASE k <= n
      <4>1. k \in 1..Len(y) /\ 0 + k = k BY <1>3, <1>4, <3>1
      <4> QED BY <1>4, <2>1, <4>1 DEF Within, c
    <3>2. CASE k > n
      <4> DEFINE i == k - n
      <4>1. i \in 1..(Len(s) - n) /\ n + i = k BY <1>2, <1>3, <3>2
      <4> HIDE DEF i
      <4>2. c[n + i] = z[i] /\ z[i] = s[n + i] BY <1>5, <2>1, <4>1 DEF Within, c
      <4> QED BY <4>1, <4>2
    <3> QED BY <1>2, <1>3, <3>1, <3>2
  <2>3. c \in Seq(Symbols) /\ s \in Seq(Symbols) /\ Len(c) = Len(s) BY <1>2, <2>1 DEF c, Str
  <2> QED BY <2>2, <2>3, SeqEqual DEF c
<1>8. /\ out' \in Seq(OutSet) /\ (out \in Seq(WrittenSet) => out' \in Seq(WrittenSet))
      /\ Len(out) <= Len(out') /\ (\A k \in 1..Len(out) : out'[k] = out[k])
      /\ ToldText' = w \o y /\ ToldThought' = ToldThought
  <2>1. ToldThought \o <<>> = ToldThought BY <1>1, StrFacts
  <2> QED BY <1>1, <1>4, <1>6, <2>1, WriteFacts
<1> HIDE DEF w
<1>9. w \in Str /\ Len(w) \in Nat BY <1>1 DEF w, Str
<1>10. d = w \o kept /\ t = w \o s /\ t = (w \o y) \o z /\ t \in Str
  <2>1. d = w \o kept BY <1>1 DEF Told, w
  <2>2. (w \o kept) \o x = w \o (kept \o x)
    <3> DEFINE k == kept
    <3>1. k \in Str BY <1>1
    <3> HIDE DEF k
    <3>2. (w \o k) \o x = w \o (k \o x) BY <1>9, <3>1, Assoc
    <3> QED BY <3>2 DEF k
  <2>3. w \o (y \o z) = (w \o y) \o z BY <1>4, <1>5, <1>9, StrFacts
  <2>4. t \in Str BY <1>1, StrFacts
  <2> QED BY <1>7, <2>1, <2>2, <2>3, <2>4 DEF s
<1>11. Within(d, t, 0) /\ Within(s, t, Len(w)) /\ Len(w \o y) = Len(w) + n
  <2>1. Within(d, t, 0) BY <1>1, JoinedWithin
  <2> HIDE DEF t
  <2>2. Within(s, t, Len(w)) BY <1>2, <1>9, <1>10, JoinedWithin
  <2>3. Len(w \o y) = Len(w) + n BY <1>4, <1>9, StrFacts
  <2> QED BY <2>1, <2>2, <2>3
<1> HIDE DEF t
<1>12. ASSUME NEW i \in 1..(Len(w) + n) PROVE Differs(stop, t, i)
  <2>0. stop \in Seq(Symbols) /\ d \in Seq(Symbols) /\ t \in Seq(Symbols) /\ s \in Seq(Symbols)
    BY <1>1, <1>2, <1>10 DEF Str
  <2>1. CASE i <= Len(w)
    <3>1. i \in 1..Len(w) /\ i \in Nat \ {0} /\ 0 + i = i BY <1>9, <2>1
    <3>2. Differs(stop, d, i) BY <3>1 DEF Told, w
    <3>3. Differs(stop, t, 0 + i) BY <1>11, <2>0, <3>1, <3>2, DiffersStays
    <3> QED BY <3>1, <3>3
  <2>2. CASE i > Len(w)
    <3> DEFINE j == i - Len(w)
    <3>1. j \in 1..n /\ j \in Nat \ {0} /\ Len(w) + j = i BY <1>3, <1>9, <2>2
    <3> HIDE DEF j
    <3>2. Differs(stop, s, j) BY <2>0, <3>1, SafeDiffers DEF n, s
    <3>3. Differs(stop, t, Len(w) + j) BY <1>9, <1>11, <2>0, <3>1, <3>2, DiffersStays
    <3> QED BY <3>1, <3>3
  <2> QED BY <1>3, <1>9, <2>1, <2>2
<1>13. FilterTyped'
  <2>1. z = <<>> \/ Len(z) < Len(stop)
    <3>1. Len(z) = Hold(s, {stop}) BY <1>3, <1>5
    <3>2. Len(z) = 0 => z = <<>> BY <1>5 DEF Str
    <3> QED BY <1>3, <3>1, <3>2
  <2> QED BY <1>1, <1>5, <1>6, <1>8, <2>1 DEF FilterTyped
<1>14. Told(t, r)'
  <2>1. (t = ToldText \o kept)' BY <1>6, <1>8, <1>10
  <2>2. (\A i \in 1..Len(ToldText) : Differs(stop, t, i))' BY <1>6, <1>8, <1>11, <1>12 DEF Differs
  <2>3. (\E a \in Str : r = ToldThought \o a)' /\ (r = ToldThought)'
    <3>1. \E a \in Str : r = ToldThought \o a BY DEF Told
    <3>2. r = ToldThought BY <1>1 DEF Told
    <3> QED BY <1>8, <3>1, <3>2 DEF Str
  <2>4. hit' = FALSE BY <1>1, <1>6
  <2> QED BY <1>1, <1>10, <2>1, <2>2, <2>3, <2>4 DEF Told
<1> QED BY <1>8, <1>13, <1>14 DEF t

(* A stop sequence in the content cuts it there.                           *)
LEMMA CutsThere ==
  ASSUME FilterTyped, NEW d, NEW r, Told(d, r), NEW x \in Str, ~hit, stop # <<>>, UNCHANGED stop,
         Places(kept \o x, {stop}) # {}, Cut(kept \o x)
  PROVE  FilterTyped' /\ Told(d \o x, r)' /\ Len(out) <= Len(out') /\ (\A k \in 1..Len(out) : out'[k] = out[k])
         /\ (out \in Seq(WrittenSet) => out' \in Seq(WrittenSet))
<1> DEFINE s == kept \o x
           w == ToldText
           q == First(s, {stop})
           y == Before(s, q)
           t == d \o x
<1>1. kept \in Str /\ stop \in Str /\ d \in Str /\ r \in Str /\ ToldText \in Str /\ ToldThought \in Str
      /\ out \in Seq(OutSet) /\ hit = FALSE /\ muted = FALSE
  <2>1. ToldText \in Str /\ ToldThought \in Str BY WrittenFacts DEF FilterTyped, ToldText, ToldThought
  <2> QED BY <2>1 DEF FilterTyped, Told, Str
<1>2. s \in Str /\ Len(s) \in Nat BY <1>1, StrFacts
<1>3. d = w \o kept /\ w \in Str /\ t \in Str
  <2>1. t \in Str BY <1>1, StrFacts
  <2> QED BY <1>1, <2>1 DEF Told
<1>4. t = w \o s
  <2> DEFINE k == kept
  <2>1. k \in Str BY <1>1
  <2> HIDE DEF k, w
  <2>2. (w \o k) \o x = w \o (k \o x) BY <1>3, <2>1, Assoc
  <2> QED BY <1>3, <2>2 DEF k
<1>5. Cut(s) /\ Places(s, {stop}) # {} OBVIOUS
<1> HIDE DEF s
<1>6. \A i \in 1..Len(w) : ~At(stop, t, i)
  <2> TAKE i \in 1..Len(w)
  <2>1. i \in Nat \ {0} /\ 0 + i = i /\ 0 \in Nat BY <1>3 DEF Str
  <2>2. Differs(stop, d, i) BY <1>1 DEF Told, w
  <2>3. Within(d, t, 0) BY <1>1, JoinedWithin
  <2>4. stop \in Seq(Symbols) /\ d \in Seq(Symbols) /\ t \in Seq(Symbols) BY <1>1, <1>3 DEF Str
  <2> HIDE DEF t
  <2>5. ~At(stop, t, 0 + i) BY <2>1, <2>2, <2>3, <2>4, DiffersStays
  <2> QED BY <2>1, <2>5
<1> HIDE DEF t
<1>7. /\ Places(t, {stop}) # {} /\ First(t, {stop}) = Len(w) + q /\ q \in 1..Len(s)
      /\ Before(t, Len(w) + q) = w \o y
  <2> HIDE DEF w
  <2>1. /\ Places(w \o s, {stop}) # {} /\ First(w \o s, {stop}) = Len(w) + First(s, {stop})
        /\ First(s, {stop}) \in 1..Len(s)
        /\ Before(w \o s, Len(w) + First(s, {stop})) = w \o Before(s, First(s, {stop}))
    BY <1>1, <1>2, <1>3, <1>4, <1>5, <1>6, FirstAfter
  <2> QED BY <1>4, <2>1
<1>8. y \in Str
  <2>1. q \in 1..(Len(s) + 1) BY <1>2, <1>7
  <2> QED BY <1>2, <2>1, Pieced DEF Str
<1>9. hit' = TRUE /\ kept' = <<>> /\ muted' \in BOOLEAN /\ Write("delta", y) /\ stop' = stop BY <1>5 DEF Cut
<1> HIDE DEF y, q
<1>10. /\ out' \in Seq(OutSet) /\ (out \in Seq(WrittenSet) => out' \in Seq(WrittenSet))
       /\ Len(out) <= Len(out') /\ (\A k \in 1..Len(out) : out'[k] = out[k])
       /\ ToldText' = w \o y /\ ToldThought' = ToldThought
  <2>1. ToldThought \o <<>> = ToldThought BY <1>1, StrFacts
  <2> QED BY <1>1, <1>8, <1>9, <2>1, WriteFacts
<1> HIDE DEF w
<1>11. FilterTyped' BY <1>1, <1>9, <1>10, StrFacts DEF FilterTyped
<1>12. Told(t, r)'
  <2>1. (Places(t, {stop}) # {} /\ ToldText = Before(t, First(t, {stop})))' BY <1>7, <1>9, <1>10
  <2>2. (\E a \in Str : r = ToldThought \o a)' /\ (r = ToldThought)'
    <3>1. \E a \in Str : r = ToldThought \o a BY DEF Told
    <3>2. r = ToldThought BY <1>1 DEF Told
    <3> QED BY <1>10, <3>1, <3>2 DEF Str
  <2> QED BY <1>1, <1>3, <1>9, <2>1, <2>2 DEF Told
<1> QED BY <1>10, <1>11, <1>12 DEF t

(* Whatever comes out of the splitter, the stop filter keeps it told.      *)
LEMMA ShowKeeps ==
  ASSUME FilterTyped, NEW d, NEW r, Told(d, r), NEW x \in Str, thinking \in BOOLEAN, UNCHANGED stop, Show(x),
         NEW d2, NEW r2, d2 = IF thinking THEN d ELSE d \o x, r2 = IF thinking THEN r \o x ELSE r
  PROVE  /\ FilterTyped' /\ Told(d2, r2)'
         /\ Len(out) <= Len(out') /\ (\A k \in 1..Len(out) : out'[k] = out[k])
         /\ (out \in Seq(WrittenSet) => out' \in Seq(WrittenSet))
<1>1. kept \in Str /\ stop \in Str /\ d \in Str /\ r \in Str /\ ToldText \in Str /\ ToldThought \in Str
      /\ out \in Seq(OutSet) /\ hit \in BOOLEAN /\ muted \in BOOLEAN /\ Len(out) \in Nat
  <2>1. ToldText \in Str /\ ToldThought \in Str BY WrittenFacts DEF FilterTyped, ToldText, ToldThought
  <2> QED BY <2>1 DEF FilterTyped, Told, Str
<1>2. d2 \in Str /\ r2 \in Str /\ d \o <<>> = d /\ r \o <<>> = r BY <1>1, StrFacts
<1>3. PICK a \in Str : r = ToldThought \o a BY DEF Told
<1>4. ASSUME UNCHANGED <<kept, hit, out>>, muted' \in BOOLEAN, muted => muted', hit, muted' \/ x = <<>> PROVE
        /\ FilterTyped' /\ Told(d2, r2)'
        /\ Len(out) <= Len(out') /\ (\A k \in 1..Len(out) : out'[k] = out[k])
        /\ (out \in Seq(WrittenSet) => out' \in Seq(WrittenSet))
  <2>1. kept' = kept /\ hit' = hit /\ out' = out /\ hit' /\ stop' = stop BY <1>4
  <2>2. ToldText' = ToldText /\ ToldThought' = ToldThought BY <2>1 DEF ToldText, ToldThought
  <2>3. FilterTyped' BY <1>1, <1>4, <2>1 DEF FilterTyped
  <2>4. Places(d2, {stop}) # {} /\ ToldText = Before(d2, First(d2, {stop}))
    <3>1. Places(d, {stop}) # {} /\ ToldText = Before(d, First(d, {stop})) BY <1>4 DEF Told
    <3>2. Places(d \o x, {stop}) # {} /\ First(d \o x, {stop}) = First(d, {stop})
          /\ Before(d \o x, First(d, {stop})) = Before(d, First(d, {stop}))
      BY <1>1, <3>1, FirstGrows
    <3> QED BY <3>1, <3>2
  <2>5. (\E b \in Str : r2 = ToldThought \o b)
    <3>1. CASE thinking
      <4>1. r2 = ToldThought \o (a \o x)
        <5>1. (ToldThought \o a) \o x = ToldThought \o (a \o x)
          <6> DEFINE k == ToldThought
          <6>1. k \in Str BY <1>1
          <6> HIDE DEF k
          <6>2. (k \o a) \o x = k \o (a \o x) BY <1>3, <6>1, Assoc
          <6> QED BY <6>2 DEF k
        <5> QED BY <1>3, <3>1, <5>1
      <4>2. a \o x \in Str BY <1>3, StrFacts
      <4> QED BY <4>1, <4>2
    <3>2. CASE ~thinking BY <1>3, <3>2
    <3> QED BY <3>1, <3>2
  <2>6. ~muted' => r2 = ToldThought
    <3>1. CASE ~muted'
      <4>1. x = <<>> /\ ~muted BY <1>1, <1>4, <3>1
      <4>2. r2 = r BY <1>2, <4>1
      <4>3. r = ToldThought BY <4>1 DEF Told
      <4> QED BY <4>2, <4>3
    <3> QED BY <3>1
  <2>7. Told(d2, r2)'
    <3>1. (Places(d2, {stop}) # {} /\ ToldText = Before(d2, First(d2, {stop})))' BY <2>1, <2>2, <2>4
    <3>2. (\E b \in Str : r2 = ToldThought \o b)' BY <2>2, <2>5
    <3>3. (~muted => r2 = ToldThought)' BY <2>2, <2>6
    <3> QED BY <1>2, <2>1, <3>1, <3>2, <3>3 DEF Told
  <2> QED BY <1>1, <2>1, <2>3, <2>7
<1>5. CASE x = <<>> \/ muted
  <2>1. UNCHANGED <<kept, hit, muted, out>> BY <1>5 DEF Show
  <2>2. CASE hit
    <3>1. muted' \in BOOLEAN /\ (muted => muted') /\ (muted' \/ x = <<>>) BY <1>1, <1>5, <2>1
    <3>2. /\ FilterTyped' /\ Told(d2, r2)'
          /\ Len(out) <= Len(out') /\ (\A k \in 1..Len(out) : out'[k] = out[k])
          /\ (out \in Seq(WrittenSet) => out' \in Seq(WrittenSet))
      BY <1>4, <2>1, <2>2, <3>1
    <3> QED BY <3>2
  <2>3. CASE ~hit
    <3>1. x = <<>> BY <1>5, <2>3 DEF FilterTyped
    <3>2. d2 = d /\ r2 = r BY <1>2, <3>1
    <3>3. kept' = kept /\ hit' = hit /\ muted' = muted /\ out' = out /\ stop' = stop BY <2>1
    <3>4. ToldText' = ToldText /\ ToldThought' = ToldThought BY <3>3 DEF ToldText, ToldThought
    <3>5. FilterTyped' BY <3>3 DEF FilterTyped
    <3>6. Told(d2, r2)' BY <3>2, <3>3, <3>4 DEF Told, Differs
    <3> QED BY <1>1, <3>2, <3>3, <3>5, <3>6
  <2> QED BY <1>1, <2>2, <2>3
<1>6. CASE ~(x = <<>> \/ muted) /\ (thinking \/ stop = <<>>)
  <2>1. Write(Kind, x) /\ kept' = kept /\ hit' = hit /\ muted' = muted /\ stop' = stop BY <1>6 DEF Show
  <2>2. Kind \in {"delta", "reasoning_delta"} /\ (Kind = "delta" <=> ~thinking) BY DEF Kind
  <2>3. /\ out' \in Seq(OutSet) /\ (out \in Seq(WrittenSet) => out' \in Seq(WrittenSet))
        /\ Len(out) <= Len(out') /\ (\A k \in 1..Len(out) : out'[k] = out[k])
        /\ ToldText' = ToldText \o (IF Kind = "delta" THEN x ELSE <<>>)
        /\ ToldThought' = ToldThought \o (IF Kind = "delta" THEN <<>> ELSE x)
    BY <1>1, <2>1, <2>2, WriteFacts
  <2>4. ToldText \o <<>> = ToldText /\ ToldThought \o <<>> = ToldThought BY <1>1, StrFacts
  <2>5. r = ToldThought BY <1>1, <1>6 DEF Told
  <2>6. FilterTyped' BY <2>1, <2>3 DEF FilterTyped
  <2>7. r2 = ToldThought' BY <2>2, <2>3, <2>4, <2>5
  <2>8. \E b \in Str : r2 = ToldThought' \o b
    <3>1. r2 \o <<>> = r2 /\ <<>> \in Str BY <1>2, StrFacts
    <3> QED BY <2>7, <3>1
  <2>9. CASE thinking
    <3>1. d2 = d /\ ToldText' = ToldText BY <2>2, <2>3, <2>4, <2>9
    <3>2. Told(d2, r2)' BY <1>2, <2>1, <2>7, <2>8, <3>1 DEF Told, Differs
    <3> QED BY <2>3, <2>6, <3>2
  <2>10. CASE ~thinking
    <3>1. stop = <<>> /\ ~hit /\ kept = <<>> BY <1>6, <2>10 DEF FilterTyped
    <3>2. d = ToldText BY <1>1, <2>4, <3>1 DEF Told
    <3>3. d2 = ToldText' \o kept' /\ ToldText' \o <<>> = ToldText'
      <4>1. ToldText' = d \o x BY <2>2, <2>3, <2>10, <3>2
      <4>2. (d \o x) \o <<>> = d \o x BY <1>1, StrFacts
      <4> QED BY <2>1, <2>10, <3>1, <4>1, <4>2
    <3>4. Told(d2, r2)' BY <1>2, <2>1, <2>7, <2>8, <3>1, <3>3 DEF Told
    <3> QED BY <2>3, <2>6, <3>4
  <2> QED BY <2>9, <2>10
<1>7. CASE ~(x = <<>> \/ muted) /\ ~(thinking \/ stop = <<>>) /\ hit
  <2>1. Drop BY <1>7 DEF Show
  <2>2. UNCHANGED <<kept, hit, out>> /\ muted' = TRUE BY <2>1 DEF Drop
  <2>3. muted' \in BOOLEAN /\ (muted => muted') /\ (muted' \/ x = <<>>) /\ hit BY <1>7, <2>2
  <2>4. /\ FilterTyped' /\ Told(d2, r2)'
        /\ Len(out) <= Len(out') /\ (\A k \in 1..Len(out) : out'[k] = out[k])
        /\ (out \in Seq(WrittenSet) => out' \in Seq(WrittenSet))
    BY <1>4, <2>2, <2>3
  <2> QED BY <2>4
<1>8. CASE ~(x = <<>> \/ muted) /\ ~(thinking \/ stop = <<>>) /\ ~hit
  <2>1. IF Places(kept \o x, {stop}) # {} THEN Cut(kept \o x) ELSE KeepEnd(kept \o x) BY <1>8 DEF Show
  <2>2. CASE Places(kept \o x, {stop}) # {}
    <3>1. Cut(kept \o x) BY <2>1, <2>2
    <3>2. FilterTyped' /\ Told(d \o x, r)' /\ Len(out) <= Len(out') /\ (\A k \in 1..Len(out) : out'[k] = out[k])
          /\ (out \in Seq(WrittenSet) => out' \in Seq(WrittenSet))
      BY <1>8, <2>2, <3>1, CutsThere
    <3> QED BY <1>8, <3>2
  <2>3. CASE Places(kept \o x, {stop}) = {}
    <3>1. KeepEnd(kept \o x) BY <2>1, <2>3
    <3>2. FilterTyped' /\ Told(d \o x, r)' /\ Len(out) <= Len(out') /\ (\A k \in 1..Len(out) : out'[k] = out[k])
          /\ (out \in Seq(WrittenSet) => out' \in Seq(WrittenSet))
      BY <1>8, <2>3, <3>1, KeepsEnd
    <3> QED BY <1>8, <3>2
  <2> QED BY <2>2, <2>3
<1> QED BY <1>5, <1>6, <1>7, <1>8
-----------------------------------------------------------------------------
(* The invariant of the filters.                                           *)
Typed ==
  /\ text \in Str /\ text \in Texts /\ stop \in Stops /\ tools \in BOOLEAN /\ begins \in BOOLEAN
  /\ thinking \in BOOLEAN /\ found \in BOOLEAN
  /\ held \in Str /\ read \in 0..Len(text) /\ textpc \in {"next", "split", "tail", "over"}
  /\ ~found => Len(held) <= read /\ Within(held, text, read - Len(held))
(* Some state of the scan is as far as the splitter, and what the scan has *)
(* by then has been told.                                                  *)
AsFar(s) ==
  /\ s \in ScanSet /\ OnPath(s) /\ s.found = found /\ s.reasoning = thinking
  /\ ~found => s.at = read - Len(held) + 1
Goes ==
  /\ out \in Seq(WrittenSet)
  /\ textpc = "next" => ~hit
  /\ textpc = "split" => ~found
  /\ textpc = "tail" /\ ~hit => read = Len(text)
  /\ textpc \in {"next", "tail"} /\ ~found => Places(held, Markers) = {}
  /\ \E s : AsFar(s) /\ Told(s.delta, s.reasoning_delta)
IsOver ==
  /\ Len(out) > 0 /\ out[Len(out)] \in LastSet /\ \A k \in 1..(Len(out) - 1) : out[k] \notin LastSet
  /\ \A k \in 1..(Len(out) - 2) : out[k] \in WrittenSet
  /\ ~hit => \E a \in Str : Scan.reasoning_delta = ToldThought \o a
  /\ ~hit /\ Ended => ToldText = Scan.delta /\ ToldThought = Scan.reasoning_delta
TextInv == Typed /\ FilterTyped /\ (textpc # "over" => Goes) /\ (textpc = "over" => IsOver)

(* The text in one piece is the same as long as the request is.            *)
LEMMA ScanSame ==
  ASSUME UNCHANGED request
  PROVE  Scan' = Scan /\ ScanSet' = ScanSet /\ \A r : MarkersIn(r)' = MarkersIn(r)
<1>1. text' = text /\ begins' = begins /\ tools' = tools BY DEF request
<1>2. Scan' = Scan BY <1>1 DEF Scan, Start, Scanned, MarkersIn, Tools, At, Stream
<1> QED BY <1>1, <1>2 DEF ScanSet, MarkersIn, Tools
(* So is its path.                                                         *)
LEMMA PathSame ==
  ASSUME UNCHANGED request, NEW s, OnPath(s)
  PROVE  OnPath(s)'
<1>1. text' = text /\ begins' = begins /\ tools' = tools BY DEF request
<1>2. Start' = Start BY <1>1 DEF Start
<1>3. \A t : Scanned(t)' = Scanned(t) BY <1>1 DEF Scanned, MarkersIn, Tools, At, Stream
<1>4. Scan' = Scan /\ ScanSet' = ScanSet BY ScanSame
<1>5. PICK f : Runs(f) /\ Scan = f[Len(text)] /\ \E k \in 0..Len(text) : f[k] = s /\ (k < s.at \/ s.found)
  BY DEF OnPath
<1>6. Runs(f)' BY <1>1, <1>2, <1>3, <1>4, <1>5 DEF Runs
<1>7. (Scan = f[Len(text)] /\ \E k \in 0..Len(text) : f[k] = s /\ (k < s.at \/ s.found))' BY <1>1, <1>4, <1>5
<1> QED BY <1>6, <1>7 DEF OnPath

(* At first nothing is read.                                               *)
LEMMA TextBegins == TextInit => TextInv
<1> SUFFICES ASSUME TextInit PROVE TextInv OBVIOUS
<1>1. /\ text \in Texts /\ tools \in BOOLEAN /\ stop \in Stops /\ begins \in BOOLEAN /\ thinking = begins
      /\ read = 0 /\ held = <<>> /\ found = FALSE /\ kept = <<>> /\ hit = FALSE /\ muted = FALSE
      /\ out = <<>> /\ textpc = "next"
  BY DEF TextInit
<1>2. text \in Str /\ stop \in Str /\ <<>> \in Str /\ Len(text) \in Nat
  BY <1>1, TextsShaped, StrFacts DEF Str
<1>3. out \in Seq(OutSet) /\ out \in Seq(WrittenSet) BY <1>1
<1>4. ToldText = <<>> /\ ToldThought = <<>> BY <1>1, <1>3, WrittenFacts DEF ToldText, ToldThought
<1>5. Len(held) = 0 /\ Len(ToldText) = 0 BY <1>1, <1>4
<1>6. Typed
  <2>1. 0 \in 0..Len(text) /\ 0 - 0 = 0 BY <1>2
  <2>2. Len(held) <= read /\ read - Len(held) = 0
    <3>1. Len(held) = 0 /\ read = 0 BY <1>1, <1>5, Zenon
    <3>2. \A a, b : a = 0 /\ b = 0 => a <= b /\ b - a = 0 OBVIOUS
    <3> QED BY <3>1, <3>2, Zenon
  <2>3. Within(held, text, 0) BY <1>2, <1>5 DEF Within
  <2> QED BY <1>1, <1>2, <2>1, <2>2, <2>3 DEF Typed
<1>7. FilterTyped BY <1>1, <1>2, <1>3 DEF FilterTyped
<1>8. OnPath(Start) /\ Start \in ScanSet BY <1>1, <1>2, PathBegins
<1>9. /\ Start.at = 1 /\ Start.found = FALSE /\ Start.reasoning = begins /\ Start.delta = <<>>
      /\ Start.reasoning_delta = <<>>
  BY DEF Start
<1>10. AsFar(Start)
  <2>1. read - Len(held) + 1 = 1 BY <1>1, <1>5
  <2> QED BY <1>1, <1>8, <1>9, <2>1 DEF AsFar
<1>11. Told(<<>>, <<>>)
  <2>1. ToldText \o kept = <<>> /\ ToldThought \o <<>> = <<>> BY <1>1, <1>2, <1>4, StrFacts
  <2>2. \A i \in 1..Len(ToldText) : Differs(stop, <<>>, i) BY <1>5
  <2>3. \E a \in Str : <<>> = ToldThought \o a BY <1>2, <2>1
  <2> QED BY <1>1, <1>2, <1>4, <2>1, <2>2, <2>3 DEF Told
<1>12. Places(held, Markers) = {} BY <1>5 DEF Places
<1>13. Goes BY <1>1, <1>3, <1>9, <1>10, <1>11, <1>12, Zenon DEF Goes
<1> QED BY <1>1, <1>6, <1>7, <1>13 DEF TextInv

(* More of the text is handed over.                                        *)
LEMMA ChunkKeeps ==
  ASSUME TextInv, NEW n \in 1..MaxChunk, Chunk(n) PROVE TextInv'
<1>1. /\ textpc = "next" /\ read + n <= Len(text) /\ read' = read + n
      /\ held' = IF found THEN held ELSE held \o SubSeq(text, read + 1, read + n)
      /\ textpc' = IF found THEN "next" ELSE "split"
      /\ UNCHANGED request /\ UNCHANGED <<thinking, found, kept, hit, muted, out>>
  BY DEF Chunk
<1>2. /\ text' = text /\ begins' = begins /\ tools' = tools /\ stop' = stop /\ thinking' = thinking
      /\ found' = found /\ kept' = kept /\ hit' = hit /\ muted' = muted /\ out' = out
  BY <1>1 DEF request
<1>3. Typed /\ FilterTyped /\ Goes BY <1>1 DEF TextInv
<1>4. text \in Str /\ Len(text) \in Nat /\ read \in 0..Len(text) /\ n \in Nat /\ held \in Str /\ Len(held) \in Nat
      /\ found \in BOOLEAN
  <2>1. MaxChunk \in Nat BY TextsShaped
  <2> QED BY <1>3, <2>1 DEF Typed, Str
<1> DEFINE x == SubSeq(text, read + 1, read + n)
<1>5. x \in Str /\ Len(x) = n /\ \A k \in 1..n : x[k] = text[read + k]
  <2>1. \A k \in (read + 1)..(read + n) : k \in 1..Len(text) /\ text[k] \in Symbols BY <1>1, <1>4 DEF Str
  <2> QED BY <1>1, <1>4, <2>1 DEF Str
<1> HIDE DEF x
<1>6. ASSUME ~found PROVE /\ held' \in Str /\ Len(held') = Len(held) + n /\ Len(held') <= read'
                          /\ Within(held', text, read' - Len(held')) /\ read' - Len(held') = read - Len(held)
  <2>1. held' = held \o x BY <1>1, <1>6 DEF x
  <2>2. Within(held, held', 0) /\ Within(x, held', Len(held)) /\ held' \in Str /\ Len(held') = Len(held) + n
    BY <1>4, <1>5, <2>1, JoinedWithin
  <2>3. Len(held) <= read /\ Within(held, text, read - Len(held)) BY <1>3, <1>6 DEF Typed
  <2>4. read' - Len(held') = read - Len(held) /\ read - Len(held) \in Nat /\ Len(held') <= read'
    BY <1>1, <1>4, <2>2, <2>3
  <2> DEFINE p == read - Len(held)
  <2>5. ASSUME NEW k \in 1..Len(held') PROVE text[p + k] = held'[k]
    <3>1. CASE k <= Len(held)
      <4>1. k \in 1..Len(held) /\ 0 + k = k BY <1>4, <3>1
      <4> QED BY <2>2, <2>3, <4>1 DEF Within
    <3>2. CASE k > Len(held)
      <4> DEFINE i == k - Len(held)
      <4>1. i \in 1..n /\ Len(held) + i = k /\ p + k = read + i BY <1>4, <2>2, <3>2
      <4> HIDE DEF i, p
      <4>2. held'[Len(held) + i] = x[i] BY <1>5, <2>2, <4>1 DEF Within
      <4> QED BY <1>5, <4>1, <4>2
    <3> QED BY <1>4, <2>2, <3>1, <3>2
  <2>6. p + Len(held') <= Len(text) BY <1>1, <1>4, <2>2, <2>3
  <2> QED BY <2>2, <2>4, <2>5, <2>6 DEF Within
<1>7. Typed'
  <2>1. held' \in Str BY <1>1, <1>4, <1>6
  <2>2. read' \in 0..Len(text') BY <1>1, <1>2, <1>4
  <2>3. (~found => Len(held) <= read /\ Within(held, text, read - Len(held)))'
    <3>1. CASE found BY <1>2, <3>1
    <3>2. CASE ~found
      <4>1. Len(held') <= read' /\ Within(held', text, read' - Len(held')) BY <1>6, <3>2
      <4> QED BY <1>2, <4>1 DEF Within
    <3> QED BY <3>1, <3>2
  <2>4. textpc' \in {"next", "split"} BY <1>1, <1>4
  <2> QED BY <1>2, <1>3, <2>1, <2>2, <2>3, <2>4 DEF Typed
<1>8. FilterTyped' BY <1>2, <1>3 DEF FilterTyped
<1>9. Goes'
  <2>1. PICK s : AsFar(s) /\ Told(s.delta, s.reasoning_delta) BY <1>3 DEF Goes
  <2>2. AsFar(s)'
    <3>1. OnPath(s)' BY <1>1, <2>1, PathSame DEF AsFar
    <3>2. s \in ScanSet' BY <1>1, <2>1, ScanSame DEF AsFar
    <3>3. ~found => s.at = read' - Len(held') + 1 BY <1>6, <2>1 DEF AsFar
    <3> QED BY <1>2, <2>1, <3>1, <3>2, <3>3 DEF AsFar
  <2>3. Told(s.delta, s.reasoning_delta)' BY <1>2, <2>1 DEF Told, Differs, ToldText, ToldThought
  <2>4. ~hit' BY <1>1, <1>2, <1>3 DEF Goes
  <2>5. textpc' = "next" => found' BY <1>1, <1>2
  <2>6. textpc' = "split" => ~found' BY <1>1, <1>2, <1>4
  <2>7. textpc' # "tail" BY <1>1, <1>4
  <2>8. out' \in Seq(WrittenSet) BY <1>2, <1>3 DEF Goes
  <2> QED BY <2>2, <2>3, <2>4, <2>5, <2>6, <2>7, <2>8 DEF Goes
<1>10. textpc' # "over" BY <1>1, <1>4
<1> QED BY <1>7, <1>8, <1>9, <1>10 DEF TextInv

(* The model ends its text.                                                *)
LEMMA EndOfTextKeeps ==
  ASSUME TextInv, EndOfText PROVE TextInv'
<1>1. /\ textpc = "next" /\ read = Len(text) /\ textpc' = "tail" /\ UNCHANGED request
      /\ UNCHANGED <<read, held, thinking, found, kept, hit, muted, out>>
  BY DEF EndOfText
<1>2. /\ text' = text /\ begins' = begins /\ tools' = tools /\ stop' = stop /\ thinking' = thinking
      /\ found' = found /\ kept' = kept /\ hit' = hit /\ muted' = muted /\ out' = out /\ read' = read /\ held' = held
  BY <1>1 DEF request
<1>3. Typed /\ FilterTyped /\ Goes BY <1>1 DEF TextInv
<1>4. Typed' BY <1>1, <1>2, <1>3 DEF Typed, Within
<1>5. FilterTyped' BY <1>2, <1>3 DEF FilterTyped
<1>6. Goes'
  <2>1. PICK s : AsFar(s) /\ Told(s.delta, s.reasoning_delta) BY <1>3 DEF Goes
  <2>2. OnPath(s)' BY <1>1, <2>1, PathSame DEF AsFar
  <2>3. AsFar(s)' BY <1>1, <1>2, <2>1, <2>2, ScanSame DEF AsFar
  <2>4. Told(s.delta, s.reasoning_delta)' BY <1>2, <2>1 DEF Told, Differs, ToldText, ToldThought
  <2>5. ~found => Places(held, Markers) = {} BY <1>1, <1>3 DEF Goes
  <2>6. (~found => Places(held, Markers) = {})'
    BY <1>2, <2>5 DEF Places, At, Markers, MarkersIn, Tools
  <2>7. out' \in Seq(WrittenSet) BY <1>2, <1>3 DEF Goes
  <2> QED BY <1>1, <1>2, <2>3, <2>4, <2>6, <2>7 DEF Goes
<1> QED BY <1>1, <1>4, <1>5, <1>6 DEF TextInv
-----------------------------------------------------------------------------
(* Some of what is held comes out of the splitter.                         *)
LEMMA ComesOut ==
  ASSUME Typed, FilterTyped, ~found, NEW s, AsFar(s), Told(s.delta, s.reasoning_delta), NEW n \in 0..Len(held),
         \A i \in 1..n : \A m \in Markers : Differs(m, held, i),
         NEW t, t = Along(s, held, n)
  PROVE  /\ t \in ScanSet /\ OnPath(t) /\ t.at = read - Len(held) + 1 + n /\ t.reasoning = thinking /\ t.found = FALSE
         /\ UNCHANGED stop /\ Show(SubSeq(held, 1, n)) =>
              /\ FilterTyped' /\ Told(t.delta, t.reasoning_delta)'
              /\ Len(out) <= Len(out') /\ (\A k \in 1..Len(out) : out'[k] = out[k])
              /\ (out \in Seq(WrittenSet) => out' \in Seq(WrittenSet))
<1> DEFINE x == SubSeq(held, 1, n)
           p == read - Len(held)
<1>1. /\ text \in Str /\ held \in Str /\ read \in Nat /\ Len(held) \in Nat /\ Len(held) <= read
      /\ Within(held, text, p) /\ thinking \in BOOLEAN /\ p \in Nat
  BY DEF Typed, Str
<1>2. s \in ScanSet /\ OnPath(s) /\ s.found = FALSE /\ s.reasoning = thinking /\ s.at = p + 1
  BY DEF AsFar, ScanSet, Typed
<1>3. s.at - 1 = p BY <1>1, <1>2
<1>4. \A i \in 1..n : \A m \in MarkersIn(s.reasoning) : ~At(m, text, (s.at - 1) + i)
  <2> TAKE i \in 1..n
  <2> TAKE m \in MarkersIn(s.reasoning)
  <2>1. m \in Markers /\ m \in Str BY <1>2, MarkersFine DEF Markers
  <2>2. Differs(m, held, i) BY <2>1
  <2>3. i \in Nat \ {0} /\ text \in Seq(Symbols) /\ held \in Seq(Symbols) /\ m \in Seq(Symbols) BY <1>1, <2>1 DEF Str
  <2> HIDE DEF p
  <2>4. ~At(m, text, p + i) BY <1>1, <2>2, <2>3, DiffersStays
  <2> QED BY <1>3, <2>4
<1>5. Along(s, held, n) \in ScanSet /\ OnPath(Along(s, held, n))
  <2> DEFINE h == held
  <2>1. h \in Str /\ Within(h, text, s.at - 1) /\ n \in 0..Len(h) BY <1>1, <1>3
  <2> HIDE DEF h
  <2>2. Along(s, h, n) \in ScanSet /\ OnPath(Along(s, h, n)) BY <1>1, <1>2, <1>4, <2>1, Walks
  <2> QED BY <2>2 DEF h
<1>6. /\ t.at = s.at + n /\ t.reasoning = s.reasoning /\ t.found = FALSE
      /\ t.delta = (IF s.reasoning THEN s.delta ELSE s.delta \o x)
      /\ t.reasoning_delta = (IF s.reasoning THEN s.reasoning_delta \o x ELSE s.reasoning_delta)
  BY DEF Along
<1>7. x \in Str BY <1>1, FirstSymbols
<1>8. ASSUME stop' = stop, Show(x)
      PROVE  /\ FilterTyped' /\ Told(t.delta, t.reasoning_delta)'
             /\ Len(out) <= Len(out') /\ (\A k \in 1..Len(out) : out'[k] = out[k])
             /\ (out \in Seq(WrittenSet) => out' \in Seq(WrittenSet))
  <2> HIDE DEF x
  <2>1. \A d, r, d2, r2 : Told(d, r) /\ d2 = (IF thinking THEN d ELSE d \o x) /\ r2 = (IF thinking THEN r \o x ELSE r) =>
          /\ FilterTyped' /\ Told(d2, r2)'
          /\ Len(out) <= Len(out') /\ (\A k \in 1..Len(out) : out'[k] = out[k])
          /\ (out \in Seq(WrittenSet) => out' \in Seq(WrittenSet))
    <3> TAKE d, r, d2, r2
    <3> HAVE Told(d, r) /\ d2 = (IF thinking THEN d ELSE d \o x) /\ r2 = (IF thinking THEN r \o x ELSE r)
    <3> QED BY <1>1, <1>7, <1>8, ShowKeeps
  <2> DEFINE d == s.delta
             r == s.reasoning_delta
             d2 == t.delta
             r2 == t.reasoning_delta
  <2>2. Told(d, r) /\ d2 = (IF thinking THEN d ELSE d \o x) /\ r2 = (IF thinking THEN r \o x ELSE r)
    BY <1>2, <1>6
  <2> HIDE DEF d, r, d2, r2
  <2>3. /\ FilterTyped' /\ Told(d2, r2)'
        /\ Len(out) <= Len(out') /\ (\A k \in 1..Len(out) : out'[k] = out[k])
        /\ (out \in Seq(WrittenSet) => out' \in Seq(WrittenSet))
    BY <2>1, <2>2
  <2> QED BY <2>3 DEF d2, r2
<1>9. t.at = p + 1 + n BY <1>1, <1>2, <1>6
<1> QED BY <1>2, <1>5, <1>6, <1>8, <1>9

(* What is held after a place of it.                                       *)
LEMMA RestWithin ==
  ASSUME Typed, ~found, NEW i \in 1..(Len(held) + 1), held' = After(held, i), UNCHANGED <<text, read>>
  PROVE  /\ held' \in Str /\ Len(held') = Len(held) - i + 1 /\ Len(held') <= read'
         /\ Within(held', text', read' - Len(held')) /\ Within(held', held, i - 1)
<1> DEFINE p == read - Len(held)
           j == i - 1
<1>1. /\ text \in Str /\ held \in Str /\ read \in Nat /\ Len(held) \in Nat /\ Len(held) <= read /\ Len(text) \in Nat
      /\ Within(held, text, p) /\ p \in Nat /\ read' = read /\ text' = text /\ read <= Len(text)
  BY DEF Typed, Str
<1>2. held' \in Str /\ Len(held') = Len(held) - i + 1 /\ \A k \in 1..(Len(held) - i + 1) : held'[k] = held[i + k - 1]
  BY <1>1, Pieced DEF Str
<1>3. Len(held') <= read' /\ read' - Len(held') = p + j /\ j \in Nat /\ j + Len(held') = Len(held)
  BY <1>1, <1>2
<1>4. \A k \in 1..Len(held') : i + k - 1 = j + k /\ j + k \in 1..Len(held) /\ (p + j) + k = p + (j + k)
  BY <1>1, <1>2
<1>5. Within(held', held, j) BY <1>1, <1>2, <1>3, <1>4 DEF Within
<1>6. Within(held', text, p + j)
  <2>1. (p + j) + Len(held') <= Len(text) BY <1>1, <1>3
  <2> HIDE DEF p, j
  <2>2. \A k \in 1..Len(held') : text[(p + j) + k] = held'[k]
    <3> TAKE k \in 1..Len(held')
    <3>1. text[p + (j + k)] = held[j + k] BY <1>1, <1>4 DEF Within
    <3>2. held[j + k] = held'[k] BY <1>2, <1>4
    <3> QED BY <1>4, <3>1, <3>2
  <2> QED BY <2>1, <2>2 DEF Within
<1> QED BY <1>1, <1>2, <1>3, <1>5, <1>6

(* A marker is taken out.                                                  *)
LEMMA SplitMarkerKeeps ==
  ASSUME TextInv, SplitMarker
  PROVE  TextInv' /\ Len(out) <= Len(out') /\ \A k \in 1..Len(out) : out'[k] = out[k]
<1> DEFINE q == First(held, Markers)
           x == Before(held, q)
           p == read - Len(held)
<1>1. /\ textpc = "split" /\ Places(held, Markers) # {} /\ Show(x) /\ UNCHANGED <<request, read>>
      /\ IF held' = <<>> \/ found' THEN textpc' = IF hit' THEN "tail" ELSE "next" ELSE textpc' = "split"
  BY DEF SplitMarker, Onward
<1>2. PICK m \in Markers : /\ At(m, held, q) /\ held' = After(held, q + Len(m)) /\ found' = (m = ToolStart)
                           /\ thinking' = ((thinking \/ m = ThinkStart) /\ m # ThinkEnd)
  BY DEF SplitMarker
<1>3. text' = text /\ begins' = begins /\ tools' = tools /\ stop' = stop /\ read' = read BY <1>1 DEF request
<1>4. Typed /\ FilterTyped /\ Goes BY <1>1 DEF TextInv
<1>5. ~found /\ held \in Str /\ Len(held) \in Nat /\ text \in Str /\ read \in Nat /\ Len(held) <= read
      /\ Within(held, text, p) /\ p \in Nat /\ thinking \in BOOLEAN /\ read <= Len(text) /\ Len(text) \in Nat
  BY <1>1, <1>4 DEF Goes, Typed, Str
<1>6. Markers \in SUBSET AllMarkers /\ m \in Str /\ Len(m) \in Nat /\ Len(m) > 1 /\ Markers = MarkersIn(thinking)
  BY <1>2, MarkersFine DEF Markers
<1>7. q \in 1..Len(held) /\ q + Len(m) - 1 <= Len(held)
  <2>1. q \in 1..Len(held) BY <1>1, <1>5, FirstFacts DEF Str
  <2> HIDE DEF q
  <2> QED BY <1>2, <2>1 DEF At
<1>8. q - 1 \in 0..Len(held) /\ q + Len(m) \in 1..(Len(held) + 1) BY <1>5, <1>6, <1>7
<1>9. \A i \in 1..(q - 1) : \A o \in Markers : Differs(o, held, i) BY <1>1, <1>5, <1>6, FirstDiffers
<1>10. PICK s : AsFar(s) /\ Told(s.delta, s.reasoning_delta) BY <1>4 DEF Goes
<1>101. PICK t : t = Along(s, held, q - 1) OBVIOUS
<1>11. /\ t \in ScanSet /\ OnPath(t) /\ t.at = p + 1 + (q - 1) /\ t.reasoning = thinking /\ t.found = FALSE
       /\ FilterTyped' /\ Told(t.delta, t.reasoning_delta)'
       /\ Len(out) <= Len(out') /\ (\A k \in 1..Len(out) : out'[k] = out[k])
       /\ (out \in Seq(WrittenSet) => out' \in Seq(WrittenSet))
  <2> DEFINE n == q - 1
  <2>1. Show(SubSeq(held, 1, n)) BY <1>1 DEF Before
  <2>2. n \in 0..Len(held) /\ (\A i \in 1..n : \A o \in Markers : Differs(o, held, i)) /\ t = Along(s, held, n)
    BY <1>8, <1>9, <1>101
  <2>3. \A k : k \in 0..Len(held) /\ (\A i \in 1..k : \A o \in Markers : Differs(o, held, i)) /\ t = Along(s, held, k) =>
        /\ t \in ScanSet /\ OnPath(t) /\ t.at = read - Len(held) + 1 + k /\ t.reasoning = thinking /\ t.found = FALSE
        /\ (UNCHANGED stop /\ Show(SubSeq(held, 1, k)) =>
              /\ FilterTyped' /\ Told(t.delta, t.reasoning_delta)'
              /\ Len(out) <= Len(out') /\ (\A i \in 1..Len(out) : out'[i] = out[i])
              /\ (out \in Seq(WrittenSet) => out' \in Seq(WrittenSet)))
    BY <1>4, <1>5, <1>10, ComesOut
  <2> HIDE DEF n
  <2>4. /\ t \in ScanSet /\ OnPath(t) /\ t.at = read - Len(held) + 1 + n /\ t.reasoning = thinking /\ t.found = FALSE
        /\ FilterTyped' /\ Told(t.delta, t.reasoning_delta)'
        /\ Len(out) <= Len(out') /\ (\A i \in 1..Len(out) : out'[i] = out[i])
        /\ (out \in Seq(WrittenSet) => out' \in Seq(WrittenSet))
    BY <1>3, <2>1, <2>2, <2>3
  <2> QED BY <2>4 DEF n
<1>12. t.at = p + q BY <1>5, <1>7, <1>11
<1>13. At(m, text, t.at)
  <2>1. q \in Nat \ {0} /\ m \in Seq(Symbols) /\ text \in Seq(Symbols) /\ held \in Seq(Symbols)
    BY <1>5, <1>6, <1>7 DEF Str
  <2> HIDE DEF p, q
  <2>2. At(m, text, p + q) <=> At(m, held, q) BY <1>5, <1>7, <2>1, AtStays
  <2> QED BY <1>2, <1>12, <2>2
<1>131. PICK u : u = Scanned(t) OBVIOUS
<1>14. /\ t.at <= Len(text)
       /\ u = [at |-> t.at + Len(m), reasoning |-> (t.reasoning \/ m = ThinkStart) /\ m # ThinkEnd,
               found |-> (m = ToolStart), delta |-> t.delta, reasoning_delta |-> t.reasoning_delta]
  <2>1. m \in MarkersIn(t.reasoning) BY <1>2, <1>6, <1>11
  <2> QED BY <1>5, <1>11, <1>13, <1>131, <2>1, ScanMarker
<1>15. OnPath(u) /\ u \in ScanSet BY <1>5, <1>11, <1>131, <1>14, PathGoesOn
<1>16. /\ u.at = p + q + Len(m) /\ u.reasoning = thinking' /\ u.found = found' /\ u.delta = t.delta
       /\ u.reasoning_delta = t.reasoning_delta
  BY <1>2, <1>11, <1>12, <1>14
<1>17. /\ held' \in Str /\ Len(held') = Len(held) - (q + Len(m)) + 1 /\ Len(held') <= read'
       /\ Within(held', text', read' - Len(held'))
  <2> DEFINE i == q + Len(m)
  <2>1. i \in 1..(Len(held) + 1) /\ held' = After(held, i) BY <1>2, <1>8
  <2> HIDE DEF i
  <2>2. /\ held' \in Str /\ Len(held') = Len(held) - i + 1 /\ Len(held') <= read'
        /\ Within(held', text', read' - Len(held'))
    BY <1>3, <1>4, <1>5, <2>1, RestWithin
  <2> QED BY <2>2 DEF i
<1>18. textpc' \in {"next", "split", "tail"} BY <1>1
<1>19. Typed'
  <2>1. found' \in BOOLEAN /\ thinking' \in BOOLEAN BY <1>2
  <2>2. read' \in 0..Len(text') BY <1>3, <1>5
  <2>3. (~found => Len(held) <= read /\ Within(held, text, read - Len(held)))' BY <1>17
  <2>4. (text \in Str /\ text \in Texts /\ stop \in Stops /\ tools \in BOOLEAN /\ begins \in BOOLEAN)'
    BY <1>3, <1>4 DEF Typed
  <2> QED BY <1>17, <1>18, <2>1, <2>2, <2>3, <2>4 DEF Typed
<1>20. Goes'
  <2>1. AsFar(u)'
    <3>1. OnPath(u)' BY <1>1, <1>15, PathSame
    <3>2. u \in ScanSet' BY <1>1, <1>15, ScanSame
    <3>3. read' - Len(held') + 1 = p + q + Len(m) BY <1>3, <1>5, <1>6, <1>7, <1>17
    <3> QED BY <1>16, <3>1, <3>2, <3>3 DEF AsFar
  <2>2. Told(u.delta, u.reasoning_delta)' BY <1>11, <1>16
  <2>3. out' \in Seq(WrittenSet) BY <1>4, <1>11 DEF Goes
  <2>4. hit' \in BOOLEAN BY <1>11 DEF FilterTyped
  <2>5. (textpc = "next" => ~hit)' /\ (textpc = "split" => ~found)' /\ (textpc = "tail" => hit)' BY <1>1, <2>4
  <2>6. (textpc \in {"next", "tail"} /\ ~found => Places(held, Markers) = {})'
    <3>1. held' = <<>> => Len(held') = 0 OBVIOUS
    <3>2. held' = <<>> => Places(held, Markers)' = {} BY <3>1 DEF Places
    <3>3. textpc' \in {"next", "tail"} /\ ~found' => held' = <<>> BY <1>1
    <3> QED BY <3>2, <3>3
  <2> QED BY <2>1, <2>2, <2>3, <2>5, <2>6 DEF Goes
<1> QED BY <1>11, <1>18, <1>19, <1>20 DEF TextInv

(* What may not become a marker is let out.                                *)
LEMMA SplitRestKeeps ==
  ASSUME TextInv, SplitRest
  PROVE  TextInv' /\ Len(out) <= Len(out') /\ \A k \in 1..Len(out) : out'[k] = out[k]
<1> DEFINE n == Safe(held, Markers)
           p == read - Len(held)
<1>1. /\ textpc = "split" /\ Places(held, Markers) = {} /\ held' = After(held, n + 1) /\ Show(SubSeq(held, 1, n))
      /\ textpc' = (IF hit' THEN "tail" ELSE "next") /\ UNCHANGED request /\ UNCHANGED <<read, thinking, found>>
  BY DEF SplitRest, Onward
<1>3. /\ text' = text /\ begins' = begins /\ tools' = tools /\ stop' = stop /\ read' = read
      /\ thinking' = thinking /\ found' = found
  BY <1>1 DEF request
<1>4. Typed /\ FilterTyped /\ Goes BY <1>1 DEF TextInv
<1>5. ~found /\ held \in Str /\ Len(held) \in Nat /\ read \in Nat /\ Len(held) <= read /\ read \in 0..Len(text)
  BY <1>1, <1>4 DEF Goes, Typed, Str
<1>6. Markers \in SUBSET AllMarkers /\ \A m \in Markers : m \in Str BY MarkersFine DEF Markers
<1>7. n \in 0..Len(held) /\ n + 1 \in 1..(Len(held) + 1)
  <2>1. n \in 0..Len(held) BY <1>5, HoldFacts DEF Str
  <2> QED BY <1>5, <2>1
<1>8. \A i \in 1..n : \A o \in Markers : Differs(o, held, i)
  <2>1. held \in Seq(Symbols) /\ \A o \in Markers : o \in Seq(Symbols) BY <1>5, <1>6 DEF Str
  <2> QED BY <1>1, <2>1, SafeDiffers
<1>9. PICK s : AsFar(s) /\ Told(s.delta, s.reasoning_delta) BY <1>4 DEF Goes
<1> HIDE DEF n
<1>91. PICK t : t = Along(s, held, n) OBVIOUS
<1>10. /\ t \in ScanSet /\ OnPath(t) /\ t.at = read - Len(held) + 1 + n /\ t.reasoning = thinking /\ t.found = FALSE
       /\ FilterTyped' /\ Told(t.delta, t.reasoning_delta)'
       /\ Len(out) <= Len(out') /\ (\A k \in 1..Len(out) : out'[k] = out[k])
       /\ (out \in Seq(WrittenSet) => out' \in Seq(WrittenSet))
  <2>1. \A k : k \in 0..Len(held) /\ (\A i \in 1..k : \A o \in Markers : Differs(o, held, i)) /\ t = Along(s, held, k) =>
        /\ t \in ScanSet /\ OnPath(t) /\ t.at = read - Len(held) + 1 + k /\ t.reasoning = thinking /\ t.found = FALSE
        /\ (UNCHANGED stop /\ Show(SubSeq(held, 1, k)) =>
              /\ FilterTyped' /\ Told(t.delta, t.reasoning_delta)'
              /\ Len(out) <= Len(out') /\ (\A i \in 1..Len(out) : out'[i] = out[i])
              /\ (out \in Seq(WrittenSet) => out' \in Seq(WrittenSet)))
    BY <1>4, <1>5, <1>9, ComesOut
  <2> QED BY <1>1, <1>3, <1>7, <1>8, <1>91, <2>1
<1>11. /\ held' \in Str /\ Len(held') = Len(held) - n /\ Len(held') <= read'
       /\ Within(held', text', read' - Len(held')) /\ Within(held', held, n)
  <2> DEFINE i == n + 1
  <2>1. i \in 1..(Len(held) + 1) /\ held' = After(held, i) BY <1>1, <1>7
  <2>2. i - 1 = n /\ Len(held) - i + 1 = Len(held) - n BY <1>5, <1>7
  <2> HIDE DEF i
  <2>3. /\ held' \in Str /\ Len(held') = Len(held) - i + 1 /\ Len(held') <= read'
        /\ Within(held', text', read' - Len(held')) /\ Within(held', held, i - 1)
    BY <1>3, <1>4, <1>5, <2>1, RestWithin
  <2> QED BY <2>2, <2>3
<1>12. hit' \in BOOLEAN BY <1>10 DEF FilterTyped
<1>13. textpc' \in {"next", "tail"} BY <1>1
<1>14. Typed'
  <2>1. (~found => Len(held) <= read /\ Within(held, text, read - Len(held)))' BY <1>11
  <2>2. (text \in Str /\ text \in Texts /\ stop \in Stops /\ tools \in BOOLEAN /\ begins \in BOOLEAN
           /\ thinking \in BOOLEAN /\ found \in BOOLEAN /\ read \in 0..Len(text))'
    BY <1>3, <1>4 DEF Typed
  <2> QED BY <1>11, <1>13, <2>1, <2>2 DEF Typed
<1>15. Goes'
  <2>1. AsFar(t)'
    <3>1. OnPath(t)' BY <1>1, <1>10, PathSame
    <3>2. t \in ScanSet' BY <1>1, <1>10, ScanSame
    <3>3. read' - Len(held') + 1 = t.at BY <1>3, <1>5, <1>7, <1>10, <1>11
    <3>4. found' = FALSE /\ thinking' = thinking
      <4>1. found \in BOOLEAN BY <1>4 DEF Typed
      <4> QED BY <1>3, <1>5, <4>1
    <3>5. t.found = found' /\ t.reasoning = thinking' BY <1>10, <3>4
    <3> QED BY <3>1, <3>2, <3>3, <3>5 DEF AsFar
  <2>2. Told(t.delta, t.reasoning_delta)' BY <1>10
  <2>3. out' \in Seq(WrittenSet) BY <1>4, <1>10 DEF Goes
  <2>4. (textpc = "next" => ~hit)' /\ (textpc = "tail" => hit)' /\ textpc' # "split" BY <1>1, <1>12
  <2>5. Places(held, Markers)' = {}
    <3>1. Markers' = Markers BY <1>3 DEF Markers, MarkersIn, Tools
    <3> SUFFICES ASSUME NEW i \in 1..Len(held'), NEW m \in Markers, At(m, held', i) PROVE FALSE
      <4>1. Places(held, Markers)' = {i \in 1..Len(held') : \E m \in Markers : At(m, held', i)}
        BY <3>1 DEF Places, At
      <4> QED BY <4>1
    <3>2. m \in Seq(Symbols) /\ held \in Seq(Symbols) /\ held' \in Seq(Symbols) /\ i \in Nat \ {0}
          /\ n \in Nat /\ i + Len(m) - 1 <= Len(held') /\ n + i \in 1..Len(held)
      BY <1>5, <1>6, <1>7, <1>11 DEF Str, At
    <3> DEFINE g == held'
    <3>3. g \in Seq(Symbols) /\ Within(g, held, n) /\ i + Len(m) - 1 <= Len(g) /\ At(m, g, i) BY <1>11, <3>2
    <3> HIDE DEF g
    <3>4. At(m, held, n + i) BY <3>2, <3>3, AtStays
    <3> QED BY <1>1, <3>2, <3>4 DEF Places
  <2> QED BY <2>1, <2>2, <2>3, <2>4, <2>5 DEF Goes
<1> QED BY <1>10, <1>13, <1>14, <1>15 DEF TextInv
-----------------------------------------------------------------------------
(* Events, and the content and the reasoning in them.                      *)
Reads(o, d, r) ==
  /\ o \in Seq(OutSet) /\ Bodies(o, {"delta"}) = d /\ Bodies(o, {"reasoning_delta"}) = r /\ d \in Str /\ r \in Str

(* What events are read as,                                                *)
LEMMA ReadsSome ==
  ASSUME NEW o \in Seq(OutSet)
  PROVE  Reads(o, Bodies(o, {"delta"}), Bodies(o, {"reasoning_delta"}))
<1>1. Bodied(OutSet, {"delta"}, Symbols) /\ Bodied(OutSet, {"reasoning_delta"}, Symbols)
  <2>1. \A e \in OutSet : e.type \in {"delta", "reasoning_delta"} => e \in WrittenSet
    BY DEF OutSet, CallEvents, LastSet
  <2> QED BY <2>1 DEF Bodied, WrittenSet, Str
<1>2. Bodies(o, {"delta"}) \in Seq(Symbols)
  <2> DEFINE ts == {"delta"}
  <2>1. Bodied(OutSet, ts, Symbols) BY <1>1
  <2> HIDE DEF ts
  <2>2. Bodies(o, ts) \in Seq(Symbols) BY <2>1, BodiesFacts
  <2> QED BY <2>2 DEF ts
<1>3. Bodies(o, {"reasoning_delta"}) \in Seq(Symbols)
  <2> DEFINE ts == {"reasoning_delta"}
  <2>1. Bodied(OutSet, ts, Symbols) BY <1>1
  <2> HIDE DEF ts
  <2>2. Bodies(o, ts) \in Seq(Symbols) BY <2>1, BodiesFacts
  <2> QED BY <2>2 DEF ts
<1> QED BY <1>2, <1>3 DEF Reads, Str

(* and with one more.                                                      *)
LEMMA ReadsOne ==
  ASSUME NEW o, NEW d, NEW r, Reads(o, d, r), NEW e \in OutSet
  PROVE  Reads(Append(o, e), IF e.type = "delta" THEN d \o e.body ELSE d,
               IF e.type = "reasoning_delta" THEN r \o e.body ELSE r)
<1>0. o \in Seq(OutSet) /\ Bodies(o, {"delta"}) = d /\ Bodies(o, {"reasoning_delta"}) = r /\ d \in Str /\ r \in Str
  BY DEF Reads
<1>1. Bodied(OutSet, {"delta"}, Symbols) /\ Bodied(OutSet, {"reasoning_delta"}, Symbols)
  <2>1. \A f \in OutSet : f.type \in {"delta", "reasoning_delta"} => f \in WrittenSet
    BY DEF OutSet, CallEvents, LastSet
  <2> QED BY <2>1 DEF Bodied, WrittenSet, Str
<1>2. e.type \in {"delta", "reasoning_delta"} => e.body \in Str
  <2>1. e.type \in {"delta", "reasoning_delta"} => e \in WrittenSet BY DEF OutSet, CallEvents, LastSet
  <2> QED BY <2>1 DEF WrittenSet
<1>3. Bodies(Append(o, e), {"delta"}) = IF e.type = "delta" THEN d \o e.body ELSE d
  <2> DEFINE ts == {"delta"}
  <2>1. Bodied(OutSet, ts, Symbols) BY <1>1
  <2> HIDE DEF ts
  <2>2. \A f \in OutSet : Bodies(Append(o, f), ts) = Bodies(o, ts) \o IF f.type \in ts THEN f.body ELSE <<>>
    <3>1. o \in Seq(OutSet) BY <1>0
    <3>2. /\ Bodies(o, ts) \in Seq(Symbols) /\ (o = <<>> => Bodies(o, ts) = <<>>)
          /\ \A f \in OutSet : Bodies(Append(o, f), ts) = Bodies(o, ts) \o IF f.type \in ts THEN f.body ELSE <<>>
      BY <2>1, <3>1, BodiesFacts
    <3> QED BY <3>2
  <2>3. d \o <<>> = d BY <1>0, StrFacts
  <2> QED BY <1>0, <2>2, <2>3 DEF ts
<1>4. Bodies(Append(o, e), {"reasoning_delta"}) = IF e.type = "reasoning_delta" THEN r \o e.body ELSE r
  <2> DEFINE ts == {"reasoning_delta"}
  <2>1. Bodied(OutSet, ts, Symbols) BY <1>1
  <2> HIDE DEF ts
  <2>2. \A f \in OutSet : Bodies(Append(o, f), ts) = Bodies(o, ts) \o IF f.type \in ts THEN f.body ELSE <<>>
    <3>1. o \in Seq(OutSet) BY <1>0
    <3>2. /\ Bodies(o, ts) \in Seq(Symbols) /\ (o = <<>> => Bodies(o, ts) = <<>>)
          /\ \A f \in OutSet : Bodies(Append(o, f), ts) = Bodies(o, ts) \o IF f.type \in ts THEN f.body ELSE <<>>
      BY <2>1, <3>1, BodiesFacts
    <3> QED BY <3>2
  <2>3. r \o <<>> = r BY <1>0, StrFacts
  <2> QED BY <1>0, <2>2, <2>3 DEF ts
<1>5. Append(o, e) \in Seq(OutSet) BY <1>0
<1>6. (IF e.type = "delta" THEN d \o e.body ELSE d) \in Str BY <1>0, <1>2, StrFacts
<1>7. (IF e.type = "reasoning_delta" THEN r \o e.body ELSE r) \in Str BY <1>0, <1>2, StrFacts
<1> QED BY <1>3, <1>4, <1>5, <1>6, <1>7 DEF Reads

(* Whether a reply's last event, and only that, is an ending.              *)
Closes(o) ==
  /\ o \in Seq(OutSet) /\ Len(o) > 0 /\ o[Len(o)] \in LastSet
  /\ \A k \in 1..(Len(o) - 1) : o[k] \notin LastSet
  /\ \A k \in 1..(Len(o) - 2) : o[k] \in WrittenSet
(* An ending after other events closes the reply.                          *)
LEMMA ClosedBy ==
  ASSUME NEW o \in Seq(WrittenSet \cup CallEvents), \A k \in 1..(Len(o) - 1) : o[k] \in WrittenSet, NEW e \in LastSet
  PROVE  Closes(Append(o, e)) /\ Append(o, e)[Len(o) + 1] = e /\ Len(Append(o, e)) = Len(o) + 1
<1>1. Len(o) \in Nat /\ \A k \in 1..Len(o) : o[k] \in WrittenSet \cup CallEvents OBVIOUS
<1>2. \A f \in WrittenSet \cup CallEvents : f \notin LastSet BY DEF WrittenSet, CallEvents, LastSet
<1>3. Append(o, e) \in Seq(OutSet)
  <2>1. WrittenSet \cup CallEvents \subseteq OutSet /\ e \in OutSet BY DEF OutSet
  <2>2. o \in Seq(OutSet) BY <1>1, <2>1
  <2> QED BY <2>1, <2>2
<1>4. /\ Len(Append(o, e)) = Len(o) + 1 /\ Append(o, e)[Len(o) + 1] = e
      /\ \A k \in 1..Len(o) : Append(o, e)[k] = o[k]
  OBVIOUS
<1>5. Len(o) + 1 > 0 /\ (Len(o) + 1) - 1 = Len(o) /\ (Len(o) + 1) - 2 = Len(o) - 1 BY <1>1
<1>50. \A k \in 1..(Len(o) - 1) : k \in 1..Len(o) BY <1>1
<1>6. Closes(Append(o, e)) BY <1>1, <1>2, <1>3, <1>4, <1>5, <1>50 DEF Closes
<1> QED BY <1>4, <1>6

(* Without a stop sequence, the text in one piece at the end of the text.  *)
LEMMA WholeText ==
  ASSUME Typed, FilterTyped, Goes, textpc = "tail", ~hit
  PROVE  /\ ~found => Scan.delta = (ToldText \o kept) \o (IF thinking THEN <<>> ELSE held)
                      /\ Scan.reasoning_delta = ToldThought \o (IF thinking THEN held ELSE <<>>)
         /\ found => Scan.delta = ToldText \o kept /\ Scan.reasoning_delta = ToldThought
<1>1. PICK s : AsFar(s) /\ Told(s.delta, s.reasoning_delta) BY DEF Goes
<1>2. /\ text \in Str /\ held \in Str /\ Len(text) \in Nat /\ Len(held) \in Nat /\ read = Len(text)
      /\ thinking \in BOOLEAN
  BY DEF Typed, Goes, Str
<1>3. s.delta = ToldText \o kept /\ s.reasoning_delta = ToldThought /\ s.delta \in Str /\ s.reasoning_delta \in Str
  BY <1>1 DEF Told, FilterTyped
<1>4. s \in ScanSet /\ OnPath(s) /\ s.found = found /\ s.reasoning = thinking BY <1>1 DEF AsFar
<1>5. CASE found
  <2>1. Scan = s BY <1>2, <1>4, <1>5, PathEnds
  <2> QED BY <1>3, <1>5, <2>1
<1>6. CASE ~found
  <2> DEFINE p == read - Len(held)
             h == held
             n == Len(h)
  <2>1. s.at = p + 1 /\ Within(held, text, p) /\ Len(held) <= read /\ p \in Nat /\ s.at - 1 = p
    BY <1>1, <1>2, <1>6 DEF AsFar, Typed
  <2>2. ASSUME NEW i \in 1..n, NEW m \in MarkersIn(s.reasoning), At(m, text, (s.at - 1) + i) PROVE FALSE
    <3>1. m \in Str /\ Len(m) \in Nat /\ m \in Markers BY <1>4, MarkersFine DEF Str, Markers
    <3>2. (p + i) + Len(m) - 1 <= Len(text) BY <2>1, <2>2 DEF At
    <3>3. i + Len(m) - 1 <= Len(held) /\ i \in Nat \ {0} BY <1>2, <2>1, <3>1, <3>2
    <3>4. held \in Seq(Symbols) /\ text \in Seq(Symbols) /\ m \in Seq(Symbols) BY <1>2, <3>1 DEF Str
    <3>5. At(m, text, p + i) BY <2>1, <2>2
    <3> HIDE DEF p
    <3>6. At(m, held, i) BY <2>1, <3>3, <3>4, <3>5, AtStays
    <3>7. i \in Places(held, Markers) BY <3>1, <3>6 DEF Places
    <3> QED BY <1>6, <3>7 DEF Goes
  <2>3. h \in Str /\ Within(h, text, s.at - 1) /\ n \in 0..Len(h) BY <1>2, <2>1
  <2>4. ~s.found BY <1>4, <1>6
  <2> DEFINE t == Along(s, h, n)
  <2>5. t \in ScanSet /\ OnPath(t)
    <3> HIDE DEF h, n
    <3>1. \A i \in 1..n : \A m \in MarkersIn(s.reasoning) : ~At(m, text, (s.at - 1) + i) BY <2>2
    <3> QED BY <1>2, <1>4, <2>3, <2>4, <3>1, Walks
  <2>6. SubSeq(h, 1, n) = h BY <2>3, FirstSymbols
  <2>7. /\ t.at = s.at + n
        /\ t.delta = (IF s.reasoning THEN s.delta ELSE s.delta \o SubSeq(h, 1, n))
        /\ t.reasoning_delta = (IF s.reasoning THEN s.reasoning_delta \o SubSeq(h, 1, n) ELSE s.reasoning_delta)
    BY DEF Along
  <2>8. s.at + n > Len(text) BY <1>2, <2>1
  <2> HIDE DEF t, h, n
  <2>9. Scan = t BY <1>2, <2>5, <2>7, <2>8, PathEnds
  <2>10. s.delta \o <<>> = s.delta /\ s.reasoning_delta \o <<>> = s.reasoning_delta BY <1>3, StrFacts
  <2>11. Scan.delta = s.delta \o (IF thinking THEN <<>> ELSE h)
         /\ Scan.reasoning_delta = s.reasoning_delta \o (IF thinking THEN h ELSE <<>>)
    BY <1>2, <1>4, <2>6, <2>7, <2>9, <2>10
  <2> QED BY <1>3, <1>6, <2>11 DEF h
<1> QED BY <1>2, <1>5, <1>6

(* The end of the reply: both filters give up what they held.              *)
LEMMA FinishKeeps ==
  ASSUME TextInv, Finish
  PROVE  TextInv' /\ Len(out) <= Len(out') /\ \A k \in 1..Len(out) : out'[k] = out[k]
<1>1. /\ textpc = "tail" /\ textpc' = "over" /\ held' = <<>> /\ kept' = <<>> /\ UNCHANGED request
      /\ UNCHANGED <<read, thinking, found, hit, muted>>
  BY DEF Finish
<1>2. PICK calls \in Parses \cup {<<>>} : out' = out \o Flushed \o Verdict(calls) BY DEF Finish
<1>3. /\ text' = text /\ begins' = begins /\ tools' = tools /\ stop' = stop /\ read' = read
      /\ thinking' = thinking /\ found' = found /\ hit' = hit /\ muted' = muted
  BY <1>1 DEF request
<1>4. Typed /\ FilterTyped /\ Goes BY <1>1 DEF TextInv
<1>5. /\ kept \in Str /\ held \in Str /\ out \in Seq(OutSet) /\ out \in Seq(WrittenSet) /\ hit \in BOOLEAN
      /\ thinking \in BOOLEAN /\ found \in BOOLEAN
  BY <1>4 DEF Typed, FilterTyped, Goes
<1>6. PICK w, v, o0 : w = ToldText /\ v = ToldThought /\ o0 = out OBVIOUS
<1>7. Reads(o0, w, v) /\ o0 \in Seq(WrittenSet) BY <1>5, <1>6, ReadsSome DEF ToldText, ToldThought
<1>8. w \in Str /\ v \in Str BY <1>7 DEF Reads
<1> DEFINE A == IF kept = <<>> \/ hit THEN <<>> ELSE <<Event("delta", kept)>>
           B == IF held = <<>> \/ found THEN <<>> ELSE <<Event(Kind, held)>>
           C == Verdict(calls)
<1>9. PICK o1 : o1 = o0 \o A OBVIOUS
<1>10. PICK o2 : o2 = o1 \o B OBVIOUS
<1>11. o1 \in Seq(WrittenSet) /\ Reads(o1, IF hit THEN w ELSE w \o kept, v)
       /\ Len(o0) <= Len(o1) /\ \A k \in 1..Len(o0) : o1[k] = o0[k]
  <2>1. CASE kept = <<>> \/ hit
    <3>1. o1 = o0 BY <1>7, <1>9, <2>1
    <3>2. w \o <<>> = w BY <1>8, StrFacts
    <3>3. (IF hit THEN w ELSE w \o kept) = w BY <2>1, <3>2
    <3>4. Len(o0) <= Len(o0) BY <1>7
    <3> QED BY <1>7, <3>1, <3>3, <3>4
  <2>2. CASE ~(kept = <<>> \/ hit)
    <3> DEFINE e == Event("delta", kept)
    <3>1. e \in WrittenSet /\ e \in OutSet /\ e.type = "delta" /\ e.body = kept
      BY <1>5 DEF Event, WrittenSet, OutSet
    <3>2. o1 = o0 \o <<e>> BY <1>9, <2>2
    <3> HIDE DEF e
    <3>3. o1 = Append(o0, e) BY <1>7, <3>1, <3>2
    <3>4. o1 \in Seq(WrittenSet) /\ Len(o0) <= Len(o1) /\ \A k \in 1..Len(o0) : o1[k] = o0[k] BY <1>7, <3>1, <3>3
    <3>5. Reads(o1, IF e.type = "delta" THEN w \o e.body ELSE w, IF e.type = "reasoning_delta" THEN v \o e.body ELSE v)
      BY <1>7, <3>1, <3>3, ReadsOne
    <3>6. Reads(o1, w \o kept, v) BY <3>1, <3>5
    <3> QED BY <2>2, <3>4, <3>6
  <2> QED BY <2>1, <2>2
<1>12. PICK w1 : w1 = IF hit THEN w ELSE w \o kept OBVIOUS
<1>13. w1 \in Str /\ Reads(o1, w1, v) BY <1>11, <1>12 DEF Reads
<1>14. PICK w2, v2 : /\ w2 = IF found \/ thinking THEN w1 ELSE w1 \o held
                     /\ v2 = IF found \/ ~thinking THEN v ELSE v \o held
  OBVIOUS
<1>15. o2 \in Seq(WrittenSet) /\ Reads(o2, w2, v2) /\ Len(o1) <= Len(o2) /\ \A k \in 1..Len(o1) : o2[k] = o1[k]
  <2>1. CASE held = <<>> \/ found
    <3>1. o2 = o1 BY <1>10, <1>11, <2>1
    <3>2. w1 \o <<>> = w1 /\ v \o <<>> = v BY <1>8, <1>13, StrFacts
    <3>3. w2 = w1 /\ v2 = v BY <1>14, <2>1, <3>2
    <3>4. Len(o1) <= Len(o1) BY <1>11
    <3> QED BY <1>11, <1>13, <3>1, <3>3, <3>4
  <2>2. CASE ~(held = <<>> \/ found)
    <3> DEFINE e == Event(Kind, held)
    <3>1. e \in WrittenSet /\ e \in OutSet /\ e.type = (IF thinking THEN "reasoning_delta" ELSE "delta") /\ e.body = held
      <4>1. Kind \in {"reasoning_delta", "delta"} BY DEF Kind
      <4> QED BY <1>5, <4>1 DEF Event, WrittenSet, OutSet, Kind
    <3>2. o2 = o1 \o <<e>> BY <1>10, <2>2
    <3> HIDE DEF e
    <3>3. o2 = Append(o1, e) BY <1>11, <3>1, <3>2
    <3>4. o2 \in Seq(WrittenSet) /\ Len(o1) <= Len(o2) /\ \A k \in 1..Len(o1) : o2[k] = o1[k] BY <1>11, <3>1, <3>3
    <3>5. Reads(o2, IF e.type = "delta" THEN w1 \o e.body ELSE w1, IF e.type = "reasoning_delta" THEN v \o e.body ELSE v)
      BY <1>13, <3>1, <3>3, ReadsOne
    <3>6. CASE thinking BY <1>14, <2>2, <3>1, <3>4, <3>5, <3>6
    <3>7. CASE ~thinking BY <1>14, <2>2, <3>1, <3>4, <3>5, <3>7
    <3> QED BY <3>6, <3>7
  <2> QED BY <2>1, <2>2
<1>16. out' = o2 \o C
  <2>1. A \in Seq(WrittenSet) /\ B \in Seq(WrittenSet)
    <3>1. Event("delta", kept) \in WrittenSet /\ Event(Kind, held) \in WrittenSet
      <4>1. Kind \in {"reasoning_delta", "delta"} BY DEF Kind
      <4> QED BY <1>5, <4>1 DEF Event, WrittenSet
    <3> QED BY <3>1
  <2>2. Flushed = A \o B BY DEF Flushed
  <2> HIDE DEF A, B, C
  <2>3. (o0 \o A) \o B = o0 \o (A \o B) BY <1>7, <2>1, ConcatAssociative
  <2> QED BY <1>2, <1>6, <1>9, <1>10, <2>2, <2>3 DEF C
<1>17. PICK o3 \in Seq(WrittenSet \cup CallEvents), e \in LastSet :
         /\ out' = Append(o3, e) /\ Reads(o3, w2, v2) /\ Len(o2) <= Len(o3) /\ \A k \in 1..Len(o2) : o3[k] = o2[k]
         /\ \A k \in 1..(Len(o3) - 1) : o3[k] \in WrittenSet
  <2>1. CASE calls # <<>>
    <3> DEFINE c == Event("tool_calls", calls)
               f == Completed("tool_calls")
    <3>1. c \in CallEvents /\ c \in OutSet /\ c.type = "tool_calls" BY <1>2, <2>1 DEF Event, CallEvents, OutSet
    <3>2. f \in LastSet BY <1>5 DEF Completed, Event, LastSet, Finishes
    <3>3. C = <<c, f>> BY <2>1 DEF Verdict
    <3> HIDE DEF c, f
    <3>4. out' = Append(Append(o2, c), f) BY <1>15, <1>16, <3>3
    <3>5. Append(o2, c) \in Seq(WrittenSet \cup CallEvents) /\ Len(o2) <= Len(Append(o2, c))
          /\ \A k \in 1..Len(o2) : Append(o2, c)[k] = o2[k]
      BY <1>15, <3>1
    <3>6. Reads(Append(o2, c), w2, v2) BY <1>15, <3>1, ReadsOne
    <3>7. Len(Append(o2, c)) - 1 = Len(o2) /\ \A k \in 1..Len(o2) : o2[k] \in WrittenSet BY <1>15
    <3>8. \A k \in 1..(Len(Append(o2, c)) - 1) : Append(o2, c)[k] \in WrittenSet BY <3>5, <3>7
    <3> QED BY <3>2, <3>4, <3>5, <3>6, <3>8
  <2>2. CASE calls = <<>>
    <3>1. PICK f \in LastSet : C = <<f>>
      <4>1. Event("error", <<>>) \in LastSet BY DEF Event, LastSet
      <4>2. Completed("stop") \in LastSet BY <1>5 DEF Completed, Event, LastSet, Finishes
      <4>3. C = <<Event("error", <<>>)>> \/ C = <<Completed("stop")>> BY <2>2 DEF Verdict
      <4> QED BY <4>1, <4>2, <4>3
    <3>2. out' = Append(o2, f) BY <1>15, <1>16, <3>1
    <3>3. o2 \in Seq(WrittenSet \cup CallEvents) /\ Len(o2) <= Len(o2) BY <1>15
    <3>4. \A k \in 1..(Len(o2) - 1) : o2[k] \in WrittenSet BY <1>15
    <3> QED BY <1>15, <3>1, <3>2, <3>3, <3>4
  <2> QED BY <2>1, <2>2
<1>18. Closes(out') /\ Reads(out', w2, v2)
  <2>1. Closes(out') BY <1>17, ClosedBy
  <2>2. e \in OutSet /\ e.type \notin {"delta", "reasoning_delta"} BY <1>17 DEF OutSet, LastSet
  <2>3. Reads(Append(o3, e), w2, v2) BY <1>17, <2>2, ReadsOne
  <2> QED BY <1>17, <2>1, <2>3
<1>19. Len(out) <= Len(out') /\ \A k \in 1..Len(out) : out'[k] = out[k]
  <2>1. Len(o0) \in Nat /\ Len(o1) \in Nat /\ Len(o2) \in Nat /\ Len(o3) \in Nat BY <1>7, <1>11, <1>15, <1>17
  <2>2. Len(out') = Len(o3) + 1 /\ \A k \in 1..Len(o3) : out'[k] = o3[k] BY <1>17
  <2>3. Len(o0) <= Len(out') BY <1>11, <1>15, <1>17, <2>1, <2>2
  <2>4. ASSUME NEW k \in 1..Len(o0) PROVE out'[k] = o0[k]
    <3>1. k \in 1..Len(o1) /\ k \in 1..Len(o2) /\ k \in 1..Len(o3) BY <1>11, <1>15, <1>17, <2>1
    <3> QED BY <1>11, <1>15, <1>17, <2>2, <3>1
  <2> QED BY <1>6, <2>3, <2>4
<1>20. ToldText' = w2 /\ ToldThought' = v2 BY <1>18 DEF Reads, ToldText, ToldThought
<1>21. ASSUME ~hit PROVE Scan.delta = w2 /\ Scan.reasoning_delta = v2
  <2>1. w1 = w \o kept BY <1>12, <1>21
  <2>2. CASE found
    <3>1. Scan.delta = ToldText \o kept /\ Scan.reasoning_delta = ToldThought BY <1>1, <1>4, <1>21, <2>2, WholeText
    <3> QED BY <1>6, <1>14, <2>1, <2>2, <3>1
  <2>3. CASE ~found
    <3>1. Scan.delta = (ToldText \o kept) \o (IF thinking THEN <<>> ELSE held)
          /\ Scan.reasoning_delta = ToldThought \o (IF thinking THEN held ELSE <<>>)
      BY <1>1, <1>4, <1>21, <2>3, WholeText
    <3>2. w1 \o <<>> = w1 /\ v \o <<>> = v BY <1>8, <1>13, StrFacts
    <3> QED BY <1>6, <1>14, <2>1, <2>3, <3>1, <3>2
  <2> QED BY <2>2, <2>3
<1>22. Typed'
  <2>1. held' \in Str /\ Len(held') = 0 BY <1>1, StrFacts
  <2>2. read' \in 0..Len(text') /\ text' \in Str BY <1>3, <1>4 DEF Typed
  <2>3. Len(held') <= read' /\ read' - Len(held') = read'
    <3>1. \A a, b : a \in Nat /\ b = 0 => b <= a /\ a - b = a OBVIOUS
    <3>2. read' \in Nat BY <2>2 DEF Str
    <3> QED BY <2>1, <3>1, <3>2
  <2>4. Within(held', text', read')
    <3>1. read' + 0 <= Len(text') BY <2>2 DEF Str
    <3>2. 1..0 = {} OBVIOUS
    <3> QED BY <2>1, <3>1, <3>2 DEF Within
  <2>5. (text \in Texts /\ stop \in Stops /\ tools \in BOOLEAN /\ begins \in BOOLEAN
           /\ thinking \in BOOLEAN /\ found \in BOOLEAN)'
    BY <1>3, <1>4 DEF Typed
  <2> QED BY <1>1, <2>1, <2>2, <2>3, <2>4, <2>5 DEF Typed
<1>23. FilterTyped'
  <2>1. out' \in Seq(OutSet) BY <1>18 DEF Reads
  <2> QED BY <1>1, <1>3, <1>4, <2>1, StrFacts DEF FilterTyped
<1>24. Scan' = Scan BY <1>1, ScanSame
<1>25. IsOver'
  <2>1. (~hit => \E a \in Str : Scan.reasoning_delta = ToldThought \o a)'
    <3>1. v2 \o <<>> = v2 /\ <<>> \in Str BY <1>18, StrFacts DEF Reads
    <3> QED BY <1>3, <1>20, <1>21, <1>24, <3>1
  <2>2. (~hit /\ Ended => ToldText = Scan.delta /\ ToldThought = Scan.reasoning_delta)'
    BY <1>3, <1>20, <1>21, <1>24
  <2> QED BY <1>18, <2>1, <2>2 DEF IsOver, Closes
<1> QED BY <1>1, <1>19, <1>22, <1>23, <1>25 DEF TextInv

(* A cancel or a guard ends it between two chunks.                         *)
LEMMA InterruptedKeeps ==
  ASSUME TextInv, Interrupted
  PROVE  TextInv' /\ Len(out) <= Len(out') /\ \A k \in 1..Len(out) : out'[k] = out[k]
<1>1. /\ textpc = "next" /\ textpc' = "over" /\ UNCHANGED request
      /\ UNCHANGED <<read, held, thinking, found, kept, hit, muted>>
  BY DEF Interrupted
<1>2. PICK e \in {Cancelled, Event("error", <<>>)} : out' = Append(out, e) BY DEF Interrupted
<1>3. /\ text' = text /\ begins' = begins /\ tools' = tools /\ stop' = stop /\ read' = read /\ held' = held
      /\ thinking' = thinking /\ found' = found /\ hit' = hit /\ muted' = muted /\ kept' = kept
  BY <1>1 DEF request
<1>4. Typed /\ FilterTyped /\ Goes BY <1>1 DEF TextInv
<1>5. /\ out \in Seq(OutSet) /\ out \in Seq(WrittenSet \cup CallEvents) /\ text \in Str /\ ~hit /\ ~muted
      /\ Len(out) \in Nat /\ \A k \in 1..(Len(out) - 1) : out[k] \in WrittenSet
  <2>1. out \in Seq(WrittenSet) /\ ~hit BY <1>1, <1>4 DEF Goes
  <2> QED BY <1>4, <2>1 DEF Typed, FilterTyped
<1>6. e \in LastSet /\ e \in OutSet /\ e.type \in {"completed", "error"}
      /\ (e = Cancelled \/ e.type = "error")
  <2>1. CASE e = Cancelled
    <3>1. e = [type |-> "completed", body |-> [finish |-> "cancelled", matched |-> FALSE]]
      BY <2>1, Zenon DEF Cancelled, Event
    <3>2. [finish |-> "cancelled", matched |-> FALSE] \in [finish : Finishes, matched : BOOLEAN] BY DEF Finishes
    <3>3. e \in LastSet BY <3>1, <3>2 DEF LastSet
    <3>4. e.type = "completed" BY <3>1
    <3> QED BY <2>1, <3>3, <3>4 DEF OutSet
  <2>2. CASE e = Event("error", <<>>)
    <3>1. e = [type |-> "error", body |-> <<>>] BY <2>2, Zenon DEF Event
    <3>2. e \in LastSet BY <3>1 DEF LastSet
    <3> QED BY <3>1, <3>2 DEF OutSet
  <2> QED BY <1>2, <2>1, <2>2
<1>7. Closes(out') /\ out'[Len(out) + 1] = e /\ Len(out') = Len(out) + 1 BY <1>2, <1>5, <1>6, ClosedBy
<1>8. Len(out) <= Len(out') /\ \A k \in 1..Len(out) : out'[k] = out[k] BY <1>2, <1>5
<1>9. PICK w, v, o : w = ToldText /\ v = ToldThought /\ o = out OBVIOUS
<1>10. Reads(o, w, v) BY <1>5, <1>9, ReadsSome DEF ToldText, ToldThought
<1>11. Reads(Append(o, e), w, v) BY <1>6, <1>10, ReadsOne
<1>12. ToldThought' = v BY <1>2, <1>9, <1>11 DEF Reads, ToldThought
<1>13. PICK s : AsFar(s) /\ Told(s.delta, s.reasoning_delta) BY <1>4 DEF Goes
<1>14. s.reasoning_delta = v BY <1>5, <1>9, <1>13 DEF Told
<1>15. \E a \in Str : Scan.reasoning_delta = v \o a BY <1>5, <1>13, <1>14, PathEnds DEF AsFar
<1>16. Scan' = Scan BY <1>1, ScanSame
<1>17. ~Ended'
  <2>1. Len(out) + 1 \in DOMAIN out'
    <3>1. out' \in Seq(OutSet) BY <1>7 DEF Closes
    <3>2. DOMAIN out' = 1..Len(out') BY <3>1
    <3>3. Len(out) + 1 \in 1..(Len(out) + 1) BY <1>5
    <3> QED BY <1>7, <3>2, <3>3
  <2>2. Cancelled' = Cancelled BY DEF Cancelled, Event
  <2> QED BY <1>6, <1>7, <2>1, <2>2 DEF Ended
<1>18. Typed' BY <1>1, <1>3, <1>4 DEF Typed, Within
<1>19. FilterTyped'
  <2>1. out' \in Seq(OutSet) BY <1>7 DEF Closes
  <2> QED BY <1>3, <1>4, <2>1 DEF FilterTyped
<1>20. IsOver' BY <1>7, <1>12, <1>15, <1>16, <1>17 DEF IsOver, Closes
<1> QED BY <1>1, <1>8, <1>18, <1>19, <1>20 DEF TextInv
-----------------------------------------------------------------------------
(* A sequence is a prefix of one that has its elements,                    *)
LEMMA PrefixIs ==
  ASSUME NEW x \in Str, NEW y \in Str, Len(x) <= Len(y), \A k \in 1..Len(x) : x[k] = y[k]
  PROVE  IsPrefix(x, y)
<1> DEFINE n == Len(x)
<1>1. n \in Nat /\ Len(y) \in Nat BY DEF Str
<1>2. SubSeq(x, 1, n) \in Seq(Symbols) /\ Len(SubSeq(x, 1, n)) = n /\ \A k \in 1..n : SubSeq(x, 1, n)[k] = x[k]
  BY <1>1 DEF Str
<1>3. SubSeq(y, 1, n) \in Seq(Symbols) /\ Len(SubSeq(y, 1, n)) = n /\ \A k \in 1..n : SubSeq(y, 1, n)[k] = y[k]
  BY <1>1 DEF Str
<1>4. SubSeq(x, 1, n) = SubSeq(y, 1, n) BY <1>2, <1>3, SeqEqual
<1> QED BY <1>4 DEF IsPrefix

(* so of what goes on with it.                                             *)
LEMMA PrefixOfJoin == ASSUME NEW x \in Str, NEW a \in Str, NEW y, y = x \o a PROVE IsPrefix(x, y)
<1>1. Within(x, x \o a, 0) /\ x \o a \in Str /\ Len(x \o a) = Len(x) + Len(a) /\ Len(x) \in Nat /\ Len(a) \in Nat
  BY JoinedWithin
<1>2. \A k \in 1..Len(x) : 0 + k = k /\ x[k] = y[k] BY <1>1 DEF Within
<1>3. Len(x) <= Len(y) BY <1>1
<1> QED BY <1>1, <1>2, <1>3, PrefixIs

(* What is at the end of the first symbols of the text is a suffix of them. *)
LEMMA SuffixIs ==
  ASSUME NEW h \in Str, NEW t \in Str, NEW r \in 0..Len(t), Len(h) <= r, Within(h, t, r - Len(h))
  PROVE  IsSuffix(h, SubSeq(t, 1, r))
<1> DEFINE u == SubSeq(t, 1, r)
           a == Reverse(h)
           b == Reverse(u)
           p == r - Len(h)
<1>1. Len(h) \in Nat /\ Len(t) \in Nat /\ r \in Nat /\ p \in Nat BY DEF Str
<1>2. u \in Str /\ Len(u) = r /\ \A i \in 1..r : u[i] = t[i] BY FirstSymbols
<1>20. /\ \A i \in 1..Len(h) : h[i] \in Symbols
       /\ \A i \in 1..r : u[i] \in Symbols
  BY <1>2 DEF Str
<1> HIDE DEF u
<1>3. a \in Str /\ Len(a) = Len(h) /\ \A i \in 1..Len(h) : a[i] = h[(Len(h) - i) + 1]
  <2>1. \A i \in 1..Len(h) : (Len(h) - i) + 1 \in 1..Len(h) BY <1>1
  <2>2. a \in [1..Len(h) -> Symbols] /\ \A i \in 1..Len(h) : a[i] = h[(Len(h) - i) + 1]
    BY <1>20, <2>1 DEF Reverse
  <2> HIDE DEF a
  <2> QED BY <1>1, <2>2, SeqFrom DEF Str
<1>4. b \in Str /\ Len(b) = r /\ \A i \in 1..r : b[i] = u[(r - i) + 1]
  <2>1. \A i \in 1..r : (r - i) + 1 \in 1..r BY <1>1
  <2>2. b \in [1..r -> Symbols] /\ \A i \in 1..r : b[i] = u[(r - i) + 1] BY <1>2, <1>20, <2>1 DEF Reverse
  <2> HIDE DEF b
  <2> QED BY <1>1, <2>2, SeqFrom DEF Str
<1> HIDE DEF a, b
<1>5. \A i \in 1..Len(h) : a[i] = b[i]
  <2> TAKE i \in 1..Len(h)
  <2> DEFINE k == (Len(h) - i) + 1
  <2>1. k \in 1..Len(h) /\ i \in 1..r /\ (r - i) + 1 = p + k /\ p + k \in 1..r BY <1>1
  <2>2. t[p + k] = h[k] BY <2>1 DEF Within
  <2>3. b[i] = t[p + k] BY <1>2, <1>4, <2>1
  <2> QED BY <1>3, <2>2, <2>3
<1>6. IsPrefix(a, b) BY <1>3, <1>4, <1>5, PrefixIs
<1> QED BY <1>6 DEF IsSuffix, a, b, u

(* The filters' fields have the shapes the code gives them.                *)
LEMMA TextTyped == TextInv => TextTypeOK
<1> SUFFICES ASSUME TextInv PROVE TextTypeOK OBVIOUS
<1>1. Typed /\ FilterTyped BY DEF TextInv
<1>2. ~found => IsSuffix(held, SubSeq(text, 1, read))
  <2> SUFFICES ASSUME ~found PROVE IsSuffix(held, SubSeq(text, 1, read)) OBVIOUS
  <2> DEFINE h == held
             t == text
             r == read
  <2>1. h \in Str /\ t \in Str /\ r \in 0..Len(t) /\ Len(h) <= r /\ Within(h, t, r - Len(h)) BY <1>1 DEF Typed
  <2> HIDE DEF h, t, r
  <2>2. IsSuffix(h, SubSeq(t, 1, r)) BY <2>1, SuffixIs
  <2> QED BY <2>2 DEF h, t, r
<1>3. Len(kept) < Max({1, Len(stop)})
  <2> DEFINE n == Len(stop)
             s == {1, n}
  <2>1. n \in Nat /\ Len(kept) \in Nat BY <1>1 DEF FilterTyped, Str
  <2>2. s \in SUBSET (0..(n + 1)) /\ s # {} /\ n + 1 \in Nat BY <2>1
  <2>3. 1 \in s /\ n \in s OBVIOUS
  <2>4. kept = <<>> => Len(kept) = 0 OBVIOUS
  <2> HIDE DEF s
  <2>5. Max(s) \in s /\ \A i \in s : i <= Max(s) BY <2>2, MaxFrom
  <2>6. Max(s) \in Nat /\ 1 <= Max(s) /\ n <= Max(s)
    <3>1. Max(s) \in 0..(n + 1) BY <2>2, <2>5
    <3>2. 1 <= Max(s) BY <2>3, <2>5
    <3>3. n <= Max(s) BY <2>3, <2>5
    <3> HIDE DEF n
    <3> QED BY <3>1, <3>2, <3>3
  <2>7. kept = <<>> \/ Len(kept) < n BY <1>1 DEF FilterTyped
  <2>8. Len(kept) < Max(s) BY <2>1, <2>4, <2>6, <2>7
  <2> QED BY <2>8 DEF s
<1>4. \A k \in DOMAIN out : out[k].type \in {"delta", "reasoning_delta", "tool_calls", "completed", "error"}
  <2>1. \A k \in DOMAIN out : out[k] \in OutSet BY <1>1 DEF FilterTyped
  <2>2. \A e \in OutSet : e.type \in {"delta", "reasoning_delta", "tool_calls", "completed", "error"}
    BY DEF OutSet, WrittenSet, CallEvents, LastSet
  <2> QED BY <2>1, <2>2
<1> QED BY <1>1, <1>2, <1>3, <1>4 DEF TextTypeOK, Typed, FilterTyped

(* Split markers never show, and nothing of the text is lost.              *)
LEMMA TextWhole == TextInv => ReplyWhole
<1> SUFFICES ASSUME TextInv PROVE ReplyWhole OBVIOUS
<1>1. Typed /\ FilterTyped BY DEF TextInv
<1>2. Written("delta") = ToldText /\ Written("reasoning_delta") = ToldThought /\ ToldText \in Str /\ ToldThought \in Str
  BY <1>1, WrittenFacts DEF FilterTyped, ToldText, ToldThought
<1>3. CASE textpc = "over"
  <2>1. IsOver BY <1>3 DEF TextInv
  <2>2. ~hit => IsPrefix(ToldThought, Scan.reasoning_delta) BY <1>2, <2>1, PrefixOfJoin DEF IsOver
  <2>3. ~hit /\ Ended => ToldText = Scan.delta /\ ToldThought = Scan.reasoning_delta BY <2>1 DEF IsOver
  <2> QED BY <1>2, <1>3, <2>2, <2>3 DEF ReplyWhole
<1>4. CASE textpc # "over"
  <2>1. Goes BY <1>4 DEF TextInv
  <2>2. PICK s : AsFar(s) /\ Told(s.delta, s.reasoning_delta) BY <2>1 DEF Goes
  <2>3. PICK w, v, d, r : w = ToldText /\ v = ToldThought /\ d = s.delta /\ r = s.reasoning_delta OBVIOUS
  <2>4. w \in Str /\ v \in Str /\ d \in Str /\ r \in Str /\ Told(d, r) /\ stop \in Str /\ kept \in Str
    BY <1>1, <1>2, <2>2, <2>3 DEF Told, FilterTyped
  <2>5. /\ Scan \in ScanSet /\ (\E a \in Str : Scan.delta = d \o a)
        /\ \E a \in Str : Scan.reasoning_delta = r \o a
    <3>1. text \in Str /\ s \in ScanSet /\ OnPath(s) BY <1>1, <2>2 DEF Typed, AsFar
    <3> QED BY <2>3, <3>1, PathEnds
  <2>6. IsPrefix(v, Scan.reasoning_delta)
    <3>1. PICK a \in Str : r = v \o a BY <2>3, <2>4 DEF Told
    <3>2. PICK b \in Str : Scan.reasoning_delta = r \o b BY <2>5
    <3>3. (v \o a) \o b = v \o (a \o b)
      <4>1. v \in Str /\ a \in Str /\ b \in Str BY <2>4, <3>1, <3>2
      <4> QED BY <4>1, Assoc
    <3>4. a \o b \in Str BY <3>1, <3>2, StrFacts
    <3> QED BY <2>4, <3>1, <3>2, <3>3, <3>4, PrefixOfJoin
  <2>7. PICK a \in Str : Scan.delta = d \o a BY <2>5
  <2>8. PICK t : t = d \o a OBVIOUS
  <2>9. t \in Str /\ Len(t) \in Nat /\ Len(d) \in Nat /\ Len(t) = Len(d) + Len(a) /\ Len(a) \in Nat /\ Within(d, t, 0)
    BY <2>4, <2>8, JoinedWithin
  <2>10. ASSUME hit PROVE w = UpToStop(t)
    <3>1. Places(d, {stop}) # {} /\ w = Before(d, First(d, {stop})) BY <2>3, <2>4, <2>10 DEF Told
    <3>2. stop # <<>> BY <1>1, <2>10 DEF FilterTyped
    <3>3. Places(t, {stop}) # {} /\ First(t, {stop}) = First(d, {stop})
          /\ Before(t, First(d, {stop})) = Before(d, First(d, {stop}))
      <4> DEFINE st == stop
      <4>1. st \in Str /\ Places(d, {st}) # {} BY <2>4, <3>1
      <4> HIDE DEF st
      <4>2. Places(d \o a, {st}) # {} /\ First(d \o a, {st}) = First(d, {st})
            /\ Before(d \o a, First(d, {st})) = Before(d, First(d, {st}))
        BY <2>4, <2>7, <4>1, FirstGrows
      <4> QED BY <2>8, <4>2 DEF st
    <3> QED BY <3>1, <3>2, <3>3 DEF UpToStop
  <2>11. ASSUME ~hit PROVE IsPrefix(w, UpToStop(t))
    <3>1. d = w \o kept BY <2>3, <2>4, <2>11 DEF Told
    <3>2. t = w \o (kept \o a) /\ kept \o a \in Str
      <4> DEFINE k == kept
      <4>1. k \in Str /\ d = w \o k BY <2>4, <3>1
      <4> HIDE DEF k
      <4>2. (w \o k) \o a = w \o (k \o a)
        <5>1. w \in Str /\ k \in Str /\ a \in Str BY <2>4, <2>7, <4>1
        <5> QED BY <5>1, Assoc
      <4>3. k \o a \in Str BY <2>7, <4>1, StrFacts
      <4> QED BY <2>8, <4>1, <4>2, <4>3 DEF k
    <3>3. CASE stop = <<>> \/ Places(t, {stop}) = {}
      <4>1. UpToStop(t) = t BY <3>3 DEF UpToStop
      <4> QED BY <2>4, <3>2, <4>1, PrefixOfJoin
    <3>4. CASE stop # <<>> /\ Places(t, {stop}) # {}
      <4> DEFINE q == First(t, {stop})
                 b == Before(t, q)
      <4>1. UpToStop(t) = b BY <3>4 DEF UpToStop
      <4>2. q \in 1..Len(t) /\ At(stop, t, q) BY <2>9, <3>4, FirstFacts DEF Str
      <4>3. Len(w) \in Nat BY <2>4 DEF Str
      <4> HIDE DEF q
      <4>4. b \in Str /\ Len(b) = q - 1 /\ \A k \in 1..(q - 1) : b[k] = t[k]
        <5>1. q \in 1..(Len(t) + 1) BY <2>9, <4>2
        <5> QED BY <2>9, <5>1, Pieced DEF Str
      <4>5. q > Len(w)
        <5> SUFFICES ASSUME q <= Len(w) PROVE FALSE BY <2>9, <4>2, <4>3
        <5>1. q \in 1..Len(w) /\ q \in Nat \ {0} /\ 0 + q = q /\ 0 \in Nat BY <4>2, <4>3
        <5>2. Differs(stop, d, q) BY <2>3, <2>4, <2>11, <3>4, <5>1 DEF Told
        <5>3. stop \in Seq(Symbols) /\ d \in Seq(Symbols) /\ t \in Seq(Symbols) BY <2>4, <2>9 DEF Str
        <5>4. ~At(stop, t, 0 + q) BY <2>9, <5>1, <5>2, <5>3, DiffersStays
        <5> QED BY <4>2, <5>1, <5>4
      <4>6. Within(w, t, 0) BY <2>4, <3>2, JoinedWithin
      <4>7. \A k \in 1..Len(w) : w[k] = b[k]
        <5> TAKE k \in 1..Len(w)
        <5>1. 0 + k = k /\ k \in 1..(q - 1) BY <4>2, <4>3, <4>5
        <5>2. t[0 + k] = w[k] BY <4>6 DEF Within
        <5> QED BY <4>4, <5>1, <5>2
      <4>8. Len(w) <= Len(b) BY <4>2, <4>3, <4>4, <4>5
      <4> HIDE DEF b
      <4>9. IsPrefix(w, b) BY <2>4, <4>4, <4>7, <4>8, PrefixIs
      <4> QED BY <4>1, <4>9
    <3> QED BY <3>3, <3>4
  <2>12. Scan.delta = t BY <2>7, <2>8
  <2>13. hit \in BOOLEAN BY <1>1 DEF FilterTyped
  <2>14. IsPrefix(w, UpToStop(t))
    <3>1. CASE hit
      <4>1. IsPrefix(w, w)
        <5>1. Len(w) <= Len(w) BY <2>4 DEF Str
        <5> QED BY <2>4, <5>1, PrefixIs
      <4> QED BY <2>10, <3>1, <4>1
    <3> QED BY <2>11, <3>1
  <2>15. ~Ended BY <1>4 DEF Ended
  <2> QED BY <1>2, <1>4, <2>3, <2>6, <2>10, <2>12, <2>14, <2>15 DEF ReplyWhole
<1> QED BY <1>3, <1>4

(* The filters keep their invariant, and only add to the events.           *)
LEMMA TextKeeps ==
  ASSUME TextInv, TextNext \/ UNCHANGED textVars
  PROVE  TextInv' /\ Len(out) <= Len(out') /\ \A k \in 1..Len(out) : out'[k] = out[k]
<1>0. Len(out) \in Nat BY DEF TextInv, FilterTyped
<1>1. CASE TextNext
  <2>1. ASSUME NEW n \in 1..MaxChunk, Chunk(n) PROVE TextInv' /\ out' = out
    BY <2>1, ChunkKeeps DEF Chunk
  <2>2. ASSUME EndOfText PROVE TextInv' /\ out' = out BY <2>2, EndOfTextKeeps DEF EndOfText
  <2> QED BY <1>0, <1>1, <2>1, <2>2, SplitMarkerKeeps, SplitRestKeeps, FinishKeeps, InterruptedKeeps DEF TextNext
<1>2. CASE UNCHANGED textVars
  <2>1. /\ text' = text /\ begins' = begins /\ tools' = tools /\ stop' = stop /\ read' = read /\ held' = held
        /\ thinking' = thinking /\ found' = found /\ kept' = kept /\ hit' = hit /\ muted' = muted /\ out' = out
        /\ textpc' = textpc /\ UNCHANGED request
    BY <1>2 DEF textVars, request
  <2>2. Scan' = Scan /\ Ended' = Ended /\ Typed' = Typed /\ FilterTyped' = FilterTyped
    <3>1. Scan' = Scan BY <2>1, ScanSame
    <3>2. Ended' = Ended BY <2>1 DEF Ended, Cancelled, Event
    <3>3. Typed' = Typed BY <2>1 DEF Typed, Within
    <3>4. FilterTyped' = FilterTyped BY <2>1 DEF FilterTyped
    <3> QED BY <3>1, <3>2, <3>3, <3>4
  <2>3. ToldText' = ToldText /\ ToldThought' = ToldThought BY <2>1 DEF ToldText, ToldThought
  <2>4. IsOver' = IsOver BY <2>1, <2>2, <2>3 DEF IsOver
  <2>5. ASSUME textpc # "over" PROVE Goes'
    <3>1. Goes BY <2>5 DEF TextInv
    <3>2. PICK s : AsFar(s) /\ Told(s.delta, s.reasoning_delta) BY <3>1 DEF Goes
    <3>3. OnPath(s)' BY <2>1, <3>2, PathSame DEF AsFar
    <3>4. AsFar(s)' BY <2>1, <3>2, <3>3, ScanSame DEF AsFar
    <3>5. Told(s.delta, s.reasoning_delta)' BY <2>1, <2>3, <3>2 DEF Told, Differs
    <3>6. Places(held, Markers)' = Places(held, Markers) BY <2>1 DEF Places, At, Markers, MarkersIn, Tools
    <3> QED BY <2>1, <3>1, <3>4, <3>5, <3>6 DEF Goes
  <2>6. textpc # "over" => Goes BY DEF TextInv
  <2> QED BY <1>0, <2>1, <2>2, <2>4, <2>5 DEF TextInv
<1> QED BY <1>1, <1>2
-----------------------------------------------------------------------------
(* A worker's reply on its way to the routes: no more events are read than *)
(* are written, and the one that completes the reply is the last.          *)
Linked ==
  /\ events <= Len(out)
  /\ over = "no" /\ chat.completed => events = Len(out) /\ textpc = "over"
  /\ over = "eof" => events = Len(out) /\ textpc = "over"
ReplyInv == RouteInv /\ TextInv /\ (way = "worker" => Linked)

(* What a worker writes is what an engine sends.                           *)
LEMMA WrittenSent ==
  ASSUME NEW e \in OutSet, e.type # "error"
  PROVE  Sent(e.type, e.body) /\ (e.type = "completed" => e \in LastSet)
<1>1. CASE e \in WrittenSet
  <2>1. e.type \in {"delta", "reasoning_delta"} /\ e.body \in Seq(Symbols) BY <1>1 DEF WrittenSet, Str
  <2>2. e.body \in Seq(Sym)
    <3> DEFINE b == e.body
    <3>1. b \in Seq(Symbols) BY <2>1
    <3> HIDE DEF b
    <3>2. \A k \in 1..Len(b) : b[k] \in Sym BY <3>1 DEF Sym
    <3>3. b \in Seq(Sym) BY <3>1, <3>2
    <3> QED BY <3>3 DEF b
  <2> QED BY <2>1, <2>2 DEF Sent
<1>2. CASE e \in CallEvents
  <2>1. e.type = "tool_calls" /\ e.body \in Parses BY <1>2 DEF CallEvents
  <2>2. e.body \in Seq(CallSet)
    <3> DEFINE b == e.body
               S == [name : Nat, arguments : Seq(Symbols)]
    <3>1. b \in Seq(S) BY <2>1, TextsShaped
    <3>2. S \subseteq CallSet
      <4>1. Symbols \subseteq Sym BY DEF Sym
      <4>2. ASSUME NEW x \in Seq(Symbols) PROVE x \in Seq(Sym)
        <5>1. \A k \in 1..Len(x) : x[k] \in Sym BY <4>1
        <5> HIDE DEF Sym
        <5> QED BY <5>1
      <4> QED BY <4>2 DEF CallSet
    <3> HIDE DEF b, S
    <3>3. \A k \in 1..Len(b) : b[k] \in CallSet BY <3>1, <3>2
    <3>4. b \in Seq(CallSet) BY <3>1, <3>3
    <3> QED BY <3>4 DEF b
  <2> QED BY <2>1, <2>2 DEF Sent
<1>3. CASE e \in LastSet
  <2>1. e \in [type : {"completed"}, body : [finish : Finishes, matched : BOOLEAN]] BY <1>3 DEF LastSet
  <2>2. e.type = "completed" /\ e.body \in [finish : Finishes, matched : BOOLEAN] BY <2>1
  <2> QED BY <1>3, <2>2 DEF Sent
<1> QED BY <1>1, <1>2, <1>3 DEF OutSet

(* An ending among the events is their last, and the filters are done.     *)
LEMMA LastIsLast ==
  ASSUME TextInv, NEW k \in 1..Len(out), out[k] \in LastSet
  PROVE  k = Len(out) /\ textpc = "over"
<1>1. textpc = "over"
  <2> SUFFICES ASSUME textpc # "over" PROVE FALSE OBVIOUS
  <2>1. out \in Seq(WrittenSet) BY DEF TextInv, Goes
  <2>2. out[k] \in WrittenSet BY <2>1
  <2> QED BY <2>2 DEF WrittenSet, LastSet
<1>2. IsOver /\ Len(out) \in Nat BY <1>1 DEF TextInv, FilterTyped
<1>3. k \in 1..(Len(out) - 1) \/ k = Len(out) BY <1>2
<1> QED BY <1>1, <1>2, <1>3 DEF IsOver

(* An event that is read.                                                  *)
LEMMA NextEvent ==
  ASSUME ReplyInv, way = "worker", events < Len(out), over = "no", out[events + 1].type # "error"
  PROVE  /\ ~chat.completed /\ events + 1 \in 1..Len(out) /\ out[events + 1] \in OutSet
         /\ Sent(out[events + 1].type, out[events + 1].body)
         /\ out[events + 1].type = "completed" => events + 1 = Len(out) /\ textpc = "over"
<1>1. events \in Nat /\ Len(out) \in Nat /\ out \in Seq(OutSet)
  BY DEF ReplyInv, RouteInv, RouteTyped, TextInv, FilterTyped
<1>2. ~chat.completed BY <1>1 DEF ReplyInv, Linked
<1>3. events + 1 \in 1..Len(out) BY <1>1
<1> DEFINE k == events + 1
           e == out[k]
<1>4. e \in OutSet BY <1>1, <1>3
<1>5. e.type # "error" OBVIOUS
<1>6. Sent(e.type, e.body) /\ (e.type = "completed" => e \in LastSet)
  <2> HIDE DEF e
  <2> QED BY <1>4, <1>5, WrittenSent
<1>7. e \in LastSet => k = Len(out) /\ textpc = "over"
  <2> HIDE DEF k
  <2> QED BY <1>3, LastIsLast DEF ReplyInv, k
<1> QED BY <1>2, <1>3, <1>4, <1>6, <1>7

(* The invariant holds at first,                                           *)
LEMMA RepliesBegin == Init => ReplyInv
<1> SUFFICES ASSUME Init PROVE ReplyInv OBVIOUS
<1>1. RouteInv /\ TextInv BY RoutesBegin, TextBegins DEF Init
<1>2. events = 0 /\ over = "no" /\ chat.completed = FALSE BY DEF Init, RouteInit
<1>3. Len(out) \in Nat BY <1>1 DEF TextInv, FilterTyped
<1> QED BY <1>1, <1>2, <1>3 DEF ReplyInv, Linked

(* and every step keeps it.                                                *)
LEMMA RepliesKeep == ReplyInv /\ [Next]_<<way, planVars, textVars, routeVars>> => ReplyInv'
<1> SUFFICES ASSUME ReplyInv, [Next]_<<way, planVars, textVars, routeVars>> PROVE ReplyInv' OBVIOUS
<1>0. RouteInv /\ TextInv /\ (way = "worker" => Linked) BY DEF ReplyInv
<1>1. ASSUME UNCHANGED routeVars PROVE RouteInv' /\ chat' = chat /\ over' = over /\ events' = events
  <2>1. /\ chat' = chat /\ whole' = whole /\ legacy' = legacy /\ wire' = wire /\ message' = message
        /\ opened' = opened /\ events' = events /\ over' = over
    BY <1>1 DEF routeVars
  <2>2. RouteTyped' BY <1>0, <2>1 DEF RouteInv, RouteTyped
  <2>3. GoingOn' BY <1>0, <2>1 DEF RouteInv, GoingOn
  <2>4. Formed' BY <1>0, <2>1 DEF RouteInv, Formed
  <2> QED BY <2>1, <2>2, <2>3, <2>4 DEF RouteInv
<1>2. ASSUME UNCHANGED textVars PROVE TextInv' /\ out' = out /\ textpc' = textpc
  BY <1>0, <1>2, TextKeeps DEF textVars
<1>3. CASE UNCHANGED <<way, planVars, textVars, routeVars>>
  <2>1. way' = way /\ UNCHANGED textVars /\ UNCHANGED routeVars BY <1>3
  <2> QED BY <1>0, <1>1, <1>2, <2>1 DEF ReplyInv, Linked
<1>4. CASE Next /\ way = "prompt"
  <2>1. way' = way /\ UNCHANGED textVars /\ UNCHANGED routeVars BY <1>4 DEF Next
  <2> QED BY <1>0, <1>1, <1>2, <2>1 DEF ReplyInv, Linked
<1>5. CASE Next /\ way \in {"lmstudio", "omlx"}
  <2>1. way' = way /\ UNCHANGED textVars /\ ProviderNext(way) BY <1>5 DEF Next
  <2>2. RouteInv' BY <1>0, <2>1, ProviderFormed
  <2> QED BY <1>2, <1>5, <2>1, <2>2 DEF ReplyInv
<1>6. CASE Next /\ way = "worker"
  <2>1. way' = way /\ Worker /\ Linked BY <1>0, <1>6 DEF Next
  <2>2. events \in Nat /\ Len(out) \in Nat BY <1>0 DEF RouteInv, RouteTyped, TextInv, FilterTyped
  <2>3. CASE TextNext /\ UNCHANGED routeVars
    <3>1. TextInv' /\ Len(out) <= Len(out') BY <1>0, <2>3, TextKeeps
    <3>2. textpc # "over"
      BY <2>3 DEF TextNext, Chunk, SplitMarker, SplitRest, EndOfText, Finish, Interrupted
    <3>3. Len(out') \in Nat BY <3>1 DEF TextInv, FilterTyped
    <3>4. Linked' BY <1>1, <2>1, <2>2, <2>3, <3>1, <3>2, <3>3 DEF Linked
    <3> QED BY <1>1, <2>3, <3>1, <3>4 DEF ReplyInv
  <2>4. CASE Receive
    <3>1. events < Len(out) /\ opened' = opened /\ UNCHANGED textVars BY <2>4 DEF Receive
    <3>2. CASE out[events + 1].type = "error"
      <4>1. Break BY <2>4, <3>2 DEF Receive
      <4>2. over' = "error" /\ events' = events BY <4>1 DEF Break
      <4>3. RouteInv' BY <1>0, <4>1, EndsFormed
      <4> QED BY <1>2, <2>1, <3>1, <4>2, <4>3 DEF ReplyInv, Linked
    <3>3. CASE out[events + 1].type # "error"
      <4>1. Feed(out[events + 1].type, out[events + 1].body) BY <2>4, <3>3 DEF Receive
      <4>2. over = "no" /\ over' = "no" /\ events' = events + 1 BY <4>1 DEF Feed
      <4>3. /\ ~chat.completed /\ Sent(out[events + 1].type, out[events + 1].body)
            /\ out[events + 1].type = "completed" => events + 1 = Len(out) /\ textpc = "over"
        BY <1>6, <3>1, <3>3, <4>2, NextEvent
      <4> DEFINE type == out[events + 1].type
                 body == out[events + 1].body
      <4>4. Feed(type, body) /\ Sent(type, body) BY <4>1, <4>3
      <4>5. opened' \in Nat BY <1>0, <3>1 DEF RouteInv, RouteTyped
      <4> HIDE DEF type, body
      <4>6. RouteInv' /\ (chat.completed' <=> type = "completed") BY <1>0, <4>3, <4>4, <4>5, FeedFormed
      <4>7. events + 1 <= Len(out) BY <2>2, <3>1
      <4>8. Linked' BY <1>2, <3>1, <4>2, <4>3, <4>6, <4>7 DEF Linked, type
      <4> QED BY <1>2, <3>1, <4>6, <4>8 DEF ReplyInv
    <3> QED BY <3>2, <3>3
  <2>5. CASE WorkerEnds
    <3>1. textpc = "over" /\ events = Len(out) /\ Eof /\ UNCHANGED textVars BY <2>5 DEF WorkerEnds
    <3>2. over' = "eof" /\ events' = events BY <3>1 DEF Eof
    <3>3. RouteInv' BY <1>0, <3>1, EndsFormed
    <3> QED BY <1>2, <2>1, <3>1, <3>2, <3>3 DEF ReplyInv, Linked
  <2>6. CASE (Break \/ Disconnect) /\ UNCHANGED textVars
    <3>1. over' \in {"error", "gone"} /\ events' = events BY <2>6 DEF Break, Disconnect
    <3>2. RouteInv' BY <1>0, <2>6, EndsFormed
    <3> QED BY <1>2, <2>1, <2>6, <3>1, <3>2 DEF ReplyInv, Linked
  <2> QED BY <2>1, <2>3, <2>4, <2>5, <2>6 DEF Worker
<1> QED BY <1>3, <1>4, <1>5, <1>6 DEF Next

(* Every stream of every route has the form its protocol asks for, however *)
(* an engine's events come and the stream ends (api/openai_compat.py,      *)
(* api/anthropic_stream.py).                                               *)
THEOREM StreamsWellFormed == Spec => []WellFormed
<1>1. ReplyInv => WellFormed BY RoutesFormed DEF ReplyInv
<1> QED BY <1>1, RepliesBegin, RepliesKeep, PTL DEF Spec
-----------------------------------------------------------------------------
(* The first elements of any sequence.                                     *)
LEMMA FirstPart ==
  ASSUME NEW T, NEW h \in Seq(T)
  PROVE  /\ \A n \in 0..Len(h) : SubSeq(h, 1, n) \in Seq(T) /\ Len(SubSeq(h, 1, n)) = n
         /\ \A n \in 0..Len(h) : \A i \in 1..n : SubSeq(h, 1, n)[i] = h[i]
         /\ SubSeq(h, 1, 0) = <<>> /\ SubSeq(h, 1, Len(h)) = h
         /\ \A n \in 1..Len(h) : SubSeq(h, 1, n) = Append(SubSeq(h, 1, n - 1), h[n])
<1>1. Len(h) \in Nat /\ \A i \in 1..Len(h) : h[i] \in T OBVIOUS
<1>2. \A n \in 0..Len(h) : SubSeq(h, 1, n) \in Seq(T) /\ Len(SubSeq(h, 1, n)) = n OBVIOUS
<1>3. \A n \in 0..Len(h) : \A i \in 1..n : SubSeq(h, 1, n)[i] = h[i] OBVIOUS
<1>4. SubSeq(h, 1, 0) = <<>> OBVIOUS
<1>5. SubSeq(h, 1, Len(h)) = h
  <2>1. Len(h) \in 0..Len(h) BY <1>1
  <2> DEFINE g == SubSeq(h, 1, Len(h))
  <2>2. g \in Seq(T) /\ Len(g) = Len(h) /\ \A i \in 1..Len(h) : g[i] = h[i] BY <1>2, <1>3, <2>1
  <2> HIDE DEF g
  <2>3. g = h BY <2>2, SeqEqual
  <2> QED BY <2>3 DEF g
<1>6. ASSUME NEW n \in 1..Len(h) PROVE SubSeq(h, 1, n) = Append(SubSeq(h, 1, n - 1), h[n])
  <2> DEFINE a == SubSeq(h, 1, n)
             b == SubSeq(h, 1, n - 1)
             c == Append(b, h[n])
  <2>1. n \in 0..Len(h) /\ n - 1 \in 0..Len(h) /\ h[n] \in T BY <1>1
  <2>2. a \in Seq(T) /\ Len(a) = n /\ \A i \in 1..n : a[i] = h[i] BY <1>2, <1>3, <2>1
  <2>3. b \in Seq(T) /\ Len(b) = n - 1 /\ \A i \in 1..(n - 1) : b[i] = h[i] BY <1>2, <1>3, <2>1
  <2> HIDE DEF a, b
  <2>4. c \in Seq(T) /\ Len(c) = n /\ \A i \in 1..n : c[i] = h[i] BY <2>1, <2>3
  <2> HIDE DEF c
  <2>5. a = c BY <2>2, <2>4, SeqEqual
  <2> QED BY <2>5 DEF a, b, c
<1> QED BY <1>2, <1>3, <1>4, <1>5, <1>6

(* One element more at the end of a join.                                  *)
LEMMA JoinMore ==
  ASSUME NEW T, NEW x \in Seq(T), NEW y \in Seq(T), NEW c \in T
  PROVE  x \o Append(y, c) = Append(x \o y, c) /\ x \o y \in Seq(T)
<1>1. <<c>> \in Seq(T) OBVIOUS
<1>2. x \o y \in Seq(T) OBVIOUS
<1>3. Append(y, c) = y \o <<c>> /\ Append(x \o y, c) = (x \o y) \o <<c>> BY <1>2
<1>4. (x \o y) \o <<c>> = x \o (y \o <<c>>) BY <1>1, ConcatAssociative
<1> QED BY <1>2, <1>3, <1>4

(* The bodies of any stream.                                               *)
LEMMA BodiesAll ==
  ASSUME NEW T, NEW I, NEW types, Bodied(I, types, T)
  PROVE  \A q \in Seq(I) :
           /\ Bodies(q, types) \in Seq(T)
           /\ q = <<>> => Bodies(q, types) = <<>>
           /\ \A e \in I : Bodies(Append(q, e), types) = Bodies(q, types) \o IF e.type \in types THEN e.body ELSE <<>>
<1> TAKE q \in Seq(I)
<1> QED BY BodiesFacts

(* The bodies of two streams, one after the other.                         *)
LEMMA BodiesTwo ==
  ASSUME NEW T, NEW I, NEW items \in Seq(I), NEW more \in Seq(I), NEW types, Bodied(I, types, T)
  PROVE  Bodies(items \o more, types) \in Seq(T) /\ Bodies(items \o more, types) = Bodies(items, types) \o Bodies(more, types)
<1> DEFINE n == Len(more)
           p(k) == SubSeq(more, 1, k)
           B(q) == Bodies(q, types)
           b(e) == IF e.type \in types THEN e.body ELSE <<>>
           G == {k \in 0..n : B(items \o p(k)) = B(items) \o B(p(k))}
<1>1. n \in Nat /\ items \in Seq(I) OBVIOUS
<1>2. \A k \in 0..n : p(k) \in Seq(I) BY FirstPart
<1>3. p(0) = <<>> /\ p(n) = more /\ \A k \in 1..n : p(k) = Append(p(k - 1), more[k]) BY FirstPart
<1>4. \A q \in Seq(I) :
        /\ Bodies(q, types) \in Seq(T)
        /\ q = <<>> => Bodies(q, types) = <<>>
        /\ \A e \in I : Bodies(Append(q, e), types) = Bodies(q, types) \o IF e.type \in types THEN e.body ELSE <<>>
  BY BodiesAll
<1>5. \A q \in Seq(I) : B(q) \in Seq(T) /\ (q = <<>> => B(q) = <<>>) /\ \A e \in I : B(Append(q, e)) = B(q) \o b(e)
  BY <1>4
<1>6. \A e \in I : b(e) \in Seq(T) BY DEF Bodied
<1> HIDE DEF p, B, b, n
<1>7. 0 \in G
  <2>1. items \o p(0) = items BY <1>3
  <2>2. B(p(0)) = <<>> /\ B(items) \in Seq(T)
    <3>1. 0 \in 0..n BY <1>1 DEF n
    <3>2. p(0) \in Seq(I) /\ p(0) = <<>> BY <1>2, <1>3, <3>1
    <3> QED BY <1>1, <1>5, <3>2
  <2>3. B(items) \o <<>> = B(items) BY <2>2
  <2>4. B(items \o p(0)) = B(items) \o B(p(0)) BY <2>1, <2>2, <2>3
  <2>5. 0 \in 0..n BY <1>1 DEF n
  <2> QED BY <2>4, <2>5
<1>8. ASSUME NEW k \in 1..n, k - 1 \in G PROVE k \in G
  <2> DEFINE e == more[k]
  <2>1. k - 1 \in 0..n /\ k \in 0..n /\ e \in I BY <1>1 DEF n
  <2>2. p(k - 1) \in Seq(I) BY <1>2, <2>1
  <2> HIDE DEF e
  <2>3. items \o p(k) = Append(items \o p(k - 1), e) /\ items \o p(k - 1) \in Seq(I)
    <3>1. items \o Append(p(k - 1), e) = Append(items \o p(k - 1), e) /\ items \o p(k - 1) \in Seq(I)
      BY <1>1, <2>1, <2>2, JoinMore
    <3> QED BY <1>3, <3>1 DEF e
  <2>4. B(items \o p(k)) = B(items \o p(k - 1)) \o b(e) BY <1>5, <2>1, <2>3
  <2>5. B(p(k)) = B(p(k - 1)) \o b(e)
    <3>1. p(k) = Append(p(k - 1), e) BY <1>3 DEF e
    <3> QED BY <1>5, <2>1, <2>2, <3>1
  <2>6. B(items \o p(k - 1)) = B(items) \o B(p(k - 1)) BY <1>8
  <2>7. B(items) \in Seq(T) /\ B(p(k - 1)) \in Seq(T) /\ b(e) \in Seq(T) BY <1>1, <1>5, <1>6, <2>1, <2>2
  <2>8. (B(items) \o B(p(k - 1))) \o b(e) = B(items) \o (B(p(k - 1)) \o b(e))
    <3> DEFINE x == B(items)
               y == B(p(k - 1))
               z == b(e)
    <3>1. x \in Seq(T) /\ y \in Seq(T) /\ z \in Seq(T) BY <2>7
    <3> HIDE DEF x, y, z
    <3>2. \A p1, p2, p3 \in Seq(T) : (p1 \o p2) \o p3 = p1 \o (p2 \o p3) BY ConcatAssociative
    <3>3. (x \o y) \o z = x \o (y \o z) BY <3>1, <3>2
    <3> QED BY <3>3 DEF x, y, z
  <2> QED BY <2>1, <2>4, <2>5, <2>6, <2>8
<1>9. \A k \in G : B(items \o p(k)) = B(items) \o B(p(k)) OBVIOUS
<1>10. n \in 0..n BY <1>1
<1> HIDE DEF G
<1>11. 0..n \subseteq G BY <1>1, <1>7, <1>8, Counting
<1>12. B(items \o p(n)) = B(items) \o B(p(n)) BY <1>9, <1>10, <1>11
<1>13. items \o more \in Seq(I) BY ConcatProperties
<1>14. B(items \o more) \in Seq(T) BY <1>5, <1>13
<1> QED BY <1>3, <1>12, <1>14 DEF B

(* The bodies of any two streams.                                          *)
LEMMA BodiesJoin ==
  ASSUME NEW T, NEW I, NEW types, Bodied(I, types, T)
  PROVE  \A a, b \in Seq(I) : Bodies(a \o b, types) = Bodies(a, types) \o Bodies(b, types)
<1> TAKE a, b \in Seq(I)
<1>1. Bodies(a \o b, types) \in Seq(T) /\ Bodies(a \o b, types) = Bodies(a, types) \o Bodies(b, types) BY BodiesTwo
<1> QED BY <1>1

(* Items of other types have nothing to say.                               *)
LEMMA BodiesNone ==
  ASSUME NEW items, NEW n \in Nat, DOMAIN items = 1..n, NEW types, \A k \in 1..n : items[k].type \notin types
  PROVE  Bodies(items, types) = <<>>
<1> DEFINE s == [k \in DOMAIN items |-> IF items[k].type \in types THEN items[k].body ELSE <<>>]
<1>1. Bodies(items, types) = FlattenSeq(s) BY DEF Bodies
<1>2. s \in [1..n -> Seq({})] /\ DOMAIN s = 1..n /\ \A k \in 1..n : s[k] = <<>> OBVIOUS
<1> HIDE DEF s
<1>3. s \in Seq(Seq({})) BY <1>2, SeqFrom
<1>4. FlattenSeq(s) \in Seq({}) BY <1>3, FlattenFacts
<1>5. \A x \in Seq({}) : x = <<>>
  <2> TAKE x \in Seq({})
  <2>1. Len(x) \in Nat /\ \A k \in 1..Len(x) : x[k] \in {} OBVIOUS
  <2>2. Len(x) = 0 BY <2>1
  <2> QED BY <2>2
<1> QED BY <1>1, <1>4, <1>5

(* One item alone.                                                         *)
LEMMA BodiesOne ==
  ASSUME NEW T, NEW I, NEW e \in I, NEW types, Bodied(I, types, T)
  PROVE  Bodies(<<e>>, types) = IF e.type \in types THEN e.body ELSE <<>>
<1> DEFINE b == IF e.type \in types THEN e.body ELSE <<>>
<1>1. <<>> \in Seq(I) /\ Append(<<>>, e) = <<e>> /\ b \in Seq(T) BY DEF Bodied
<1>5. \A q \in Seq(I) :
        /\ Bodies(q, types) \in Seq(T)
        /\ q = <<>> => Bodies(q, types) = <<>>
        /\ \A d \in I : Bodies(Append(q, d), types) = Bodies(q, types) \o IF d.type \in types THEN d.body ELSE <<>>
  BY BodiesAll
<1>2. Bodies(<<>>, types) = <<>> /\ Bodies(Append(<<>>, e), types) = Bodies(<<>>, types) \o b
  BY <1>1, <1>5
<1> HIDE DEF b
<1>3. <<>> \o b = b BY <1>1
<1>4. Bodies(<<e>>, types) = b BY <1>1, <1>2, <1>3
<1> QED BY <1>4 DEF b
-----------------------------------------------------------------------------
(* The calls of a stream, read from their parts: how often each was begun, *)
(* and its arguments.  Calls fit the parts when they are what is read.     *)
Begun(P, i) == Cardinality({j \in DOMAIN P : P[j].index = i /\ P[j].new})
Given(P, i) == FlattenSeq([j \in DOMAIN P |-> IF P[j].index = i THEN P[j].arguments ELSE <<>>])
Fits(P, C) ==
  /\ P \in Seq(PartSet) /\ C \in Seq(CallSet)
  /\ \A j \in 1..Len(P) : P[j].index < Len(C)
  /\ \A k \in 1..Len(C) : C[k] = Call(Begun(P, k - 1), Given(P, k - 1)) /\ \E j \in 1..Len(P) : P[j].index = k - 1

(* Then a client reads them.                                               *)
LEMMA FitsRead == ASSUME Fits(Parts, whole.calls) PROVE CallsRead = whole.calls
<1> DEFINE P == Parts
           C == whole.calls
           n == Len(C)
           I == {part.index : part \in ToSet(P)}
           r == [k \in 1..n |-> Call(Begun(P, k - 1), Given(P, k - 1))]
<1>1. P \in Seq(PartSet) /\ C \in Seq(CallSet) /\ n \in Nat
      /\ (\A j \in 1..Len(P) : P[j].index < n)
      /\ \A k \in 1..n : C[k] = Call(Begun(P, k - 1), Given(P, k - 1)) /\ \E j \in 1..Len(P) : P[j].index = k - 1
  BY DEF Fits
<1>2. CallsRead = [k \in 1..Cardinality(I) |-> Call(Begun(P, k - 1), Given(P, k - 1))]
  BY DEF CallsRead, Begun, Given
<1> HIDE DEF P, C, n
<1>3. I = 0..(n - 1)
  <2>1. DOMAIN P = 1..Len(P) /\ \A j \in 1..Len(P) : P[j] \in PartSet BY <1>1
  <2>2. \A j \in 1..Len(P) : P[j].index \in 0..(n - 1) BY <1>1, <2>1 DEF PartSet
  <2>3. \A i \in 0..(n - 1) : \E j \in 1..Len(P) : P[j].index = i
    <3> TAKE i \in 0..(n - 1)
    <3>1. i + 1 \in 1..n /\ (i + 1) - 1 = i BY <1>1
    <3> QED BY <1>1, <3>1
  <2> QED BY <2>1, <2>2, <2>3 DEF ToSet
<1>4. Cardinality(I) = n
  <2>1. 0 \in Int /\ n - 1 \in Int BY <1>1
  <2>2. Cardinality(0..(n - 1)) = IF 0 > n - 1 THEN 0 ELSE (n - 1) - 0 + 1 BY <2>1, FS_Interval
  <2>3. Cardinality(0..(n - 1)) = n BY <1>1, <2>2
  <2> QED BY <1>3, <2>3
<1>5. CallsRead = r BY <1>2, <1>4
<1>6. C \in Seq(CallSet) /\ Len(C) = n /\ \A k \in 1..n : C[k] \in CallSet BY <1>1 DEF n
<1>7. \A k \in 1..n : r[k] = C[k] BY <1>1
<1>8. r \in [1..n -> CallSet] BY <1>6, <1>7
<1> HIDE DEF r
<1>9. r \in Seq(CallSet) /\ Len(r) = n BY <1>1, <1>8, SeqFrom
<1>10. r = C BY <1>6, <1>7, <1>9, SeqEqual
<1> QED BY <1>5, <1>10 DEF C

(* A call of which nothing was sent.                                       *)
LEMMA NothingGiven ==
  ASSUME NEW P \in Seq(PartSet), NEW i, \A j \in 1..Len(P) : P[j].index # i
  PROVE  Begun(P, i) = 0 /\ Given(P, i) = <<>>
<1> DEFINE s == [j \in DOMAIN P |-> IF P[j].index = i THEN P[j].arguments ELSE <<>>]
           n == Len(P)
<1>1. n \in Nat /\ DOMAIN P = 1..n OBVIOUS
<1>2. {j \in DOMAIN P : P[j].index = i /\ P[j].new} = {} BY <1>1
<1>3. Begun(P, i) = 0 BY <1>2, FS_EmptySet DEF Begun
<1>4. Given(P, i) = FlattenSeq(s) BY DEF Given
<1>5. s \in [1..n -> {<<>>}] /\ <<>> \in Seq({}) BY <1>1
<1>6. s \in [1..n -> Seq({})] BY <1>5
<1> HIDE DEF s, n
<1>7. s \in Seq(Seq({})) BY <1>1, <1>6, SeqFrom
<1>8. FlattenSeq(s) \in Seq({}) BY <1>7, FlattenFacts
<1>9. \A x \in Seq({}) : x = <<>>
  <2> TAKE x \in Seq({})
  <2>1. Len(x) \in Nat /\ \A k \in 1..Len(x) : x[k] \in {} OBVIOUS
  <2>2. Len(x) = 0 BY <2>1
  <2> QED BY <2>2
<1> QED BY <1>3, <1>4, <1>8, <1>9

(* What one part adds.                                                     *)
LEMMA OneMorePart ==
  ASSUME NEW P \in Seq(PartSet), NEW p \in PartSet, NEW i
  PROVE  /\ Begun(P, i) \in Nat /\ Given(P, i) \in Seq(Sym)
         /\ Begun(Append(P, p), i) = Begun(P, i) + IF p.index = i /\ p.new THEN 1 ELSE 0
         /\ Given(Append(P, p), i) = Given(P, i) \o IF p.index = i THEN p.arguments ELSE <<>>
<1> DEFINE a(e) == IF e.index = i THEN e.arguments ELSE <<>>
           S(q) == [j \in DOMAIN q |-> a(q[j])]
           A(q) == {j \in DOMAIN q : q[j].index = i /\ q[j].new}
           r == Append(P, p)
           n == Len(P)
<1>1. r \in Seq(PartSet) /\ Len(r) = n + 1 /\ n \in Nat /\ r[n + 1] = p /\ \A j \in 1..n : r[j] = P[j] OBVIOUS
<1>2. \A e \in PartSet : a(e) \in Seq(Sym) BY DEF PartSet
<1>3. \A q : Given(q, i) = FlattenSeq(S(q)) /\ Begun(q, i) = Cardinality(A(q)) BY DEF Given, Begun
<1> HIDE DEF a, r
<1>4. ASSUME NEW q \in Seq(PartSet)
      PROVE S(q) \in Seq(Seq(Sym)) /\ Len(S(q)) = Len(q) /\ \A k \in 1..Len(q) : S(q)[k] = a(q[k])
  <2>1. Len(q) \in Nat /\ DOMAIN q = 1..Len(q) /\ \A k \in 1..Len(q) : q[k] \in PartSet OBVIOUS
  <2>2. S(q) \in [1..Len(q) -> Seq(Sym)] /\ \A k \in 1..Len(q) : S(q)[k] = a(q[k]) BY <1>2, <2>1
  <2> HIDE DEF S
  <2> QED BY <2>1, <2>2, SeqFrom
<1>5. S(r) = Append(S(P), a(p))
  <2> DEFINE u == S(r)
             v == Append(S(P), a(p))
  <2>1. a(p) \in Seq(Sym) BY <1>2
  <2>2. u \in Seq(Seq(Sym)) /\ Len(u) = n + 1 /\ \A k \in 1..(n + 1) : u[k] = a(r[k]) BY <1>1, <1>4
  <2>3. S(P) \in Seq(Seq(Sym)) /\ Len(S(P)) = n /\ \A k \in 1..n : S(P)[k] = a(P[k]) BY <1>4
  <2> HIDE DEF S
  <2>4. v \in Seq(Seq(Sym)) /\ Len(v) = n + 1 /\ \A k \in 1..(n + 1) : v[k] = a(r[k]) BY <1>1, <2>1, <2>3
  <2> HIDE DEF u, v
  <2>5. u = v BY <2>2, <2>4, SeqEqual
  <2> QED BY <2>5 DEF u, v
<1>6. A(r) = A(P) \cup (IF p.index = i /\ p.new THEN {n + 1} ELSE {}) /\ n + 1 \notin A(P)
  <2>1. DOMAIN r = 1..(n + 1) /\ DOMAIN P = 1..n BY <1>1
  <2>2. 1..(n + 1) = (1..n) \cup {n + 1} /\ n + 1 \notin 1..n BY <1>1
  <2> HIDE DEF n
  <2> QED BY <1>1, <2>1, <2>2
<1>7. IsFiniteSet(A(P))
  <2>1. IsFiniteSet(1..n)
    <3>1. 1 \in Int /\ n \in Int BY <1>1
    <3> QED BY <3>1, FS_Interval, Zenon
  <2>2. A(P) \subseteq 1..n OBVIOUS
  <2> QED BY <2>1, <2>2, FS_Subset
<1>8. S(P) \in Seq(Seq(Sym)) BY <1>4
<1>9. a(p) \in Seq(Sym) BY <1>2
<1> HIDE DEF S, A, n
<1>10. Cardinality(A(P)) \in Nat BY <1>7, FS_CardinalityType
<1>11. Cardinality(A(r)) = Cardinality(A(P)) + IF p.index = i /\ p.new THEN 1 ELSE 0
  <2>1. CASE p.index = i /\ p.new
    <3>1. A(r) = A(P) \cup {n + 1} BY <1>6, <2>1
    <3>2. Cardinality(A(P) \cup {n + 1}) = Cardinality(A(P)) + 1 BY <1>6, <1>7, FS_AddElement
    <3> QED BY <2>1, <3>1, <3>2
  <2>2. CASE ~(p.index = i /\ p.new)
    <3>1. A(r) = A(P) BY <1>6, <2>2
    <3> QED BY <1>10, <2>2, <3>1
  <2> QED BY <2>1, <2>2
<1>12. /\ FlattenSeq(S(P)) \in Seq(Sym) /\ (S(P) = <<>> => FlattenSeq(S(P)) = <<>>)
       /\ \A t \in Seq(Sym) : FlattenSeq(Append(S(P), t)) = FlattenSeq(S(P)) \o t
  BY <1>8, FlattenFacts
<1>13. FlattenSeq(S(r)) = FlattenSeq(S(P)) \o a(p) BY <1>5, <1>9, <1>12
<1>14. Given(r, i) = Given(P, i) \o a(p) /\ Given(P, i) \in Seq(Sym) BY <1>3, <1>12, <1>13
<1>15. Begun(r, i) = Begun(P, i) + (IF p.index = i /\ p.new THEN 1 ELSE 0) /\ Begun(P, i) \in Nat
  BY <1>3, <1>10, <1>11
<1> QED BY <1>14, <1>15 DEF r, a

(* What a part makes of the calls it may come to.                          *)
LEMMA MergeIs ==
  ASSUME NEW C \in Seq(CallSet), NEW p \in PartSet, p.index <= Len(C)
  PROVE  /\ MergePart(C, p) \in Seq(CallSet)
         /\ Len(MergePart(C, p)) = IF p.index < Len(C) THEN Len(C) ELSE Len(C) + 1
         /\ p.index < Len(C) => MergePart(C, p)[p.index + 1]
              = Call(C[p.index + 1].name + (IF p.new THEN 1 ELSE 0), C[p.index + 1].arguments \o p.arguments)
         /\ p.index = Len(C) => MergePart(C, p)[p.index + 1] = Call(IF p.new THEN 1 ELSE 0, p.arguments)
         /\ \A k \in 1..Len(C) : k # p.index + 1 => MergePart(C, p)[k] = C[k]
<1> DEFINE q == Padded(C, p.index)
           k == p.index + 1
           name == IF p.new THEN q[k].name + 1 ELSE q[k].name
           arguments == q[k].arguments \o p.arguments
           r == MergePart(C, p)
<1>1. p.index \in Nat /\ p.new \in BOOLEAN /\ p.arguments \in Seq(Sym) BY DEF PartSet
<1>2. Call(0, <<>>) \in CallSet BY DEF Call, CallSet
<1>3. /\ q \in Seq(CallSet) /\ Len(q) = (IF p.index < Len(C) THEN Len(C) ELSE p.index + 1)
      /\ (\A j \in 1..Len(C) : q[j] = C[j]) /\ \A j \in (Len(C) + 1)..(p.index + 1) : q[j] = Call(0, <<>>)
  BY <1>1, <1>2, ReachingTyped DEF Padded
<1>4. r = [q EXCEPT ![k].name = IF p.new THEN @ + 1 ELSE @, ![k].arguments = @ \o p.arguments]
  BY DEF MergePart
<1>5. Len(C) \in Nat OBVIOUS
<1>6. k \in 1..Len(q) /\ Len(q) = IF p.index < Len(C) THEN Len(C) ELSE Len(C) + 1 BY <1>1, <1>3, <1>5
<1>7. p.index < Len(C) => q[k] = C[k] BY <1>1, <1>3, <1>5
<1>8. p.index = Len(C) => q[k] = Call(0, <<>>) BY <1>1, <1>3, <1>5
<1> HIDE DEF q, k, r
<1>9. q[k] \in CallSet BY <1>3, <1>6
<1>10. name \in Nat BY <1>1, <1>9 DEF CallSet
<1>11. arguments \in Seq(Sym) BY <1>1, <1>9, ConcatProperties DEF CallSet
<1>12. r = [q EXCEPT ![k] = Call(name, arguments)]
  <2>1. r = [q EXCEPT ![k] = [q[k] EXCEPT !.name = name, !.arguments = arguments]]
    BY <1>3, <1>4, <1>6, <1>9 DEF CallSet
  <2>2. ASSUME NEW a, NEW b PROVE [q[k] EXCEPT !.name = a, !.arguments = b] = Call(a, b)
    <3> DEFINE c == q[k]
    <3>1. c \in CallSet BY <1>9
    <3> HIDE DEF c
    <3>3. DOMAIN c = {"name", "arguments"} BY <3>1 DEF CallSet
    <3>4. [c EXCEPT !.name = a] = [name |-> a, arguments |-> c.arguments] BY <3>1 DEF CallSet
    <3>5. PICK d : d = c.arguments OBVIOUS
    <3>6. [[name |-> a, arguments |-> d] EXCEPT !.arguments = b] = [name |-> a, arguments |-> b] OBVIOUS
    <3>2. [c EXCEPT !.name = a, !.arguments = b] = Call(a, b) BY <3>4, <3>5, <3>6 DEF Call
    <3> QED BY <3>2 DEF c
  <2> QED BY <2>1, <2>2
<1>13. Call(name, arguments) \in CallSet BY <1>10, <1>11 DEF Call, CallSet
<1>14. p.index < Len(C) => Call(name, arguments)
         = Call(C[k].name + (IF p.new THEN 1 ELSE 0), C[k].arguments \o p.arguments)
  <2> SUFFICES ASSUME p.index < Len(C)
               PROVE  name = C[k].name + (IF p.new THEN 1 ELSE 0) /\ arguments = C[k].arguments \o p.arguments
    OBVIOUS
  <2>1. q[k] = C[k] /\ q[k].name \in Nat BY <1>7, <1>9 DEF CallSet
  <2> QED BY <1>1, <2>1
<1>15. p.index = Len(C) => Call(name, arguments) = Call(IF p.new THEN 1 ELSE 0, p.arguments)
  <2> SUFFICES ASSUME p.index = Len(C)
               PROVE  name = (IF p.new THEN 1 ELSE 0) /\ arguments = p.arguments
    OBVIOUS
  <2>1. q[k].name = 0 /\ q[k].arguments = <<>> BY <1>8 DEF Call
  <2>2. <<>> \o p.arguments = p.arguments BY <1>1
  <2> QED BY <1>1, <2>1, <2>2
<1> HIDE DEF name, arguments
<1>16. r \in Seq(CallSet) /\ Len(r) = Len(q) /\ r[k] = Call(name, arguments)
       /\ \A j \in 1..Len(q) : j # k => r[j] = q[j]
  BY <1>3, <1>6, <1>12, <1>13, ExceptSeq
<1>17. \A j \in 1..Len(C) : j # k => r[j] = C[j]
  <2>1. \A j \in 1..Len(C) : j \in 1..Len(q) BY <1>5, <1>6
  <2> QED BY <1>3, <1>16, <2>1
<1> QED BY <1>6, <1>14, <1>15, <1>16, <1>17 DEF r, k

(* A part that comes to a call there is, or to the next, keeps the fit.    *)
LEMMA FitsOne ==
  ASSUME NEW P, NEW C, Fits(P, C), NEW p \in PartSet, p.index <= Len(C)
  PROVE  Fits(Append(P, p), MergePart(C, p))
         /\ Len(MergePart(C, p)) = IF p.index < Len(C) THEN Len(C) ELSE Len(C) + 1
<1> DEFINE r == Append(P, p)
           D == MergePart(C, p)
           n == Len(C)
<1>1. P \in Seq(PartSet) /\ C \in Seq(CallSet) /\ n \in Nat BY DEF Fits
<1>2. \A j \in 1..Len(P) : P[j].index < n BY DEF Fits
<1>3. \A k \in 1..n : C[k] = Call(Begun(P, k - 1), Given(P, k - 1)) /\ \E j \in 1..Len(P) : P[j].index = k - 1
  BY DEF Fits
<1>4. p.index \in Nat /\ p.new \in BOOLEAN /\ p.arguments \in Seq(Sym) BY DEF PartSet
<1>5. /\ D \in Seq(CallSet) /\ Len(D) = (IF p.index < n THEN n ELSE n + 1)
      /\ (p.index < n => D[p.index + 1]
            = Call(C[p.index + 1].name + (IF p.new THEN 1 ELSE 0), C[p.index + 1].arguments \o p.arguments))
      /\ (p.index = n => D[p.index + 1] = Call(IF p.new THEN 1 ELSE 0, p.arguments))
      /\ \A k \in 1..n : k # p.index + 1 => D[k] = C[k]
  BY <1>1, MergeIs
<1>6. r \in Seq(PartSet) /\ Len(r) = Len(P) + 1 /\ Len(P) \in Nat /\ r[Len(P) + 1] = p
      /\ \A j \in 1..Len(P) : r[j] = P[j]
  BY <1>1
<1>7. \A i : /\ Begun(P, i) \in Nat /\ Given(P, i) \in Seq(Sym)
             /\ Begun(r, i) = Begun(P, i) + (IF p.index = i /\ p.new THEN 1 ELSE 0)
             /\ Given(r, i) = Given(P, i) \o (IF p.index = i THEN p.arguments ELSE <<>>)
  BY <1>1, OneMorePart
<1> HIDE DEF r, D, n
<1>8. p.index <= n BY DEF n
<1>9. \A j \in 1..Len(r) : r[j].index < Len(D)
  <2> TAKE j \in 1..Len(r)
  <2>1. n <= Len(D) /\ p.index < Len(D) /\ Len(D) \in Nat BY <1>1, <1>4, <1>5, <1>8
  <2>2. CASE j \in 1..Len(P)
    <3>1. P[j] \in PartSet BY <1>1, <2>2
    <3>2. P[j].index \in Nat /\ P[j].index < n BY <1>2, <2>2, <3>1 DEF PartSet
    <3> QED BY <1>1, <1>6, <2>1, <2>2, <3>2
  <2>3. CASE j = Len(P) + 1 BY <1>6, <2>1, <2>3
  <2> QED BY <1>6, <2>2, <2>3
<1>10. ASSUME NEW k \in 1..Len(D)
       PROVE  D[k] = Call(Begun(r, k - 1), Given(r, k - 1)) /\ \E j \in 1..Len(r) : r[j].index = k - 1
  <2>1. CASE k = p.index + 1
    <3>1. k - 1 = p.index BY <1>4, <2>1
    <3>2. Len(P) + 1 \in 1..Len(r) BY <1>6
    <3>3. \E j \in 1..Len(r) : r[j].index = k - 1 BY <1>6, <3>1, <3>2
    <3>4. Begun(r, k - 1) = Begun(P, k - 1) + (IF p.new THEN 1 ELSE 0)
          /\ Given(r, k - 1) = Given(P, k - 1) \o p.arguments
      BY <1>4, <1>7, <3>1
    <3>5. CASE p.index < n
      <4>1. k \in 1..n BY <1>1, <1>4, <2>1, <3>5
      <4>2. C[k].name = Begun(P, k - 1) /\ C[k].arguments = Given(P, k - 1)
        <5>1. C[k] = Call(Begun(P, k - 1), Given(P, k - 1)) BY <1>3, <4>1
        <5> QED BY <5>1 DEF Call
      <4>3. D[k] = Call(C[k].name + (IF p.new THEN 1 ELSE 0), C[k].arguments \o p.arguments) BY <1>5, <2>1, <3>5
      <4> QED BY <3>3, <3>4, <4>2, <4>3
    <3>6. CASE p.index = n
      <4>1. \A j \in 1..Len(P) : P[j].index # k - 1
        <5> TAKE j \in 1..Len(P)
        <5>1. P[j] \in PartSet BY <1>1
        <5>2. P[j].index \in Nat /\ P[j].index < n BY <1>2, <5>1 DEF PartSet
        <5> QED BY <1>1, <3>1, <3>6, <5>2
      <4>2. Begun(P, k - 1) = 0 /\ Given(P, k - 1) = <<>> BY <1>1, <4>1, NothingGiven
      <4>3. D[k] = Call(IF p.new THEN 1 ELSE 0, p.arguments) BY <1>5, <2>1, <3>6
      <4>4. <<>> \o p.arguments = p.arguments BY <1>4
      <4>5. Begun(r, k - 1) = (IF p.new THEN 1 ELSE 0) /\ Given(r, k - 1) = p.arguments
        <5>1. Begun(r, k - 1) = 0 + (IF p.new THEN 1 ELSE 0) BY <3>4, <4>2
        <5>2. Given(r, k - 1) = <<>> \o p.arguments BY <3>4, <4>2
        <5> QED BY <4>4, <5>1, <5>2
      <4> QED BY <3>3, <4>3, <4>5
    <3> QED BY <1>1, <1>4, <1>8, <3>5, <3>6
  <2>2. CASE k # p.index + 1
    <3>1. k \in 1..n /\ k - 1 # p.index BY <1>1, <1>4, <1>5, <1>8, <2>2
    <3>2. D[k] = C[k] BY <1>5, <2>2, <3>1
    <3>3. C[k] = Call(Begun(P, k - 1), Given(P, k - 1)) BY <1>3, <3>1
    <3>4. Begun(r, k - 1) = Begun(P, k - 1) BY <1>7, <3>1
    <3>5. Given(r, k - 1) = Given(P, k - 1)
      <4>1. Given(r, k - 1) = Given(P, k - 1) \o <<>> /\ Given(P, k - 1) \in Seq(Sym) BY <1>7, <3>1
      <4> HIDE DEF Given
      <4> QED BY <4>1, ConcatEmptySeq
    <3>6. PICK j \in 1..Len(P) : P[j].index = k - 1 BY <1>3, <3>1
    <3>7. j \in 1..Len(r) /\ r[j].index = k - 1 BY <1>6, <3>6
    <3> QED BY <3>2, <3>3, <3>4, <3>5, <3>7
  <2> QED BY <2>1, <2>2
<1>11. Fits(r, D) BY <1>5, <1>6, <1>9, <1>10 DEF Fits
<1> QED BY <1>5, <1>11 DEF r, D, n
-----------------------------------------------------------------------------
(* A provider's event begins the next calls, or goes on with calls there   *)
(* are.                                                                    *)
LEMMA MergeFits ==
  ASSUME NEW P, NEW C, Fits(P, C), NEW parts \in Seq(PartSet), NEW grows \in BOOLEAN,
         \A k \in 1..Len(parts) : IF grows THEN parts[k].index = Len(C) + k - 1 ELSE parts[k].index < Len(C)
  PROVE  /\ Fits(P \o parts, Merge(C, parts))
         /\ Len(Merge(C, parts)) = IF grows THEN Len(C) + Len(parts) ELSE Len(C)
<1> DEFINE n == Len(parts)
           m == Len(C)
           V == Seq(CallSet)
           p(k) == SubSeq(parts, 1, k)
<1>1. n \in Nat /\ DOMAIN parts = 1..n /\ \A i \in 1..n : parts[i] \in PartSet OBVIOUS
<1>2. C \in V /\ m \in Nat /\ P \in Seq(PartSet) BY DEF Fits
<1>3. \A v \in V : \A i \in 1..n : MergePart(v, parts[i]) \in V BY <1>1, MergePartTyped
<1>4. p(0) = <<>> /\ p(n) = parts /\ (\A k \in 1..n : p(k) = Append(p(k - 1), parts[k]))
      /\ \A k \in 0..n : p(k) \in Seq(PartSet)
  BY FirstPart
<1>5. \A k \in 1..n : IF grows THEN parts[k].index = m + k - 1 ELSE parts[k].index < m OBVIOUS
<1> HIDE DEF n, m, V, p
<1>6. PICK f : MergeRuns(f, C, parts, n, V) BY <1>1, <1>2, <1>3, MergeFold
<1>7. f[0] = C /\ Merge(C, parts) = f[n] /\ \A i \in 1..n : f[i] = MergePart(f[i - 1], parts[i])
  BY <1>6 DEF MergeRuns
<1> DEFINE size(i) == IF grows THEN m + i ELSE m
           Good(i) == Fits(P \o p(i), f[i]) /\ Len(f[i]) = size(i)
           G == {i \in 0..n : Good(i)}
<1>8. 0 \in G
  <2>1. P \o p(0) = P BY <1>2, <1>4
  <2>2. Len(f[0]) = size(0) BY <1>2, <1>7 DEF m
  <2>3. Fits(P \o p(0), f[0]) BY <1>7, <2>1
  <2>4. 0 \in 0..n BY <1>1
  <2> HIDE DEF size
  <2> QED BY <2>2, <2>3, <2>4
<1>9. ASSUME NEW i \in 1..n, i - 1 \in G PROVE i \in G
  <2> DEFINE c == f[i - 1]
             e == parts[i]
             q == P \o p(i - 1)
  <2>1. i - 1 \in 0..n /\ i \in 0..n /\ e \in PartSet BY <1>1
  <2>2. Fits(q, c) /\ Len(c) = size(i - 1) BY <1>9
  <2>3. f[i] = MergePart(c, e) BY <1>7
  <2>4. P \o p(i) = Append(q, e)
    <3>1. p(i) = Append(p(i - 1), e) /\ p(i - 1) \in Seq(PartSet) BY <1>4, <2>1
    <3>2. P \o Append(p(i - 1), e) = Append(P \o p(i - 1), e) BY <1>2, <2>1, <3>1, JoinMore
    <3> QED BY <3>1, <3>2
  <2>5. IF grows THEN e.index = m + i - 1 ELSE e.index < m BY <1>5
  <2>6. e.index \in Nat BY <2>1 DEF PartSet
  <2> HIDE DEF c, e, q
  <2>7. e.index <= Len(c) /\ (IF e.index < Len(c) THEN Len(c) ELSE Len(c) + 1) = size(i)
    BY <1>1, <1>2, <2>1, <2>2, <2>5, <2>6
  <2>8. Fits(Append(q, e), MergePart(c, e))
        /\ Len(MergePart(c, e)) = IF e.index < Len(c) THEN Len(c) ELSE Len(c) + 1
    BY <2>1, <2>2, <2>7, FitsOne
  <2> HIDE DEF size
  <2>9. Good(i) BY <2>3, <2>4, <2>7, <2>8
  <2> HIDE DEF Good
  <2> QED BY <2>1, <2>9
<1>10. \A i \in G : Good(i) OBVIOUS
<1> HIDE DEF G
<1>11. 0..n \subseteq G BY <1>1, <1>8, <1>9, Counting
<1>12. n \in 0..n BY <1>1
<1>13. Good(n) BY <1>10, <1>11, <1>12
<1> QED BY <1>4, <1>7, <1>13 DEF n, m

(* A part that begins the next call, and one that goes on with the last.   *)
LEMMA MergeEnds ==
  ASSUME NEW C \in Seq(CallSet), NEW p \in PartSet, p.index = Len(C)
  PROVE  /\ MergePart(C, p) = Append(C, Call(IF p.new THEN 1 ELSE 0, p.arguments))
         /\ \A c \in CallSet : MergePart(Append(C, c), p)
              = Append(C, Call(c.name + (IF p.new THEN 1 ELSE 0), c.arguments \o p.arguments))
<1> DEFINE n == Len(C)
           new == Call(IF p.new THEN 1 ELSE 0, p.arguments)
<1>1. n \in Nat /\ p.index = n /\ p.new \in BOOLEAN /\ p.arguments \in Seq(Sym) BY DEF PartSet
<1>2. new \in CallSet BY <1>1 DEF Call, CallSet
<1>3. MergePart(C, p) = Append(C, new)
  <2> DEFINE a == MergePart(C, p)
             b == Append(C, new)
  <2>1. a \in Seq(CallSet) /\ Len(a) = n + 1 /\ a[n + 1] = new /\ \A k \in 1..n : k # n + 1 => a[k] = C[k]
    BY <1>1, MergeIs
  <2> HIDE DEF new
  <2>2. b \in Seq(CallSet) /\ Len(b) = n + 1 /\ b[n + 1] = new /\ \A k \in 1..n : b[k] = C[k] BY <1>2
  <2> HIDE DEF a, b, n
  <2>3. \A k \in 1..(n + 1) : a[k] = b[k] BY <1>1, <2>1, <2>2
  <2>4. a = b BY <2>1, <2>2, <2>3, SeqEqual
  <2> QED BY <2>4 DEF a, b
<1>4. ASSUME NEW c \in CallSet
      PROVE MergePart(Append(C, c), p) = Append(C, Call(c.name + (IF p.new THEN 1 ELSE 0), c.arguments \o p.arguments))
  <2> DEFINE d == Call(c.name + (IF p.new THEN 1 ELSE 0), c.arguments \o p.arguments)
             D == Append(C, c)
             a == MergePart(D, p)
             b == Append(C, d)
  <2>1. c.name \in Nat /\ c.arguments \in Seq(Sym) BY DEF CallSet
  <2>2. d \in CallSet
    <3>1. c.arguments \o p.arguments \in Seq(Sym) BY <1>1, <2>1, ConcatProperties
    <3>2. c.name + (IF p.new THEN 1 ELSE 0) \in Nat BY <1>1, <2>1
    <3> QED BY <3>1, <3>2 DEF Call, CallSet
  <2>3. D \in Seq(CallSet) /\ Len(D) = n + 1 /\ D[n + 1] = c /\ \A k \in 1..n : D[k] = C[k] OBVIOUS
  <2> HIDE DEF D, n
  <2>4. p.index <= Len(D) /\ p.index < Len(D) BY <1>1, <2>3
  <2>5. /\ a \in Seq(CallSet) /\ Len(a) = n + 1
        /\ a[p.index + 1] = Call(D[p.index + 1].name + (IF p.new THEN 1 ELSE 0), D[p.index + 1].arguments \o p.arguments)
        /\ \A k \in 1..Len(D) : k # p.index + 1 => a[k] = D[k]
    BY <2>3, <2>4, MergeIs
  <2>6. a[n + 1] = d BY <1>1, <2>3, <2>5
  <2> HIDE DEF a, d
  <2>7. b \in Seq(CallSet) /\ Len(b) = n + 1 /\ b[n + 1] = d /\ \A k \in 1..n : b[k] = C[k] BY <2>2 DEF n
  <2> HIDE DEF b
  <2>8. \A k \in 1..(n + 1) : a[k] = b[k] BY <1>1, <2>3, <2>5, <2>6, <2>7
  <2>9. a = b BY <2>5, <2>7, <2>8, SeqEqual
  <2> QED BY <2>9 DEF a, b, d, D
<1> QED BY <1>3, <1>4 DEF new

(* The chunks of one whole call fit it.                                    *)
OneCall(i, a) ==
  <<Item("calls", <<Part(i, TRUE, <<>>)>>)>> \o [j \in DOMAIN a |-> Item("calls", <<Part(i, FALSE, <<a[j]>>)>>)]

(* A chunk of one part is read as the part.                                *)
LEMMA OnePartItem ==
  ASSUME NEW i \in Nat, NEW new \in BOOLEAN, NEW a \in Seq(Sym)
  PROVE  /\ Item("calls", <<Part(i, new, a)>>) \in CallItems /\ Part(i, new, a) \in PartSet
         /\ Bodies(<<Item("calls", <<Part(i, new, a)>>)>>, {"calls"}) = <<Part(i, new, a)>>
         /\ Bodied(CallItems, {"calls"}, PartSet)
<1> DEFINE p == Part(i, new, a)
           e == Item("calls", <<p>>)
           ts == {"calls"}
<1>1. p \in PartSet BY DEF Part, PartSet
<1> HIDE DEF p
<1>2. <<p>> \in Seq(PartSet) BY <1>1
<1>3. e \in CallItems /\ e.type = "calls" /\ e.body = <<p>> BY <1>2, Zenon DEF Item, CallItems
<1>4. Bodied(CallItems, ts, PartSet) BY DEF Bodied, CallItems
<1>5. e.type \in ts BY <1>3
<1> HIDE DEF e, ts
<1>6. Bodies(<<e>>, ts) = IF e.type \in ts THEN e.body ELSE <<>> BY <1>3, <1>4, BodiesOne
<1>7. Bodies(<<e>>, ts) = <<p>> BY <1>3, <1>5, <1>6
<1> QED BY <1>1, <1>3, <1>4, <1>7 DEF e, p, ts

(* A whole call is a sequence of such chunks.                              *)
LEMMA OneCallTyped ==
  ASSUME NEW i \in Nat, NEW a \in Seq(Sym)
  PROVE  /\ OneCall(i, a) \in Seq(CallItems)
         /\ [j \in DOMAIN a |-> Item("calls", <<Part(i, FALSE, <<a[j]>>)>>)] \in Seq(CallItems)
         /\ Len([j \in DOMAIN a |-> Item("calls", <<Part(i, FALSE, <<a[j]>>)>>)]) = Len(a)
<1> DEFINE n == Len(a)
           first == Item("calls", <<Part(i, TRUE, <<>>)>>)
           rest == [j \in DOMAIN a |-> Item("calls", <<Part(i, FALSE, <<a[j]>>)>>)]
<1>1. n \in Nat /\ DOMAIN a = 1..n /\ <<>> \in Seq(Sym) /\ \A j \in 1..n : <<a[j]>> \in Seq(Sym) OBVIOUS
<1>2. first \in CallItems BY <1>1, OnePartItem
<1>3. \A j \in 1..n : Item("calls", <<Part(i, FALSE, <<a[j]>>)>>) \in CallItems BY <1>1, OnePartItem
<1>4. rest \in [1..n -> CallItems] BY <1>1, <1>3
<1> HIDE DEF first, rest, n
<1>5. rest \in Seq(CallItems) /\ Len(rest) = n BY <1>1, <1>4, SeqFrom
<1>6. <<first>> \in Seq(CallItems) BY <1>2
<1>7. <<first>> \o rest \in Seq(CallItems) BY <1>5, <1>6, ConcatProperties
<1> QED BY <1>5, <1>7 DEF OneCall, first, rest, n

(* Reading it adds the call.                                               *)
LEMMA OneCallFits ==
  ASSUME NEW P, NEW C, Fits(P, C), NEW a \in Seq(Sym)
  PROVE  Fits(P \o Bodies(OneCall(Len(C), a), {"calls"}), Append(C, Call(1, a)))
<1> DEFINE i == Len(C)
           n == Len(a)
           ts == {"calls"}
           B(q) == Bodies(q, ts)
           first == Item("calls", <<Part(i, TRUE, <<>>)>>)
           r == [j \in DOMAIN a |-> Item("calls", <<Part(i, FALSE, <<a[j]>>)>>)]
           p == Part(i, TRUE, <<>>)
           Q == Append(P, p)
           u(j) == SubSeq(r, 1, j)
           v(j) == SubSeq(a, 1, j)
           G == {j \in 0..n : Fits(Q \o B(u(j)), Append(C, Call(1, v(j))))}
<1>1. P \in Seq(PartSet) /\ C \in Seq(CallSet) /\ i \in Nat BY DEF Fits
<1>2. n \in Nat /\ DOMAIN a = 1..n /\ <<>> \in Seq(Sym) /\ \A j \in 1..n : a[j] \in Sym /\ <<a[j]>> \in Seq(Sym) OBVIOUS
<1>3. first \in CallItems /\ p \in PartSet /\ B(<<first>>) = <<p>> /\ Bodied(CallItems, ts, PartSet)
  BY <1>1, <1>2, OnePartItem
<1>4. r \in Seq(CallItems) /\ Len(r) = n BY <1>1, OneCallTyped
<1>5. \A j \in 1..n : r[j] = Item("calls", <<Part(i, FALSE, <<a[j]>>)>>) BY <1>2
<1>6. p.index = i /\ p.new = TRUE /\ p.arguments = <<>> BY DEF Part
<1>7. OneCall(i, a) = <<first>> \o r BY DEF OneCall
<1> HIDE DEF i, n, ts, first, r, p
<1>8. (\A j \in 0..n : u(j) \in Seq(CallItems)) /\ u(0) = <<>> /\ u(n) = r
      /\ \A j \in 1..n : u(j) = Append(u(j - 1), r[j])
  BY <1>4, FirstPart
<1>9. (\A j \in 0..n : v(j) \in Seq(Sym)) /\ v(0) = <<>> /\ v(n) = a
      /\ \A j \in 1..n : v(j) = Append(v(j - 1), a[j])
  BY FirstPart DEF n
<1>10. Q \in Seq(PartSet) BY <1>1, <1>3
<1>11. ASSUME NEW q \in Seq(CallItems)
       PROVE  /\ Bodies(q, ts) \in Seq(PartSet) /\ (q = <<>> => Bodies(q, ts) = <<>>)
              /\ \A e \in CallItems : Bodies(Append(q, e), ts) = Bodies(q, ts) \o IF e.type \in ts THEN e.body ELSE <<>>
  BY <1>3, BodiesFacts
<1> HIDE DEF u, v
<1>12. 0 \in G
  <2>1. MergePart(C, p) = Append(C, Call(1, <<>>)) BY <1>1, <1>3, <1>6, MergeEnds DEF i
  <2>2. Fits(Q, MergePart(C, p)) BY <1>1, <1>3, <1>6, FitsOne DEF i
  <2>3. 0 \in 0..n BY <1>2
  <2>4. B(u(0)) = <<>> BY <1>8, <1>11, <2>3
  <2>5. Q \o <<>> = Q BY <1>10, ConcatEmptySeq
  <2> QED BY <1>9, <2>1, <2>2, <2>3, <2>4, <2>5
<1>13. ASSUME NEW j \in 1..n, j - 1 \in G PROVE j \in G
  <2> DEFINE e == Part(i, FALSE, <<a[j]>>)
             c == Call(1, v(j - 1))
             D == Append(C, c)
             q == Q \o B(u(j - 1))
  <2>1. j - 1 \in 0..n /\ j \in 0..n BY <1>2
  <2>2. Fits(q, D) BY <1>13
  <2>3. /\ e \in PartSet /\ r[j] \in CallItems /\ r[j].type \in ts /\ r[j].body = <<e>>
        /\ e.index = i /\ e.new = FALSE /\ e.arguments = <<a[j]>>
    <3>1. <<a[j]>> \in Seq(Sym) BY <1>2
    <3>2. e \in PartSet BY <1>1, <3>1, OnePartItem
    <3>3. r[j] \in CallItems BY <1>4
    <3>4. r[j].type \in ts /\ r[j].body = <<e>>
      <4>1. r[j] = Item("calls", <<e>>) BY <1>5
      <4> HIDE DEF e
      <4> QED BY <4>1 DEF Item, ts
    <3> QED BY <3>2, <3>3, <3>4 DEF Part
  <2>4. v(j - 1) \in Seq(Sym) BY <1>9, <2>1
  <2>5. c \in CallSet /\ c.name = 1 /\ c.arguments = v(j - 1) BY <2>4 DEF Call, CallSet
  <2> HIDE DEF e, c
  <2>6. D \in Seq(CallSet) /\ Len(D) = i + 1 BY <1>1, <2>5 DEF i
  <2>7. Fits(Append(q, e), MergePart(D, e))
    <3>1. e.index <= Len(D) BY <1>1, <2>3, <2>6
    <3> HIDE DEF D, q
    <3> QED BY <2>2, <2>3, <3>1, FitsOne
  <2>8. MergePart(D, e) = Append(C, Call(1, v(j)))
    <3>1. MergePart(D, e) = Append(C, Call(c.name + (IF e.new THEN 1 ELSE 0), c.arguments \o e.arguments))
      BY <1>1, <2>3, <2>5, MergeEnds DEF i
    <3>2. c.name + (IF e.new THEN 1 ELSE 0) = 1 BY <2>3, <2>5
    <3>3. v(j) = v(j - 1) \o <<a[j]>>
      <4>1. v(j) = Append(v(j - 1), a[j]) /\ a[j] \in Sym BY <1>2, <1>9
      <4> QED BY <2>4, <4>1
    <3> QED BY <2>3, <2>5, <3>1, <3>2, <3>3
  <2>9. Q \o B(u(j)) = Append(q, e)
    <3>1. u(j) = Append(u(j - 1), r[j]) /\ u(j - 1) \in Seq(CallItems) BY <1>8, <2>1
    <3>2. B(u(j)) = B(u(j - 1)) \o <<e>> /\ B(u(j - 1)) \in Seq(PartSet) BY <1>11, <2>3, <3>1
    <3>3. B(u(j - 1)) \o <<e>> = Append(B(u(j - 1)), e) BY <2>3, <3>2
    <3> HIDE DEF Q, B
    <3>4. Q \o Append(B(u(j - 1)), e) = Append(Q \o B(u(j - 1)), e) BY <1>10, <2>3, <3>2, JoinMore
    <3> QED BY <3>2, <3>3, <3>4
  <2> HIDE DEF q, D
  <2>10. Fits(Q \o B(u(j)), Append(C, Call(1, v(j)))) BY <2>7, <2>8, <2>9
  <2> QED BY <2>1, <2>10
<1>14. \A j \in G : Fits(Q \o B(u(j)), Append(C, Call(1, v(j)))) OBVIOUS
<1> HIDE DEF G
<1>15. 0..n \subseteq G BY <1>2, <1>12, <1>13, Counting
<1>16. n \in 0..n BY <1>2
<1>17. Fits(Q \o B(r), Append(C, Call(1, a))) BY <1>8, <1>9, <1>14, <1>15, <1>16
<1>18. Q \o B(r) = P \o B(<<first>> \o r)
  <2>1. B(r) \in Seq(PartSet) BY <1>4, <1>11
  <2>2. <<first>> \in Seq(CallItems) /\ <<p>> \in Seq(PartSet) BY <1>3
  <2>3. Bodies(<<first>> \o r, ts) = Bodies(<<first>>, ts) \o Bodies(r, ts)
    <3> DEFINE z == <<first>>
    <3>1. z \in Seq(CallItems) BY <2>2
    <3> HIDE DEF z
    <3>3. \A v1, v2 \in Seq(CallItems) : Bodies(v1 \o v2, ts) = Bodies(v1, ts) \o Bodies(v2, ts) BY <1>3, BodiesJoin
    <3>2. Bodies(z \o r, ts) = Bodies(z, ts) \o Bodies(r, ts) BY <1>4, <3>1, <3>3
    <3> QED BY <3>2 DEF z
  <2>4. Q = P \o <<p>> BY <1>1, <1>3
  <2> HIDE DEF Q
  <2> DEFINE b == B(r)
  <2>5. b \in Seq(PartSet) BY <2>1
  <2> HIDE DEF b
  <2>6. (P \o <<p>>) \o b = P \o (<<p>> \o b) BY <1>1, <2>2, <2>5, ConcatAssociative
  <2> QED BY <1>3, <2>3, <2>4, <2>6 DEF b
<1> QED BY <1>7, <1>17, <1>18 DEF i, ts
-----------------------------------------------------------------------------
(* The chunks of a worker's calls fit them.                                *)
LEMMA CallsFit ==
  ASSUME NEW calls \in Seq(CallSet)
  PROVE  Fits(Bodies(CallChunks(calls), {"calls"}), Normalized(calls))
<1> DEFINE n == Len(calls)
           ts == {"calls"}
           B(q) == Bodies(q, ts)
           s == [k \in DOMAIN calls |-> OneCall(k - 1, calls[k].arguments)]
           N == Normalized(calls)
           w(k) == SubSeq(N, 1, k)
<1>1. n \in Nat /\ DOMAIN calls = 1..n /\ \A k \in 1..n : calls[k] \in CallSet OBVIOUS
<1>2. \A k \in 1..n : calls[k].arguments \in Seq(Sym) /\ k - 1 \in Nat BY <1>1 DEF CallSet
<1>3. CallChunks(calls) = FlattenSeq(s) BY DEF CallChunks, OneCall
<1>4. \A k \in 1..n : OneCall(k - 1, calls[k].arguments) \in Seq(CallItems) BY <1>2, OneCallTyped
<1>5. s \in [1..n -> Seq(CallItems)] BY <1>1, <1>4
<1>6. \A k \in 1..n : s[k] = OneCall(k - 1, calls[k].arguments) BY <1>1
<1>7. Bodied(CallItems, ts, PartSet) BY DEF Bodied, CallItems
<1> HIDE DEF s
<1>8. s \in Seq(Seq(CallItems)) /\ Len(s) = n BY <1>1, <1>5, SeqFrom
<1>9. PICK f : Joins(f, s, CallItems) /\ FlattenSeq(s) = f[n] BY <1>8, FlattenJoins
<1>10. f \in [0..n -> Seq(CallItems)] /\ f[0] = <<>> /\ \A i \in 1..n : f[i] = f[i - 1] \o s[i]
  BY <1>8, <1>9 DEF Joins
<1>11. N \in Seq(CallSet) /\ Len(N) = n /\ \A k \in 1..n : N[k] = Call(1, calls[k].arguments) BY NormalizedTyped
<1> HIDE DEF n, N, ts
<1>12. /\ \A k \in 0..n : w(k) \in Seq(CallSet) /\ Len(w(k)) = k
       /\ w(0) = <<>> /\ w(n) = N /\ \A k \in 1..n : w(k) = Append(w(k - 1), N[k])
  BY <1>11, FirstPart
<1> HIDE DEF w
<1> DEFINE G == {k \in 0..n : Fits(B(f[k]), w(k))}
<1>13. 0 \in G
  <2>1. B(f[0]) = <<>>
    <3> DEFINE z == f[0]
    <3>1. z \in Seq(CallItems) /\ z = <<>> BY <1>10
    <3> HIDE DEF z
    <3>3. \A q \in Seq(CallItems) :
            /\ Bodies(q, ts) \in Seq(PartSet)
            /\ q = <<>> => Bodies(q, ts) = <<>>
            /\ \A e \in CallItems : Bodies(Append(q, e), ts) = Bodies(q, ts) \o IF e.type \in ts THEN e.body ELSE <<>>
      BY <1>7, BodiesAll
    <3>2. Bodies(z, ts) = <<>> BY <3>1, <3>3
    <3> QED BY <3>2 DEF z
  <2>2. 0 \in 0..n BY <1>1
  <2>3. Fits(<<>>, <<>>)
    <3>1. <<>> \in Seq(PartSet) /\ <<>> \in Seq(CallSet) /\ Len(<<>>) = 0 OBVIOUS
    <3> QED BY <3>1 DEF Fits
  <2> QED BY <1>12, <2>1, <2>2, <2>3
<1>14. ASSUME NEW k \in 1..n, k - 1 \in G PROVE k \in G
  <2> DEFINE g == f[k - 1]
             a == calls[k].arguments
             o == OneCall(k - 1, a)
             C == w(k - 1)
  <2>1. k - 1 \in 0..n /\ k \in 0..n BY <1>1
  <2>2. Fits(B(g), C) BY <1>14
  <2>3. Len(C) = k - 1 /\ a \in Seq(Sym) /\ g \in Seq(CallItems) /\ o \in Seq(CallItems)
    BY <1>2, <1>4, <1>10, <1>12, <2>1
  <2>4. f[k] = g \o o BY <1>6, <1>10
  <2> HIDE DEF g
  <2>5. Bodies(g \o o, ts) = Bodies(g, ts) \o Bodies(o, ts)
    <3> HIDE DEF o
    <3>1. \A v1, v2 \in Seq(CallItems) : Bodies(v1 \o v2, ts) = Bodies(v1, ts) \o Bodies(v2, ts) BY <1>7, BodiesJoin
    <3> QED BY <2>3, <3>1
  <2>6. w(k) = Append(C, Call(1, a)) BY <1>11, <1>12
  <2> HIDE DEF a, C
  <2>7. Fits(B(g) \o Bodies(OneCall(Len(C), a), {"calls"}), Append(C, Call(1, a)))
    <3> HIDE DEF B
    <3> QED BY <2>2, <2>3, OneCallFits
  <2>8. Fits(B(f[k]), w(k)) BY <2>3, <2>4, <2>5, <2>6, <2>7 DEF ts
  <2> QED BY <2>1, <2>8
<1>15. \A k \in G : Fits(B(f[k]), w(k)) OBVIOUS
<1> HIDE DEF G
<1>16. 0..n \subseteq G BY <1>1, <1>13, <1>14, Counting
<1>17. n \in 0..n BY <1>1
<1>18. Fits(B(f[n]), w(n)) BY <1>15, <1>16, <1>17
<1> QED BY <1>3, <1>9, <1>12, <1>18 DEF N, ts

-----------------------------------------------------------------------------
(* What a client has read of an OpenAI stream: text, reasoning and parts.  *)
ChatView(c, t, r, P) ==
  /\ c \in Seq(Chunks) /\ t \in Seq(Sym) /\ r \in Seq(Sym) /\ P \in Seq(PartSet)
  /\ Bodies(c, {"delta"}) = t /\ Bodies(c, {"reasoning_delta"}) = r /\ Bodies(c, {"calls"}) = P

(* Every type of chunk a client puts together has such bodies.             *)
LEMMA ChunksBodied ==
  /\ Bodied(Chunks, {"delta"}, Sym) /\ Bodied(Chunks, {"reasoning_delta"}, Sym)
  /\ Bodied(Chunks, {"calls"}, PartSet)
<1>1. \A e \in Chunks : e.type \in {"delta", "reasoning_delta"} => e \in Deltas
  BY DEF Chunks, Plain, Deltas, CallItems, FinishItems
<1>2. \A e \in Chunks : e.type = "calls" => e \in CallItems
  BY DEF Chunks, Plain, Deltas, CallItems, FinishItems
<1>3. \A e \in Deltas : e.body \in Seq(Sym) BY DEF Deltas
<1>4. \A e \in CallItems : e.body \in Seq(PartSet) BY DEF CallItems
<1> QED BY <1>1, <1>2, <1>3, <1>4 DEF Bodied

(* One more chunk.                                                         *)
LEMMA ViewOne ==
  ASSUME NEW c, NEW t, NEW r, NEW P, ChatView(c, t, r, P), NEW e \in Chunks
  PROVE  ChatView(c \o <<e>>, IF e.type = "delta" THEN t \o e.body ELSE t,
                  IF e.type = "reasoning_delta" THEN r \o e.body ELSE r,
                  IF e.type = "calls" THEN P \o e.body ELSE P)
<1> DEFINE d == Append(c, e)
           B(type) == Bodies(c, {type})
           N(type) == Bodies(d, {type})
           b(type) == IF e.type = type THEN e.body ELSE <<>>
<1>1. c \in Seq(Chunks) /\ t \in Seq(Sym) /\ r \in Seq(Sym) /\ P \in Seq(PartSet)
      /\ B("delta") = t /\ B("reasoning_delta") = r /\ B("calls") = P
  BY DEF ChatView
<1>2. d \in Seq(Chunks) /\ c \o <<e>> = d BY <1>1
<1>3. ASSUME NEW T, NEW type, Bodied(Chunks, {type}, T)
      PROVE  N(type) = B(type) \o b(type) /\ b(type) \in Seq(T)
  <2> DEFINE ts == {type}
  <2>1. Bodied(Chunks, ts, T) /\ (e.type \in ts <=> e.type = type) BY <1>3
  <2> HIDE DEF ts
  <2>2. \A v \in Seq(Chunks) :
          /\ Bodies(v, ts) \in Seq(T)
          /\ v = <<>> => Bodies(v, ts) = <<>>
          /\ \A x \in Chunks : Bodies(Append(v, x), ts) = Bodies(v, ts) \o IF x.type \in ts THEN x.body ELSE <<>>
    BY <2>1, BodiesAll
  <2>3. Bodies(d, ts) = Bodies(c, ts) \o b(type) BY <1>1, <2>1, <2>2
  <2>4. b(type) \in Seq(T) BY <2>1 DEF Bodied
  <2> QED BY <2>3, <2>4 DEF ts
<1>4. /\ N("delta") = t \o b("delta") /\ b("delta") \in Seq(Sym)
      /\ N("reasoning_delta") = r \o b("reasoning_delta") /\ b("reasoning_delta") \in Seq(Sym)
      /\ N("calls") = P \o b("calls") /\ b("calls") \in Seq(PartSet)
  BY <1>1, <1>3, ChunksBodied
<1> HIDE DEF N, d, B
<1>5. ASSUME NEW T, NEW x \in Seq(T), NEW y, y \in Seq(T) PROVE x \o y \in Seq(T) /\ x \o <<>> = x
  BY <1>5, ConcatProperties, ConcatEmptySeq
<1>6. N("delta") = (IF e.type = "delta" THEN t \o e.body ELSE t) /\ N("delta") \in Seq(Sym)
  BY <1>1, <1>4, <1>5
<1>7. N("reasoning_delta") = (IF e.type = "reasoning_delta" THEN r \o e.body ELSE r) /\ N("reasoning_delta") \in Seq(Sym)
  BY <1>1, <1>4, <1>5
<1>8. N("calls") = (IF e.type = "calls" THEN P \o e.body ELSE P) /\ N("calls") \in Seq(PartSet)
  BY <1>1, <1>4, <1>5
<1> QED BY <1>2, <1>6, <1>7, <1>8 DEF ChatView, N

(* A chunk of another type changes nothing of it.                          *)
LEMMA ViewSame ==
  ASSUME NEW c, NEW t, NEW r, NEW P, ChatView(c, t, r, P),
         NEW e \in Chunks, e.type \notin {"delta", "reasoning_delta", "calls"}
  PROVE  ChatView(c \o <<e>>, t, r, P)
BY ViewOne

(* Chunks of calls only add parts.                                         *)
LEMMA ViewCalls ==
  ASSUME NEW c, NEW t, NEW r, NEW P, ChatView(c, t, r, P), NEW s \in Seq(CallItems)
  PROVE  ChatView(c \o s, t, r, P \o Bodies(s, {"calls"}))
<1>1. c \in Seq(Chunks) /\ t \in Seq(Sym) /\ r \in Seq(Sym) /\ P \in Seq(PartSet)
      /\ Bodies(c, {"delta"}) = t /\ Bodies(c, {"reasoning_delta"}) = r /\ Bodies(c, {"calls"}) = P
  BY DEF ChatView
<1>2. s \in Seq(Chunks) /\ DOMAIN s = 1..Len(s) /\ Len(s) \in Nat
      /\ \A k \in 1..Len(s) : s[k].type = "calls"
  <2>1. Len(s) \in Nat /\ DOMAIN s = 1..Len(s) /\ \A k \in 1..Len(s) : s[k] \in CallItems OBVIOUS
  <2>2. \A k \in 1..Len(s) : s[k] \in Chunks BY <2>1 DEF Chunks
  <2>3. \A k \in 1..Len(s) : s[k].type = "calls" BY <2>1 DEF CallItems
  <2>4. s \in Seq(Chunks) BY <2>1, <2>2
  <2> QED BY <2>1, <2>3, <2>4
<1>3. c \o s \in Seq(Chunks) BY <1>1, <1>2, ConcatProperties
<1>4. ASSUME NEW type \in {"delta", "reasoning_delta"}
      PROVE  Bodies(c \o s, {type}) = Bodies(c, {type}) \o Bodies(s, {type}) /\ Bodies(s, {type}) = <<>>
  <2> DEFINE ts == {type}
  <2>1. Bodied(Chunks, ts, Sym) BY ChunksBodied
  <2>2. \A k \in 1..Len(s) : s[k].type \notin ts BY <1>2
  <2> HIDE DEF ts
  <2>3. Bodies(s, ts) = <<>> BY <1>2, <2>2, BodiesNone
  <2>5. \A v1, v2 \in Seq(Chunks) : Bodies(v1 \o v2, ts) = Bodies(v1, ts) \o Bodies(v2, ts) BY <2>1, BodiesJoin
  <2>4. Bodies(c \o s, ts) = Bodies(c, ts) \o Bodies(s, ts) BY <1>1, <1>2, <2>5
  <2> QED BY <2>3, <2>4 DEF ts
<1>5. Bodies(c \o s, {"calls"}) = P \o Bodies(s, {"calls"}) /\ P \o Bodies(s, {"calls"}) \in Seq(PartSet)
  <2> DEFINE ts == {"calls"}
  <2>1. Bodied(Chunks, ts, PartSet) BY ChunksBodied
  <2> HIDE DEF ts
  <2>5. \A v1, v2 \in Seq(Chunks) : Bodies(v1 \o v2, ts) = Bodies(v1, ts) \o Bodies(v2, ts) BY <2>1, BodiesJoin
  <2>2. Bodies(c \o s, ts) = Bodies(c, ts) \o Bodies(s, ts) BY <1>1, <1>2, <2>5
  <2>3. Bodies(s, ts) \in Seq(PartSet) BY <1>2, <2>1, BodiesFacts
  <2>4. P \o Bodies(s, ts) \in Seq(PartSet) BY <1>1, <2>3, ConcatProperties
  <2> QED BY <1>1, <2>2, <2>4 DEF ts
<1>6. Bodies(c \o s, {"delta"}) = t /\ Bodies(c \o s, {"reasoning_delta"}) = r
  <2>1. Bodies(c \o s, {"delta"}) = t \o <<>> /\ Bodies(c \o s, {"reasoning_delta"}) = r \o <<>> BY <1>1, <1>4
  <2> QED BY <1>1, <2>1, ConcatEmptySeq
<1> QED BY <1>1, <1>3, <1>5, <1>6 DEF ChatView
-----------------------------------------------------------------------------
(* The chunks of both OpenAI streams and the reply put together agree.     *)
Agree(c, l, w) ==
  /\ ChatView(c.chunks, w.text, w.reasoning, Bodies(c.chunks, {"calls"}))
  /\ Fits(Bodies(c.chunks, {"calls"}), w.calls)
  /\ ChatView(l.chunks, l.text, <<>>, <<>>)

(* The parts a client has read are those of the chunks.                    *)
LEMMA AgreeFrom ==
  ASSUME NEW c, NEW l, NEW w, NEW P, ChatView(c.chunks, w.text, w.reasoning, P), Fits(P, w.calls),
         ChatView(l.chunks, l.text, <<>>, <<>>)
  PROVE  Agree(c, l, w)
BY DEF ChatView, Agree

(* The chunks of whole calls are no other.                                 *)
LEMMA NoParts ==
  ASSUME NEW P, Fits(P, <<>>) PROVE P = <<>>
<1>1. P \in Seq(PartSet) /\ \A j \in 1..Len(P) : P[j].index < 0
  <2>1. Len(<<>>) = 0 OBVIOUS
  <2> QED BY <2>1 DEF Fits
<1>2. \A j \in 1..Len(P) : P[j] \in PartSet BY <1>1
<1>3. \A j \in 1..Len(P) : FALSE BY <1>1, <1>2 DEF PartSet
<1>4. Len(P) \in Nat BY <1>1
<1>5. Len(P) = 0 BY <1>3, <1>4
<1> QED BY <1>1, <1>5

(* An event keeps the agreement: parts begin the next calls or go on with  *)
(* calls there are, and whole calls come once.                             *)
LEMMA FeedAgrees ==
  ASSUME NEW type, NEW body, Sent(type, body), chat \in ChatSet, legacy \in LegacySet, whole \in WholeSet,
         chat.completed = FALSE, legacy.completed = FALSE, Agree(chat, legacy, whole),
         type = "tool_calls" => whole.calls = <<>>, NEW grows \in BOOLEAN,
         type = "tool_call_delta" => \A k \in 1..Len(body) :
           IF grows THEN body[k].index = Len(whole.calls) + k - 1 ELSE body[k].index < Len(whole.calls)
  PROVE  /\ Agree(OnChat(type, body), OnLegacy(type, body), OnWhole(type, body))
         /\ type = "tool_call_delta" =>
              Len(OnWhole(type, body).calls) = IF grows THEN Len(whole.calls) + Len(body) ELSE Len(whole.calls)
         /\ type \in {"delta", "reasoning_delta", "completed"} => OnWhole(type, body).calls = whole.calls
<1>0. PICK c, t, r, P, C, q, u :
        /\ c = chat.chunks /\ t = whole.text /\ r = whole.reasoning /\ P = Bodies(c, {"calls"})
        /\ C = whole.calls /\ q = legacy.chunks /\ u = legacy.text
  OBVIOUS
<1>1. ChatView(c, t, r, P) /\ Fits(P, C) /\ ChatView(q, u, <<>>, <<>>) BY <1>0 DEF Agree
<1>2. CASE type \in {"delta", "reasoning_delta"} /\ body \in Seq(Sym)
  <2> DEFINE i == Item(type, body)
             j == Item("delta", body)
             c2 == OnChat(type, body)
             l2 == OnLegacy(type, body)
             w2 == OnWhole(type, body)
  <2>1. i \in Chunks /\ i.type = type /\ i.body = body /\ j \in Chunks /\ j.type = "delta" /\ j.body = body
    BY <1>2 DEF Item, Deltas, Chunks
  <2>2. c2.chunks = c \o <<i>>
    <3>1. c2 = [chat EXCEPT !.chunks = c \o <<i>>] BY <1>0, <1>2 DEF OnChat, Send
    <3> QED BY <3>1 DEF ChatSet
  <2>3. l2.chunks = q \o <<j>> /\ l2.text = u \o body
    <3>1. l2 = [[legacy EXCEPT !.chunks = q \o <<j>>] EXCEPT !.text = u \o body]
      BY <1>0, <1>2 DEF OnLegacy, Send, LegacySet
    <3> QED BY <3>1 DEF LegacySet
  <2>4. /\ w2.text = (IF type = "delta" THEN t \o body ELSE t)
        /\ w2.reasoning = (IF type = "reasoning_delta" THEN r \o body ELSE r) /\ w2.calls = C
    <3>1. CASE type = "delta"
      <4>1. w2 = [whole EXCEPT !.text = t \o body] BY <1>0, <3>1 DEF OnWhole
      <4> QED BY <1>0, <3>1, <4>1 DEF WholeSet
    <3>2. CASE type = "reasoning_delta"
      <4>1. w2 = [whole EXCEPT !.reasoning = r \o body] BY <1>0, <3>2 DEF OnWhole
      <4> QED BY <1>0, <3>2, <4>1 DEF WholeSet
    <3> QED BY <1>2, <3>1, <3>2
  <2> HIDE DEF i, j, c2, l2, w2
  <2>5. ChatView(c \o <<i>>, IF i.type = "delta" THEN t \o i.body ELSE t,
                 IF i.type = "reasoning_delta" THEN r \o i.body ELSE r, IF i.type = "calls" THEN P \o i.body ELSE P)
    BY <1>1, <2>1, ViewOne
  <2>6. ChatView(q \o <<j>>, IF j.type = "delta" THEN u \o j.body ELSE u,
                 IF j.type = "reasoning_delta" THEN <<>> \o j.body ELSE <<>>,
                 IF j.type = "calls" THEN <<>> \o j.body ELSE <<>>)
    BY <1>1, <2>1, ViewOne
  <2>7. ChatView(c2.chunks, w2.text, w2.reasoning, P) BY <1>2, <2>1, <2>2, <2>4, <2>5
  <2>8. ChatView(l2.chunks, l2.text, <<>>, <<>>) BY <2>1, <2>3, <2>6
  <2>9. Agree(c2, l2, w2) BY <1>1, <2>4, <2>7, <2>8, AgreeFrom
  <2> QED BY <1>0, <1>2, <2>4, <2>9 DEF c2, l2, w2
<1>3. CASE type = "tool_calls" /\ body \in Seq(CallSet)
  <2> DEFINE s == CallChunks(body)
             N == Normalized(body)
             c2 == OnChat(type, body)
             l2 == OnLegacy(type, body)
             w2 == OnWhole(type, body)
  <2>1. s \in Seq(CallItems) BY <1>3, CallChunksTyped
  <2>2. Fits(Bodies(s, {"calls"}), N) BY <1>3, CallsFit
  <2>3. c2.chunks = c \o s
    <3>1. c2 = [[chat EXCEPT !.chunks = c \o s] EXCEPT !.tools = TRUE] BY <1>0, <1>3 DEF OnChat, Send
    <3> QED BY <3>1 DEF ChatSet
  <2>4. l2 = legacy BY <1>3 DEF OnLegacy
  <2>5. w2.text = t /\ w2.reasoning = r /\ w2.calls = N
    <3>1. w2 = [whole EXCEPT !.calls = N, !.finish = "tool_calls"] BY <1>3 DEF OnWhole
    <3> QED BY <1>0, <3>1 DEF WholeSet
  <2> HIDE DEF s, N, c2, l2, w2
  <2>6. P = <<>> BY <1>0, <1>1, <1>3, NoParts
  <2> DEFINE B == Bodies(s, {"calls"})
  <2>7. ChatView(c \o s, t, r, P \o B) BY <1>1, <2>1, ViewCalls
  <2>8. P \o B = B
    <3>1. B \in Seq(PartSet) BY <2>2 DEF Fits
    <3> HIDE DEF B
    <3> QED BY <2>6, <3>1
  <2>9. ChatView(c2.chunks, w2.text, w2.reasoning, B) BY <2>3, <2>5, <2>7, <2>8
  <2>10. ChatView(l2.chunks, l2.text, <<>>, <<>>) BY <1>0, <1>1, <2>4
  <2> HIDE DEF B
  <2>11. Fits(B, w2.calls) BY <2>2, <2>5 DEF B
  <2>12. Agree(c2, l2, w2) BY <2>9, <2>10, <2>11, AgreeFrom
  <2> QED BY <1>3, <2>12 DEF c2, l2, w2
<1>4. CASE type = "tool_call_delta" /\ body \in Seq(PartSet)
  <2> DEFINE i == Item("calls", body)
             M == Merge(C, body)
             c2 == OnChat(type, body)
             l2 == OnLegacy(type, body)
             w2 == OnWhole(type, body)
  <2>1. i \in Chunks /\ i.type = "calls" /\ i.body = body BY <1>4 DEF Item, CallItems, Chunks
  <2>2. c2.chunks = c \o <<i>>
    <3>1. c2 = [[chat EXCEPT !.chunks = c \o <<i>>] EXCEPT !.tools = TRUE] BY <1>0, <1>4 DEF OnChat, Send
    <3> QED BY <3>1 DEF ChatSet
  <2>3. l2 = legacy BY <1>4 DEF OnLegacy
  <2>4. w2.text = t /\ w2.reasoning = r /\ w2.calls = M
    <3>1. w2 = [whole EXCEPT !.calls = M] BY <1>0, <1>4 DEF OnWhole
    <3> QED BY <1>0, <3>1 DEF WholeSet
  <2>5. \A k \in 1..Len(body) : IF grows THEN body[k].index = Len(C) + k - 1 ELSE body[k].index < Len(C)
    BY <1>0, <1>4
  <2> HIDE DEF i, c2, l2, w2
  <2>6. Fits(P \o body, M) /\ Len(M) = IF grows THEN Len(C) + Len(body) ELSE Len(C)
    BY <1>1, <1>4, <2>5, MergeFits
  <2>7. ChatView(c \o <<i>>, IF i.type = "delta" THEN t \o i.body ELSE t,
                 IF i.type = "reasoning_delta" THEN r \o i.body ELSE r, IF i.type = "calls" THEN P \o i.body ELSE P)
    BY <1>1, <2>1, ViewOne
  <2> HIDE DEF M
  <2>8. ChatView(c2.chunks, w2.text, w2.reasoning, P \o body) BY <2>1, <2>2, <2>4, <2>7
  <2>9. ChatView(l2.chunks, l2.text, <<>>, <<>>) BY <1>0, <1>1, <2>3
  <2>10. Fits(P \o body, w2.calls) BY <2>4, <2>6
  <2>11. Agree(c2, l2, w2) BY <2>8, <2>9, <2>10, AgreeFrom
  <2> QED BY <1>0, <1>4, <2>4, <2>6, <2>11 DEF c2, l2, w2
<1>5. CASE type = "completed" /\ body \in [finish : Finishes, matched : BOOLEAN]
  <2> DEFINE i == Item("finish", ChatFinish(body.finish))
             j == Item("finish", TextFinish(body.finish))
             c2 == OnChat(type, body)
             l2 == OnLegacy(type, body)
             w2 == OnWhole(type, body)
  <2>1. i \in Chunks /\ i.type = "finish" /\ j \in Chunks /\ j.type = "finish"
    BY <1>5 DEF Item, FinishItems, Chunks, ChatFinish, TextFinish, Known, Finishes
  <2>2. c2.chunks = c \o <<i>>
    <3>1. c2 = [[chat EXCEPT !.chunks = c \o <<i>>] EXCEPT !.completed = TRUE] BY <1>0, <1>5 DEF OnChat, Send
    <3> QED BY <3>1 DEF ChatSet
  <2>3. l2.chunks = q \o <<j>> /\ l2.text = u
    <3>1. l2 = [[legacy EXCEPT !.chunks = q \o <<j>>] EXCEPT !.completed = TRUE] BY <1>0, <1>5 DEF OnLegacy, Send
    <3> QED BY <1>0, <3>1 DEF LegacySet
  <2>4. w2.text = t /\ w2.reasoning = r /\ w2.calls = C
    <3>1. w2 = [whole EXCEPT !.finish = body.finish] BY <1>5 DEF OnWhole
    <3> QED BY <1>0, <3>1 DEF WholeSet
  <2> HIDE DEF i, j, c2, l2, w2
  <2>5. i.type \notin {"delta", "reasoning_delta", "calls"} /\ j.type \notin {"delta", "reasoning_delta", "calls"}
    BY <2>1
  <2>6. ChatView(c \o <<i>>, t, r, P) BY <1>1, <2>1, <2>5, ViewSame
  <2>7. ChatView(q \o <<j>>, u, <<>>, <<>>) BY <1>1, <2>1, <2>5, ViewSame
  <2>8. ChatView(c2.chunks, w2.text, w2.reasoning, P) BY <2>2, <2>4, <2>6
  <2>9. ChatView(l2.chunks, l2.text, <<>>, <<>>) BY <2>3, <2>7
  <2>10. Fits(P, w2.calls) BY <1>1, <2>4
  <2>11. Agree(c2, l2, w2) BY <2>8, <2>9, <2>10, AgreeFrom
  <2> QED BY <1>0, <1>5, <2>4, <2>11 DEF c2, l2, w2
<1> QED BY <1>2, <1>3, <1>4, <1>5 DEF Sent

(* The end of a stream changes nothing of what was read.                   *)
LEMMA ClosedView ==
  ASSUME NEW s \in Streams, NEW t, NEW r, NEW P, ChatView(s.chunks, t, r, P)
  PROVE  /\ ChatView(Closed(s).chunks, t, r, P)
         /\ s \in LegacySet => Closed(s).text = s.text
<1> DEFINE fin == Item("finish", "stop")
           don == Item("done", <<>>)
           cs == s.chunks
           e == (IF s.completed \/ s.failed THEN <<>> ELSE <<fin>>) \o <<don>>
<1>1. fin \in Chunks /\ fin.type = "finish" /\ don \in Chunks /\ don.type = "done"
  BY DEF Item, Chunks, FinishItems, Plain, Finishes
<1>2. Closed(s) = [s EXCEPT !.chunks = cs \o e] BY DEF Closed, Send
<1> HIDE DEF fin, don
<1>3. Closed(s).chunks = cs \o e BY <1>2 DEF Streams, ChatSet, LegacySet
<1>4. s \in LegacySet => Closed(s).text = s.text BY <1>2 DEF LegacySet
<1>5. fin.type \notin {"delta", "reasoning_delta", "calls"} /\ don.type \notin {"delta", "reasoning_delta", "calls"}
  BY <1>1
<1>6. cs \in Seq(Chunks) BY DEF ChatView
<1>7. CASE s.completed \/ s.failed
  <2>3. e = <<>> \o <<don>> BY <1>7
  <2>4. \A v : <<>> \o <<v>> = <<v>> OBVIOUS
  <2>1. e = <<don>> BY <2>3, <2>4
  <2>2. ChatView(cs \o <<don>>, t, r, P) BY <1>1, <1>5, ViewSame
  <2> QED BY <1>3, <1>4, <2>1, <2>2
<1>8. CASE ~(s.completed \/ s.failed)
  <2> HIDE DEF cs
  <2>1. ChatView(cs \o <<fin>>, t, r, P) BY <1>1, <1>5, ViewSame DEF cs
  <2>2. ChatView((cs \o <<fin>>) \o <<don>>, t, r, P) BY <1>1, <1>5, <2>1, ViewSame
  <2>3. <<fin>> \in Seq(Chunks) /\ <<don>> \in Seq(Chunks) BY <1>1
  <2>4. (cs \o <<fin>>) \o <<don>> = cs \o (<<fin>> \o <<don>>) BY <1>6, <2>3, ConcatAssociative
  <2>5. e = <<fin>> \o <<don>> BY <1>8
  <2> QED BY <1>3, <1>4, <2>2, <2>4, <2>5
<1> QED BY <1>7, <1>8

(* Nor does an error before it.                                            *)
LEMMA FailedView ==
  ASSUME NEW s \in Streams, NEW t, NEW r, NEW P, ChatView(s.chunks, t, r, P)
  PROVE  /\ ChatView(Failed(s).chunks, t, r, P)
         /\ s \in LegacySet => Failed(s) \in LegacySet /\ Failed(s).text = s.text
         /\ s \in ChatSet => Failed(s) \in ChatSet
<1> DEFINE err == Item("error", <<>>)
           f == s.chunks \o <<err>>
<1>1. err \in Chunks /\ err.type = "error" BY DEF Item, Chunks, Plain
<1>2. Failed(s) = [[s EXCEPT !.chunks = f] EXCEPT !.failed = TRUE] BY DEF Failed, Send
<1> HIDE DEF err
<1>3. err.type \notin {"delta", "reasoning_delta", "calls"} BY <1>1
<1>4. ChatView(f, t, r, P) BY <1>1, <1>3, ViewSame
<1>5. f \in Seq(Chunks) BY <1>4 DEF ChatView
<1> HIDE DEF f
<1>6. Failed(s).chunks = f BY <1>2 DEF Streams, ChatSet, LegacySet
<1>7. s \in LegacySet => Failed(s) \in LegacySet /\ Failed(s).text = s.text BY <1>2, <1>5 DEF LegacySet
<1>8. s \in ChatSet => Failed(s) \in ChatSet BY <1>2, <1>5 DEF ChatSet
<1> QED BY <1>4, <1>6, <1>7, <1>8

(* So the agreement holds to the end.                                      *)
LEMMA EndsAgree ==
  ASSUME NEW c \in ChatSet, NEW l \in LegacySet, NEW w, Agree(c, l, w)
  PROVE  Agree(Closed(c), Closed(l), w) /\ Agree(Closed(Failed(c)), Closed(Failed(l)), w)
<1> DEFINE P == Bodies(c.chunks, {"calls"})
           fc == Failed(c)
           fl == Failed(l)
<1>1. ChatView(c.chunks, w.text, w.reasoning, P) /\ Fits(P, w.calls) /\ ChatView(l.chunks, l.text, <<>>, <<>>)
  BY DEF Agree
<1> HIDE DEF P
<1>2. c \in Streams /\ l \in Streams BY DEF Streams
<1>3. /\ ChatView(fc.chunks, w.text, w.reasoning, P) /\ fc \in ChatSet
      /\ ChatView(fl.chunks, l.text, <<>>, <<>>) /\ fl \in LegacySet /\ fl.text = l.text
  BY <1>1, <1>2, FailedView
<1> HIDE DEF fc, fl
<1>4. fc \in Streams /\ fl \in Streams BY <1>3 DEF Streams
<1>5. /\ ChatView(Closed(c).chunks, w.text, w.reasoning, P) /\ ChatView(Closed(l).chunks, l.text, <<>>, <<>>)
      /\ Closed(l).text = l.text
  BY <1>1, <1>2, ClosedView
<1>6. /\ ChatView(Closed(fc).chunks, w.text, w.reasoning, P) /\ ChatView(Closed(fl).chunks, l.text, <<>>, <<>>)
      /\ Closed(fl).text = l.text
  BY <1>3, <1>4, ClosedView
<1>7. Agree(Closed(c), Closed(l), w) BY <1>1, <1>5, AgreeFrom
<1>8. Agree(Closed(fc), Closed(fl), w) BY <1>1, <1>6, AgreeFrom
<1> QED BY <1>7, <1>8 DEF fc, fl
-----------------------------------------------------------------------------
BlocksRuns(f, items, n, V) ==
  /\ f \in [0..n -> V] /\ f[0] = <<>> /\ \A i \in 1..n : f[i] = Taking(f[i - 1], items[i])
  /\ BlocksOf(items) = f[n]

(* The blocks a client puts together, frame by frame.                      *)
LEMMA BlocksFold ==
  ASSUME NEW items, NEW n \in Nat, DOMAIN items = 1..n, NEW V, <<>> \in V,
         \A v \in V : \A i \in 1..n : Taking(v, items[i]) \in V
  PROVE  \E f : BlocksRuns(f, items, n, V)
<1> DEFINE D == DOMAIN items
           Is(it) == it = [s \in SUBSET D |-> IF s = {} THEN <<>> ELSE Taking(it[s \ {Max(s)}], items[Max(s)])]
           it == CHOOSE it : Is(it)
           step == [i \in 1..n |-> [v \in V |-> Taking(v, items[i])]]
<1>1. BlocksOf(items) = it[D] BY DEF BlocksOf, FoldLeft, MapThenFoldSet
<1>2. \A i \in 1..n : \A v \in V : step[i][v] = Taking(v, items[i]) OBVIOUS
<1> HIDE DEF step
<1>3. StepsIn(step, 1..n, V) BY <1>2 DEF StepsIn
<1>4. \E k : Is(k)
  <2>1. PICK k : MaxFold(k, n, <<>>, V, step) BY <1>3, FoldFunctionExists
  <2>2. \A s \in SUBSET D : k[s] = IF s = {} THEN <<>> ELSE Taking(k[s \ {Max(s)}], items[Max(s)])
    <3> TAKE s \in SUBSET D
    <3>1. CASE s = {} BY <2>1, <3>1 DEF MaxFold
    <3>2. CASE s # {}
      <4>1. Max(s) \in 1..n BY <3>2, MaxFacts
      <4>2. k[s \ {Max(s)}] \in V BY <2>1 DEF MaxFold
      <4>3. k[s] = step[Max(s)][k[s \ {Max(s)}]] BY <2>1, <3>2 DEF MaxFold
      <4> QED BY <1>2, <3>2, <4>1, <4>2, <4>3
    <3> QED BY <3>1, <3>2
  <2>3. k = [s \in SUBSET D |-> k[s]] BY <2>1 DEF MaxFold
  <2>4. Is(k) BY <2>2, <2>3
  <2> QED BY <2>4
<1>5. Is(it) BY <1>4
<1> HIDE DEF it
<1>6. \A s \in SUBSET (1..n) : it[s] = IF s = {} THEN <<>> ELSE Taking(it[s \ {Max(s)}], items[Max(s)])
  BY <1>5
<1>7. Folds(it, n, <<>>, V, step)
  <2>1. it[{}] = <<>> BY <1>6
  <2>2. ASSUME NEW s \in SUBSET (1..n), s # {}, it[s \ {Max(s)}] \in V
        PROVE  it[s] = step[Max(s)][it[s \ {Max(s)}]]
    <3>1. Max(s) \in 1..n BY <2>2, MaxFacts
    <3> QED BY <1>2, <1>6, <2>2, <3>1
  <2> QED BY <2>1, <2>2 DEF Folds
<1>8. PICK f : Through(f, n, <<>>, V, step) /\ it[1..n] = f[n] BY <1>3, <1>7, FoldGoesThrough
<1>9. f \in [0..n -> V] /\ f[0] = <<>> BY <1>8 DEF Through
<1>10. ASSUME NEW i \in 1..n PROVE f[i] = Taking(f[i - 1], items[i])
  <2>1. i - 1 \in 0..n OBVIOUS
  <2>2. f[i] = step[i][f[i - 1]] /\ f[i - 1] \in V BY <1>8, <2>1 DEF Through
  <2> QED BY <1>2, <2>2
<1> QED BY <1>1, <1>8, <1>9, <1>10 DEF BlocksRuns

(* What one frame makes of the blocks.                                     *)
LEMMA TakingTyped ==
  ASSUME NEW B \in Seq(BlockSet), NEW i \in Frames
  PROVE  /\ Taking(B, i) \in Seq(BlockSet)
         /\ i.type \notin {"content_block_start", "content_block_delta"} => Taking(B, i) = B
<1>1. CASE i.type = "content_block_start"
  <2>1. i \in BlockFrames BY <1>1 DEF Frames, OtherFrames
  <2>2. Block(i.kind, <<>>) \in BlockSet BY <2>1 DEF BlockFrames, Block, BlockSet
  <2>3. Taking(B, i) = Append(B, Block(i.kind, <<>>)) BY <1>1 DEF Taking
  <2> QED BY <1>1, <2>2, <2>3
<1>2. CASE i.type = "content_block_delta"
  <2> DEFINE k == i.index + 1
             r == [B EXCEPT ![k].body = @ \o i.body]
             b == [B[k] EXCEPT !.body = B[k].body \o i.body]
  <2>1. i \in BlockFrames BY <1>2 DEF Frames, OtherFrames
  <2>2. i.body \in Seq(Sym) /\ k \in Nat BY <2>1 DEF BlockFrames
  <2>3. Taking(B, i) = r BY <1>2 DEF Taking
  <2>4. r \in Seq(BlockSet)
    <3>1. CASE k \in 1..Len(B)
      <4>1. B[k] \in BlockSet BY <3>1
      <4>2. B[k].body \o i.body \in Seq(Sym) BY <2>2, <4>1, ConcatProperties DEF BlockSet
      <4>3. b \in BlockSet BY <4>1, <4>2 DEF BlockSet
      <4>4. r = [B EXCEPT ![k] = b] BY <3>1, <4>1 DEF BlockSet
      <4> HIDE DEF k, b, r
      <4> QED BY <3>1, <4>3, <4>4, ExceptSeq
    <3>2. CASE k \notin 1..Len(B)
      <4>1. r = B
        <5>1. DOMAIN B = 1..Len(B) /\ Len(B) \in Nat /\ \A j \in 1..Len(B) : B[j] \in BlockSet OBVIOUS
        <5>2. DOMAIN r = 1..Len(B) /\ \A j \in 1..Len(B) : r[j] = IF j = k THEN r[k] ELSE B[j] BY <5>1
        <5>3. r = [j \in 1..Len(B) |-> r[j]] BY <5>1
        <5> HIDE DEF k, r
        <5>4. \A j \in 1..Len(B) : r[j] = B[j] BY <3>2, <5>2
        <5>5. r \in [1..Len(B) -> BlockSet] BY <5>1, <5>3, <5>4
        <5>6. r \in Seq(BlockSet) /\ Len(r) = Len(B) BY <5>1, <5>5, SeqFrom
        <5> QED BY <5>4, <5>6, SeqEqual
      <4> QED BY <4>1
    <3> QED BY <3>1, <3>2
  <2> QED BY <1>2, <2>3, <2>4
<1>3. CASE i.type \notin {"content_block_start", "content_block_delta"} BY <1>3 DEF Taking
<1> QED BY <1>1, <1>2, <1>3

(* One frame more is taken last.                                           *)
LEMMA OneMoreTaken ==
  ASSUME NEW s \in Seq(Frames), NEW i \in Frames
  PROVE  /\ BlocksOf(s) \in Seq(BlockSet) /\ BlocksOf(Append(s, i)) = Taking(BlocksOf(s), i)
         /\ s = <<>> => BlocksOf(s) = <<>>
<1> DEFINE V == Seq(BlockSet)
           n == Len(s)
           u == Append(s, i)
           m == n + 1
<1>1. n \in Nat /\ m \in Nat /\ DOMAIN s = 1..n /\ \A k \in 1..n : s[k] \in Frames OBVIOUS
<1>2. DOMAIN u = 1..m /\ u[m] = i /\ (\A k \in 1..n : u[k] = s[k]) /\ \A k \in 1..m : u[k] \in Frames OBVIOUS
<1>3. <<>> \in V OBVIOUS
<1>4. (\A v \in V : \A k \in 1..n : Taking(v, s[k]) \in V) /\ \A v \in V : \A k \in 1..m : Taking(v, u[k]) \in V
  BY <1>1, <1>2, TakingTyped
<1> HIDE DEF V, n, u
<1>5. PICK f : BlocksRuns(f, s, n, V) BY <1>1, <1>3, <1>4, BlocksFold
<1>6. PICK g : BlocksRuns(g, u, m, V)
  <2> HIDE DEF m
  <2> QED BY <1>1, <1>2, <1>3, <1>4, BlocksFold
<1>7. /\ f \in [0..n -> V] /\ f[0] = <<>> /\ BlocksOf(s) = f[n]
      /\ \A k \in 1..n : f[k] = Taking(f[k - 1], s[k])
  BY <1>5 DEF BlocksRuns
<1>8. /\ g \in [0..m -> V] /\ g[0] = <<>> /\ BlocksOf(u) = g[m]
      /\ \A k \in 1..m : g[k] = Taking(g[k - 1], u[k])
  BY <1>6 DEF BlocksRuns
<1> DEFINE G == {k \in 0..n : f[k] = g[k]}
<1>9. 0 \in G BY <1>1, <1>7, <1>8
<1>10. ASSUME NEW k \in 1..n, k - 1 \in G PROVE k \in G
  <2>1. k \in 1..m /\ k \in 0..n BY <1>1
  <2>2. f[k - 1] = g[k - 1] BY <1>10
  <2>3. f[k] = Taking(f[k - 1], s[k]) BY <1>7
  <2>4. g[k] = Taking(g[k - 1], u[k]) BY <1>8, <2>1
  <2>5. u[k] = s[k] BY <1>2
  <2>6. f[k] = g[k] BY <2>2, <2>3, <2>4, <2>5
  <2> QED BY <2>1, <2>6
<1>11. \A k \in G : f[k] = g[k] OBVIOUS
<1> HIDE DEF G
<1>12. 0..n \subseteq G BY <1>1, <1>9, <1>10, Counting
<1>13. n \in 0..n /\ m \in 1..m /\ m - 1 = n BY <1>1
<1>14. f[n] = g[n] BY <1>11, <1>12, <1>13
<1>15. g[m] = Taking(g[n], i)
  <2>1. g[m] = Taking(g[m - 1], u[m]) BY <1>8, <1>13
  <2> QED BY <1>2, <1>13, <2>1
<1>16. BlocksOf(s) \in V BY <1>7, <1>13
<1>17. s = <<>> => BlocksOf(s) = <<>>
  <2>1. s = <<>> => n = 0 BY DEF n
  <2> QED BY <1>7, <2>1
<1> QED BY <1>7, <1>8, <1>14, <1>15, <1>16, <1>17 DEF V, u

-----------------------------------------------------------------------------
(* An Anthropic stream, and the blocks a client puts together from it.     *)
BlocksSeen(w, B) == w \in WireSet /\ B \in Seq(BlockSet) /\ BlocksOf(w.frames) = B /\ Len(B) = w.index

(* A frame that is pushed.                                                 *)
LEMMA PushSeen ==
  ASSUME NEW w, NEW B, BlocksSeen(w, B), NEW i \in Frames
  PROVE  /\ Push(w, <<i>>) \in WireSet /\ BlocksOf(Push(w, <<i>>).frames) = Taking(B, i)
         /\ Taking(B, i) \in Seq(BlockSet)
         /\ Push(w, <<i>>).index = w.index /\ Push(w, <<i>>).open = w.open /\ Push(w, <<i>>).reason = w.reason
<1> DEFINE s == w.frames
           f == Append(s, i)
           p == Push(w, <<i>>)
<1>1. w \in WireSet /\ s \in Seq(Frames) /\ BlocksOf(s) = B /\ B \in Seq(BlockSet) BY DEF BlocksSeen, WireSet
<1>2. p = [w EXCEPT !.frames = f] /\ p \in WireSet BY <1>1, PushOne
<1>3. p.frames = f /\ p.index = w.index /\ p.open = w.open /\ p.reason = w.reason BY <1>1, <1>2 DEF WireSet
<1> HIDE DEF s, p
<1>4. BlocksOf(f) = Taking(B, i) BY <1>1, OneMoreTaken
<1> QED BY <1>1, <1>2, <1>3, <1>4, TakingTyped DEF p

(* Closing a block tells no more of it.                                    *)
LEMMA CloseSeen ==
  ASSUME NEW w, NEW B, BlocksSeen(w, B), w.open # "none" => w.index > 0
  PROVE  BlocksSeen(CloseBlock(w), B) /\ CloseBlock(w).open = "none" /\ CloseBlock(w).index = w.index
         /\ CloseBlock(w).reason = w.reason
<1>1. CASE w.open = "none" BY <1>1 DEF CloseBlock
<1>2. CASE w.open # "none"
  <2> DEFINE i == Frame("content_block_stop", w.index - 1, w.open, <<>>)
             p == Push(w, <<i>>)
             r == [p EXCEPT !.open = "none"]
  <2>1. w.index \in Nat /\ w.index > 0 /\ w.open \in BlockKinds BY <1>2 DEF BlocksSeen, WireSet
  <2>2. i \in Frames /\ i.type = "content_block_stop"
    <3>1. w.index - 1 \in Nat BY <2>1
    <3> QED BY <2>1, <3>1 DEF Frame, Frames, BlockFrames
  <2>3. CloseBlock(w) = r BY <1>2 DEF CloseBlock
  <2> HIDE DEF i
  <2>4. p \in WireSet /\ BlocksOf(p.frames) = Taking(B, i) /\ p.index = w.index /\ p.reason = w.reason
    BY <2>2, PushSeen
  <2>5. Taking(B, i) = B BY <2>2, TakingTyped DEF BlocksSeen
  <2> HIDE DEF p
  <2>6. r \in WireSet /\ r.frames = p.frames /\ r.index = p.index /\ r.open = "none" /\ r.reason = p.reason
    BY <2>4 DEF WireSet
  <2> HIDE DEF r
  <2>7. BlocksSeen(r, B) BY <2>4, <2>5, <2>6 DEF BlocksSeen
  <2> QED BY <2>3, <2>4, <2>6, <2>7
<1> QED BY <1>1, <1>2

(* Opening one adds it,                                                    *)
LEMMA OpenSeen ==
  ASSUME NEW w, NEW B, BlocksSeen(w, B), w.open # "none" => w.index > 0, NEW kind \in BlockKinds
  PROVE  /\ BlocksSeen(OpenBlock(w, kind), Append(B, Block(kind, <<>>))) /\ OpenBlock(w, kind).open = kind
         /\ OpenBlock(w, kind).reason = w.reason
<1> DEFINE c == CloseBlock(w)
           i == Frame("content_block_start", c.index, kind, <<>>)
           p == Push(c, <<i>>)
           r == [p EXCEPT !.open = kind, !.index = p.index + 1]
           b == Block(kind, <<>>)
<1>1. BlocksSeen(c, B) /\ c.reason = w.reason BY CloseSeen
<1> HIDE DEF c
<1>2. c.index \in Nat BY <1>1 DEF BlocksSeen, WireSet
<1>3. i \in Frames /\ i.type = "content_block_start" /\ i.kind = kind BY <1>2 DEF Frame, Frames, BlockFrames
<1>4. OpenBlock(w, kind) = r
  <2>1. OpenBlock(w, kind) = OpenAt(c, kind) BY DEF OpenBlock, c
  <2> QED BY <2>1 DEF OpenAt
<1> HIDE DEF i
<1>5. p \in WireSet /\ BlocksOf(p.frames) = Taking(B, i) /\ p.index = c.index /\ p.reason = c.reason
  BY <1>1, <1>3, PushSeen
<1>6. Taking(B, i) = Append(B, b) BY <1>3 DEF Taking
<1> HIDE DEF p
<1>7. r \in WireSet /\ r.frames = p.frames /\ r.index = p.index + 1 /\ r.open = kind /\ r.reason = p.reason
  <2>1. p.index + 1 \in Nat /\ kind \in {"none"} \cup BlockKinds BY <1>2, <1>5
  <2>2. r \in WireSet BY <1>5, <2>1 DEF WireSet
  <2> QED BY <1>5, <2>2 DEF WireSet
<1>8. b \in BlockSet BY DEF Block, BlockSet
<1> HIDE DEF r, b
<1>9. B \in Seq(BlockSet) /\ Len(B) = c.index BY <1>1 DEF BlocksSeen
<1>10. Append(B, b) \in Seq(BlockSet) /\ Len(Append(B, b)) = c.index + 1 BY <1>8, <1>9
<1>11. BlocksSeen(r, Append(B, b)) BY <1>5, <1>6, <1>7, <1>10 DEF BlocksSeen
<1> QED BY <1>1, <1>4, <1>5, <1>7, <1>11 DEF b

(* and what is filled in comes to the last.                                *)
LEMMA FillSeen ==
  ASSUME NEW w, NEW B, BlocksSeen(w, B), B # <<>>, NEW kind \in BlockKinds, NEW body \in Seq(Sym)
  PROVE  /\ BlocksSeen(Fill(w, kind, body), [B EXCEPT ![Len(B)].body = @ \o body])
         /\ Fill(w, kind, body).open = w.open /\ Fill(w, kind, body).reason = w.reason
<1> DEFINE n == Len(B)
           r == [B EXCEPT ![n].body = @ \o body]
<1>1. B \in Seq(BlockSet) /\ n \in Nat /\ n > 0 /\ n = w.index /\ w \in WireSet /\ B[n] \in BlockSet
  <2>1. B \in Seq(BlockSet) /\ n = w.index /\ w \in WireSet BY DEF BlocksSeen
  <2>2. n \in Nat /\ n > 0 BY <2>1
  <2> QED BY <2>1, <2>2
<1>2. CASE body = <<>>
  <2>1. r = B
    <3>1. B[n].body \o <<>> = B[n].body BY <1>1 DEF BlockSet
    <3>2. [B[n] EXCEPT !.body = B[n].body] = B[n] BY <1>1 DEF BlockSet
    <3>3. r = [B EXCEPT ![n] = [B[n] EXCEPT !.body = B[n].body \o body]] BY <1>1 DEF BlockSet
    <3>4. r = [B EXCEPT ![n] = B[n]] BY <1>2, <3>1, <3>2, <3>3
    <3>5. \A v \in BlockSet : /\ [B EXCEPT ![n] = v] \in Seq(BlockSet) /\ Len([B EXCEPT ![n] = v]) = Len(B)
                             /\ [B EXCEPT ![n] = v][n] = v
                             /\ \A j \in 1..Len(B) : j # n => [B EXCEPT ![n] = v][j] = B[j]
      BY <1>1, ExceptSeq
    <3> HIDE DEF r
    <3>6. r \in Seq(BlockSet) /\ Len(r) = Len(B) /\ \A j \in 1..Len(B) : r[j] = B[j] BY <1>1, <3>4, <3>5
    <3> QED BY <1>1, <3>6, SeqEqual
  <2> QED BY <1>2, <2>1 DEF Fill
<1>3. CASE body # <<>>
  <2> DEFINE i == Frame("content_block_delta", w.index - 1, kind, body)
             p == Push(w, <<i>>)
  <2>1. i \in Frames /\ i.type = "content_block_delta" /\ i.index = w.index - 1 /\ i.body = body
    <3>1. w.index - 1 \in Nat BY <1>1
    <3> QED BY <3>1 DEF Frame, Frames, BlockFrames
  <2>2. Fill(w, kind, body) = p BY <1>3 DEF Fill
  <2> HIDE DEF i
  <2>3. /\ p \in WireSet /\ BlocksOf(p.frames) = Taking(B, i) /\ p.index = w.index /\ p.reason = w.reason
        /\ p.open = w.open /\ Taking(B, i) \in Seq(BlockSet)
    BY <2>1, PushSeen
  <2>4. Taking(B, i) = r
    <3>1. i.index + 1 = n BY <1>1, <2>1
    <3>2. Taking(B, i) = [B EXCEPT ![i.index + 1].body = @ \o i.body] BY <2>1 DEF Taking
    <3> QED BY <2>1, <3>1, <3>2
  <2>5. Len(r) = n
    <3>1. r \in Seq(BlockSet) BY <2>3, <2>4
    <3>2. DOMAIN r = DOMAIN B OBVIOUS
    <3> HIDE DEF r
    <3> QED BY <1>1, <3>1, <3>2
  <2> HIDE DEF p, r, n
  <2>6. BlocksSeen(p, r) BY <1>1, <2>3, <2>4, <2>5 DEF BlocksSeen
  <2> QED BY <2>2, <2>3, <2>6 DEF r, n
<1> QED BY <1>2, <1>3
-----------------------------------------------------------------------------
(* Such a stream as long as it goes on: the open block, of text or of      *)
(* thinking, is the last one the message has.                              *)
Streaming(w, B) ==
  /\ BlocksSeen(w, B) /\ (w.open # "none" => w.index > 0)
  /\ \A kind \in {"text", "thinking"} : w.open = kind <=> (B # <<>> /\ Last(B).kind = kind)

(* More in the last block.                                                 *)
LEMMA Filled ==
  ASSUME NEW B \in Seq(BlockSet), B # <<>>, NEW body \in Seq(Sym)
  PROVE  /\ [B EXCEPT ![Len(B)].body = @ \o body] \in Seq(BlockSet)
         /\ Len([B EXCEPT ![Len(B)].body = @ \o body]) = Len(B)
         /\ [B EXCEPT ![Len(B)].body = @ \o body][Len(B)] = Block(B[Len(B)].kind, B[Len(B)].body \o body)
         /\ \A k \in 1..(Len(B) - 1) : [B EXCEPT ![Len(B)].body = @ \o body][k] = B[k]
<1> DEFINE n == Len(B)
           r == [B EXCEPT ![n].body = @ \o body]
           kind == B[n].kind
           all == B[n].body \o body
           b == Block(kind, all)
<1>1. n \in Nat /\ n > 0 /\ n \in 1..Len(B) /\ B[n] \in BlockSet
  <2>1. n \in Nat /\ n > 0 OBVIOUS
  <2> QED BY <2>1
<1>2. kind \in BlockKinds /\ B[n].body \in Seq(Sym) /\ all \in Seq(Sym) BY <1>1, ConcatProperties DEF BlockSet
<1>3. b \in BlockSet BY <1>2 DEF Block, BlockSet
<1>4. r = [B EXCEPT ![n] = b]
  <2>1. r = [B EXCEPT ![n] = [B[n] EXCEPT !.body = all]] BY <1>1
  <2>2. B[n] = [kind |-> kind, body |-> B[n].body] BY <1>1 DEF BlockSet
  <2>3. PICK v, u, x : v = B[n] /\ u = B[n].body /\ x = all OBVIOUS
  <2>4. v \in BlockSet /\ x \in Seq(Sym) BY <1>1, <1>2, <2>3
  <2>5. [v EXCEPT !.body = x] = [kind |-> v.kind, body |-> x] BY <2>4 DEF BlockSet
  <2> QED BY <2>1, <2>3, <2>5 DEF Block
<1> HIDE DEF n, r, b
<1>5. r \in Seq(BlockSet) /\ Len(r) = Len(B) /\ \A j \in 1..Len(B) : r[j] = IF j = n THEN b ELSE B[j]
  BY <1>1, <1>3, <1>4, ExceptSeq
<1>6. r[n] = b /\ \A k \in 1..(n - 1) : r[k] = B[k]
  <2>1. \A k \in 1..(n - 1) : k \in 1..Len(B) /\ k # n BY <1>1 DEF n
  <2> QED BY <1>1, <1>5, <2>1
<1> QED BY <1>5, <1>6 DEF n, r, b

(* The last block, longer.                                                 *)
Longer(B, body) == [B EXCEPT ![Len(B)].body = @ \o body]

(* What is filled into a new block.                                        *)
LEMMA FilledNew ==
  ASSUME NEW B \in Seq(BlockSet), NEW kind \in BlockKinds, NEW body \in Seq(Sym)
  PROVE  LET q == Append(B, Block(kind, <<>>)) IN
         /\ Longer(q, body) = Append(B, Block(kind, body))
         /\ q \in Seq(BlockSet) /\ q # <<>>
         /\ Append(B, Block(kind, body)) \in Seq(BlockSet) /\ Last(Append(B, Block(kind, body))).kind = kind
<1> DEFINE e == Block(kind, <<>>)
           b == Block(kind, body)
           q == Append(B, e)
           n == Len(q)
           r == [q EXCEPT ![n].body = @ \o body]
           u == Append(B, b)
<1>1. e \in BlockSet /\ b \in BlockSet /\ e.kind = kind /\ e.body = <<>> /\ b.kind = kind BY DEF Block, BlockSet
<1>2. <<>> \o body = body OBVIOUS
<1>3. b = Block(e.kind, e.body \o body) BY <1>1, <1>2
<1> HIDE DEF e, b
<1>4. q \in Seq(BlockSet) /\ q # <<>> /\ n = Len(B) + 1 /\ q[n] = e /\ Len(B) \in Nat
      /\ \A k \in 1..Len(B) : q[k] = B[k]
  BY <1>1
<1>5. u \in Seq(BlockSet) /\ Len(u) = Len(B) + 1 /\ u[n] = b /\ (\A k \in 1..Len(B) : u[k] = B[k]) /\ Last(u) = b
  BY <1>1 DEF Last
<1> HIDE DEF q, u
<1>6. r \in Seq(BlockSet) /\ Len(r) = n /\ r[n] = Block(q[n].kind, q[n].body \o body)
      /\ \A k \in 1..(n - 1) : r[k] = q[k]
  BY <1>4, Filled
<1> HIDE DEF r, n
<1>7. r[n] = b BY <1>3, <1>4, <1>6
<1>8. \A k \in 1..Len(r) : r[k] = u[k]
  <2> TAKE k \in 1..Len(r)
  <2>1. k = n \/ k \in 1..Len(B) BY <1>4, <1>6
  <2>2. n - 1 = Len(B) BY <1>4
  <2> QED BY <1>4, <1>5, <1>6, <1>7, <2>1, <2>2
<1>9. r = u
  <2>1. Len(r) = Len(u) BY <1>4, <1>5, <1>6
  <2> QED BY <1>5, <1>6, <1>8, <2>1, SeqEqual
<1> QED BY <1>1, <1>4, <1>5, <1>9 DEF q, r, u, n, e, b, Longer

(* A text or a thought extends the last block on both sides, or opens one. *)
LEMMA TextSeen ==
  ASSUME NEW w, NEW B, Streaming(w, B), NEW kind \in {"text", "thinking"}, NEW body \in Seq(Sym)
  PROVE  /\ Streaming(Fill(Opened(w, kind), kind, body), Extend(B, kind, body))
         /\ Fill(Opened(w, kind), kind, body).reason = w.reason
<1>1. BlocksSeen(w, B) /\ (w.open # "none" => w.index > 0) /\ (w.open = kind <=> (B # <<>> /\ Last(B).kind = kind))
  BY DEF Streaming
<1>2. B \in Seq(BlockSet) /\ Len(B) = w.index /\ Len(B) \in Nat BY <1>1 DEF BlocksSeen
<1>3. kind \in BlockKinds /\ kind # "none" BY DEF BlockKinds
<1>4. CASE w.open = kind
  <2> DEFINE r == [B EXCEPT ![Len(B)].body = @ \o body]
             f == Fill(w, kind, body)
  <2>1. Opened(w, kind) = w BY <1>4 DEF Opened
  <2>2. Extend(B, kind, body) = r BY <1>1, <1>4 DEF Extend
  <2>3. B # <<>> /\ B[Len(B)].kind = kind BY <1>1, <1>4 DEF Last
  <2>4. BlocksSeen(f, r) /\ f.open = w.open /\ f.reason = w.reason BY <1>1, <1>3, <2>3, FillSeen
  <2>5. r \in Seq(BlockSet) /\ Len(r) = Len(B) /\ r[Len(B)] = Block(B[Len(B)].kind, B[Len(B)].body \o body)
    BY <1>2, <2>3, Filled
  <2> HIDE DEF r, f
  <2>6. Last(r).kind = kind BY <2>3, <2>5 DEF Last, Block
  <2>7. Len(B) > 0 /\ r # <<>>
    <3>1. Len(B) > 0 BY <1>2, <2>3
    <3> QED BY <2>5, <3>1
  <2>8. f.index = Len(r) BY <2>4 DEF BlocksSeen
  <2>9. Streaming(f, r) BY <1>4, <2>4, <2>5, <2>6, <2>7, <2>8 DEF Streaming
  <2> QED BY <2>1, <2>2, <2>4, <2>9 DEF f
<1>5. CASE w.open # kind
  <2> DEFINE o == OpenBlock(w, kind)
             q == Append(B, Block(kind, <<>>))
             r == [q EXCEPT ![Len(q)].body = @ \o body]
             u == Append(B, Block(kind, body))
             f == Fill(o, kind, body)
  <2>1. Opened(w, kind) = o BY <1>5 DEF Opened
  <2>2. Extend(B, kind, body) = u
    <3>1. ~(B # <<>> /\ Last(B).kind = kind) BY <1>1, <1>5
    <3> QED BY <3>1, Zenon DEF Extend
  <2>3. BlocksSeen(o, q) /\ o.open = kind /\ o.reason = w.reason BY <1>1, <1>3, OpenSeen
  <2>4. r = u /\ q # <<>> /\ u \in Seq(BlockSet) /\ Last(u).kind = kind
    <3>1. Longer(q, body) = u /\ q # <<>> /\ u \in Seq(BlockSet) /\ Last(u).kind = kind BY <1>2, <1>3, FilledNew
    <3>2. Longer(q, body) = r BY DEF Longer
    <3> QED BY <3>1, <3>2
  <2> HIDE DEF q, o
  <2>5. BlocksSeen(f, r) /\ f.open = o.open /\ f.reason = o.reason BY <1>3, <2>3, <2>4, FillSeen
  <2>6. Len(u) > 0 /\ u # <<>>
    <3>1. Len(u) = Len(B) + 1 BY <1>2
    <3> HIDE DEF u
    <3> QED BY <1>2, <2>4, <3>1
  <2> HIDE DEF r, u, f
  <2>7. BlocksSeen(f, u) BY <2>4, <2>5
  <2>8. f.index = Len(u) BY <2>7 DEF BlocksSeen
  <2>9. Streaming(f, u) BY <2>3, <2>4, <2>5, <2>6, <2>7, <2>8 DEF Streaming
  <2> QED BY <2>1, <2>2, <2>3, <2>5, <2>9 DEF f
<1> QED BY <1>4, <1>5

(* A whole call is a block of its own on both sides.                       *)
LEMMA UseSeen ==
  ASSUME NEW w, NEW B, Streaming(w, B), NEW call \in CallSet
  PROVE  /\ Streaming(ToolUse(w, call), Append(B, Block("tool_use", call.arguments)))
         /\ ToolUse(w, call).reason = w.reason
<1> DEFINE kind == "tool_use"
           body == call.arguments
           o == OpenBlock(w, kind)
           q == Append(B, Block(kind, <<>>))
           r == [q EXCEPT ![Len(q)].body = @ \o body]
           u == Append(B, Block(kind, body))
           f == Fill(o, kind, body)
           c == CloseBlock(f)
<1>1. BlocksSeen(w, B) /\ (w.open # "none" => w.index > 0) BY DEF Streaming
<1>2. B \in Seq(BlockSet) /\ Len(B) \in Nat BY <1>1 DEF BlocksSeen
<1>3. kind \in BlockKinds /\ kind \notin {"text", "thinking", "none"} BY DEF BlockKinds
<1>4. body \in Seq(Sym) BY DEF CallSet
<1>5. ToolUse(w, call) = c BY DEF ToolUse
<1> HIDE DEF kind, body
<1>6. BlocksSeen(o, q) /\ o.open = kind /\ o.reason = w.reason BY <1>1, <1>3, OpenSeen
<1>7. r = u /\ q # <<>> /\ u \in Seq(BlockSet) /\ Last(u).kind = kind
  <2>1. Longer(q, body) = u /\ q # <<>> /\ u \in Seq(BlockSet) /\ Last(u).kind = kind
    BY <1>2, <1>3, <1>4, FilledNew
  <2>2. Longer(q, body) = r BY DEF Longer
  <2> QED BY <2>1, <2>2
<1> HIDE DEF q, o
<1>8. BlocksSeen(f, r) /\ f.open = o.open /\ f.reason = o.reason BY <1>3, <1>4, <1>6, <1>7, FillSeen
<1>9. Len(u) > 0 /\ u # <<>>
  <2>1. Len(u) = Len(B) + 1 BY <1>2
  <2> HIDE DEF u
  <2> QED BY <1>2, <1>7, <2>1
<1> HIDE DEF r, u, f
<1>10. BlocksSeen(f, u) BY <1>7, <1>8
<1>11. f.index = Len(u) BY <1>10 DEF BlocksSeen
<1>12. f.open # "none" => f.index > 0 BY <1>9, <1>11
<1>13. BlocksSeen(c, u) /\ c.open = "none" /\ c.reason = f.reason BY <1>10, <1>12, CloseSeen
<1> HIDE DEF c
<1>14. Streaming(c, u) BY <1>3, <1>7, <1>13 DEF Streaming
<1> QED BY <1>5, <1>6, <1>8, <1>13, <1>14 DEF u, kind, body

(* So are all calls of a reply.                                            *)
LEMMA UsesSeen ==
  ASSUME NEW w, NEW B, Streaming(w, B), NEW calls \in Seq(CallSet)
  PROVE  Streaming(ToolUses(w, calls), B \o Uses(calls)) /\ ToolUses(w, calls).reason = w.reason
<1> DEFINE n == Len(calls)
           U == Uses(calls)
           V == {v \in WireSet : \E b : Streaming(v, b)}
           u(i) == SubSeq(U, 1, i)
<1>1. n \in Nat /\ DOMAIN calls = 1..n /\ \A k \in 1..n : calls[k] \in CallSet OBVIOUS
<1>2. U \in Seq(BlockSet) /\ Len(U) = n /\ \A k \in 1..n : U[k] = Block("tool_use", calls[k].arguments) BY UsesTyped
<1>3. B \in Seq(BlockSet) /\ w \in WireSet BY DEF Streaming, BlocksSeen
<1>4. w \in V BY <1>3
<1>5. \A v \in V : \A i \in 1..n : ToolUse(v, calls[i]) \in V
  <2> TAKE v \in V
  <2> TAKE i \in 1..n
  <2>1. PICK b : Streaming(v, b) OBVIOUS
  <2>2. calls[i] \in CallSet BY <1>1
  <2>3. Streaming(ToolUse(v, calls[i]), Append(b, Block("tool_use", calls[i].arguments))) BY <2>1, <2>2, UseSeen
  <2>4. ToolUse(v, calls[i]) \in WireSet BY <2>3 DEF Streaming, BlocksSeen
  <2> QED BY <2>3, <2>4
<1> HIDE DEF n, V, U
<1>6. PICK f : ToolUsesRuns(f, w, calls, n, V) BY <1>1, <1>4, <1>5, ToolUseFold
<1>7. f[0] = w /\ ToolUses(w, calls) = f[n] /\ \A i \in 1..n : f[i] = ToolUse(f[i - 1], calls[i])
  BY <1>6 DEF ToolUsesRuns
<1>8. (\A i \in 0..n : u(i) \in Seq(BlockSet)) /\ u(0) = <<>> /\ u(n) = U
      /\ \A i \in 1..n : u(i) = Append(u(i - 1), U[i])
  BY <1>2, FirstPart
<1> HIDE DEF u
<1> DEFINE Good(i) == Streaming(f[i], B \o u(i)) /\ f[i].reason = w.reason
           G == {i \in 0..n : Good(i)}
<1>9. 0 \in G
  <2>1. B \o <<>> = B BY <1>3, ConcatEmptySeq
  <2>2. Good(0) BY <1>7, <1>8, <2>1
  <2> HIDE DEF Good
  <2> QED BY <1>1, <2>2
<1>10. ASSUME NEW i \in 1..n, i - 1 \in G PROVE i \in G
  <2> DEFINE v == f[i - 1]
             q == B \o u(i - 1)
             e == U[i]
  <2>1. i - 1 \in 0..n /\ i \in 0..n /\ calls[i] \in CallSet BY <1>1
  <2>2. Streaming(v, q) /\ v.reason = w.reason BY <1>10
  <2>3. f[i] = ToolUse(v, calls[i]) /\ e = Block("tool_use", calls[i].arguments) BY <1>2, <1>7
  <2>4. B \o u(i) = Append(q, e)
    <3>1. u(i) = Append(u(i - 1), e) /\ u(i - 1) \in Seq(BlockSet) /\ e \in BlockSet BY <1>2, <1>8, <2>1
    <3> HIDE DEF e
    <3>2. B \o Append(u(i - 1), e) = Append(B \o u(i - 1), e) BY <1>3, <3>1, JoinMore
    <3> QED BY <3>1, <3>2
  <2> HIDE DEF v, q, e
  <2>5. Streaming(ToolUse(v, calls[i]), Append(q, Block("tool_use", calls[i].arguments)))
        /\ ToolUse(v, calls[i]).reason = v.reason
    BY <2>1, <2>2, UseSeen
  <2>6. Good(i) BY <2>2, <2>3, <2>4, <2>5
  <2> HIDE DEF Good
  <2> QED BY <2>1, <2>6
<1>11. \A i \in G : Good(i) OBVIOUS
<1> HIDE DEF G
<1>12. 0..n \subseteq G BY <1>1, <1>9, <1>10, Counting
<1>13. n \in 0..n BY <1>1
<1>14. Good(n) BY <1>11, <1>12, <1>13
<1> QED BY <1>7, <1>8, <1>14 DEF U
-----------------------------------------------------------------------------
(* The blocks of a message, the text of none included.                     *)
OrText(B) == IF B = <<>> THEN <<Block("text", <<>>)>> ELSE B

(* The last block is closed, that of an empty reply opened first.          *)
LEMMA LastSeen ==
  ASSUME NEW w, NEW B, Streaming(w, B)
  PROVE  BlocksSeen(LastBlock(w), OrText(B))
<1>1. BlocksSeen(w, B) /\ (w.open # "none" => w.index > 0) BY DEF Streaming
<1>2. B \in Seq(BlockSet) /\ Len(B) = w.index /\ w \in WireSet BY <1>1 DEF BlocksSeen
<1>3. CASE w.index = 0
  <2> DEFINE b == Block("text", <<>>)
             u == Append(B, b)
             o == OpenBlock(w, "text")
  <2>1. "text" \in BlockKinds BY DEF BlockKinds
  <2>2. BlocksSeen(o, u) BY <1>1, <2>1, OpenSeen
  <2>3. B = <<>> BY <1>2, <1>3
  <2>4. u = <<b>> /\ OrText(B) = <<b>> BY <2>3 DEF OrText
  <2> HIDE DEF o, u
  <2>5. o.index = 1
    <3>1. o.index = Len(u) BY <2>2 DEF BlocksSeen
    <3>2. Len(u) = 1 BY <2>4
    <3> QED BY <3>1, <3>2
  <2>6. BlocksSeen(CloseBlock(o), u) BY <2>2, <2>5, CloseSeen
  <2>7. LastBlock(w) = CloseBlock(o) BY <1>3 DEF LastBlock, o
  <2> QED BY <2>4, <2>6, <2>7
<1>4. CASE w.index # 0
  <2>1. LastBlock(w) = CloseBlock(w) BY <1>4 DEF LastBlock
  <2>2. B # <<>> BY <1>2, <1>4
  <2>3. OrText(B) = B BY <2>2 DEF OrText
  <2>4. BlocksSeen(CloseBlock(w), B) BY <1>1, CloseSeen
  <2> QED BY <2>1, <2>3, <2>4
<1> QED BY <1>3, <1>4

(* The ending tells the stop reason, and no block more.                    *)
LEMMA EndingSeen ==
  ASSUME NEW w, NEW B, Streaming(w, B), NEW reason \in Reasons
  PROVE  BlocksSeen(Ending(w, reason), OrText(B)) /\ Ending(w, reason).reason = reason
<1> DEFINE l == LastBlock(w)
           q == OrText(B)
           i == Item("message_delta", reason)
           j == Item("message_stop", <<>>)
           m == Push(l, <<i>>)
           n == Push(m, <<j>>)
           r == [n EXCEPT !.reason = reason]
<1>1. BlocksSeen(l, q) BY LastSeen
<1> HIDE DEF l, q
<1>2. i \in Frames /\ j \in Frames /\ i.type = "message_delta" /\ j.type = "message_stop"
  BY DEF Item, Frames, OtherFrames
<1>3. l \in WireSet /\ q \in Seq(BlockSet) /\ Len(q) = l.index BY <1>1 DEF BlocksSeen
<1>4. Ending(w, reason) = [Push(l, <<i, j>>) EXCEPT !.reason = reason] BY DEF Ending, l
<1> HIDE DEF i, j
<1>5. m \in WireSet /\ BlocksOf(m.frames) = Taking(q, i) /\ m.index = l.index BY <1>1, <1>2, PushSeen
<1>6. Taking(q, i) = q /\ Taking(q, j) = q BY <1>2, <1>3, TakingTyped
<1>7. BlocksSeen(m, q) BY <1>3, <1>5, <1>6 DEF BlocksSeen
<1>8. n = Push(l, <<i, j>>)
  <2>1. l.frames \in Seq(Frames) BY <1>3 DEF WireSet
  <2>2. PICK s : s = l.frames OBVIOUS
  <2>3. (s \o <<i>>) \o <<j>> = s \o <<i, j>>
    <3>1. s \in Seq(Frames) BY <2>1, <2>2
    <3>2. s \o <<i, j>> = Append(Append(s, i), j) BY <1>2, <3>1
    <3>3. s \o <<i>> = Append(s, i) /\ Append(s, i) \in Seq(Frames) BY <1>2, <3>1
    <3>4. Append(s, i) \o <<j>> = Append(Append(s, i), j)
      <4>1. PICK t : t = Append(s, i) OBVIOUS
      <4>2. t \in Seq(Frames) BY <3>3, <4>1
      <4>3. t \o <<j>> = Append(t, j) BY <1>2, <4>2
      <4> QED BY <4>1, <4>3
    <3> QED BY <3>2, <3>3, <3>4
  <2>4. m = [l EXCEPT !.frames = s \o <<i>>] BY <2>2 DEF Push
  <2>5. m.frames = s \o <<i>> BY <1>3, <2>4 DEF WireSet
  <2> HIDE DEF m
  <2>6. n = [m EXCEPT !.frames = s \o <<i, j>>] BY <2>3, <2>5 DEF Push
  <2>7. Push(l, <<i, j>>) = [l EXCEPT !.frames = s \o <<i, j>>] BY <2>2 DEF Push
  <2> QED BY <1>3, <2>4, <2>6, <2>7 DEF WireSet
<1> HIDE DEF m
<1>9. n \in WireSet /\ BlocksOf(n.frames) = q /\ n.index = l.index
  BY <1>2, <1>5, <1>6, <1>7, PushSeen
<1>10. r \in WireSet /\ r.frames = n.frames /\ r.index = n.index /\ r.reason = reason
  <2> HIDE DEF n
  <2> QED BY <1>9 DEF WireSet
<1>11. r = Ending(w, reason) BY <1>4, <1>8
<1> HIDE DEF r, n
<1>12. BlocksSeen(r, q) BY <1>3, <1>9, <1>10 DEF BlocksSeen
<1> QED BY <1>10, <1>11, <1>12 DEF q

(* Another stop reason changes no block.                                   *)
LEMMA ReasonSeen ==
  ASSUME NEW w, NEW B, Streaming(w, B), NEW reason \in Reasons
  PROVE  Streaming([w EXCEPT !.reason = reason], B) /\ [w EXCEPT !.reason = reason].reason = reason
<1> DEFINE r == [w EXCEPT !.reason = reason]
<1>1. w \in WireSet BY DEF Streaming, BlocksSeen
<1>2. r \in WireSet /\ r.frames = w.frames /\ r.index = w.index /\ r.open = w.open /\ r.reason = reason
  BY <1>1 DEF WireSet
<1> HIDE DEF r
<1>3. Streaming(r, B) BY <1>2 DEF Streaming, BlocksSeen
<1> QED BY <1>2, <1>3 DEF r

(* Whatever a worker sends, the stream and the message put together tell   *)
(* the same: block by block while it goes on, and when it completes.       *)
LEMMA MessageFeeds ==
  ASSUME NEW type, NEW body, Sent(type, body), type # "tool_call_delta", message \in MessageSet,
         Streaming(wire, message.content), wire.reason = message.reason
  PROVE  /\ OnWire(type, body).reason = OnMessage(type, body).reason
         /\ type # "completed" => Streaming(OnWire(type, body), OnMessage(type, body).content)
         /\ type = "completed" => BlocksSeen(OnWire(type, body), OrText(OnMessage(type, body).content))
<1>0. PICK w, B, why : w = wire /\ B = message.content /\ why = message.reason OBVIOUS
<1>1. Streaming(w, B) /\ w.reason = why /\ B \in Seq(BlockSet) /\ why \in Reasons
  BY <1>0 DEF MessageSet
<1> DEFINE m == OnMessage(type, body)
           v == OnWire(type, body)
<1>2. CASE type \in {"delta", "reasoning_delta"} /\ body \in Seq(Sym)
  <2>1. ASSUME NEW kind \in {"text", "thinking"}
        PROVE  /\ Streaming(Fill(Opened(w, kind), kind, body), Extend(B, kind, body))
               /\ Fill(Opened(w, kind), kind, body).reason = why
    BY <1>1, <1>2, <2>1, TextSeen
  <2>2. ASSUME NEW e
        PROVE  [message EXCEPT !.content = e].content = e /\ [message EXCEPT !.content = e].reason = why
    BY <1>0, <2>2 DEF MessageSet
  <2>3. CASE type = "delta"
    <3>1. v = Fill(Opened(w, "text"), "text", body) BY <1>0, <2>3 DEF OnWire, Text
    <3>2. m = [message EXCEPT !.content = Extend(B, "text", body)] BY <1>0, <2>3 DEF OnMessage
    <3>3. m.content = Extend(B, "text", body) /\ m.reason = why BY <2>2, <3>2
    <3> HIDE DEF m, v
    <3>4. Streaming(v, m.content) /\ v.reason = m.reason BY <2>1, <3>1, <3>3
    <3> QED BY <2>3, <3>4 DEF m, v
  <2>4. CASE type = "reasoning_delta" /\ Thinking
    <3>1. v = Fill(Opened(w, "thinking"), "thinking", body) BY <1>0, <2>4 DEF OnWire, Thought
    <3>2. m = [message EXCEPT !.content = Extend(B, "thinking", body)] BY <1>0, <2>4 DEF OnMessage
    <3>3. m.content = Extend(B, "thinking", body) /\ m.reason = why BY <2>2, <3>2
    <3> HIDE DEF m, v
    <3>4. Streaming(v, m.content) /\ v.reason = m.reason BY <2>1, <3>1, <3>3
    <3> QED BY <2>4, <3>4 DEF m, v
  <2>5. CASE type = "reasoning_delta" /\ ~Thinking
    <3>1. v = w BY <1>0, <2>5 DEF OnWire
    <3>2. m = message BY <2>5 DEF OnMessage
    <3> QED BY <1>0, <1>1, <2>5, <3>1, <3>2
  <2> QED BY <1>2, <2>3, <2>4, <2>5
<1>3. CASE type = "tool_calls" /\ body \in Seq(CallSet)
  <2> DEFINE u == ToolUses(w, body)
             c == B \o Uses(body)
  <2>1. v = [u EXCEPT !.reason = "tool_use"] BY <1>0, <1>3 DEF OnWire
  <2>2. Streaming(u, c) BY <1>1, <1>3, UsesSeen
  <2>3. "tool_use" \in Reasons BY DEF Reasons
  <2> HIDE DEF u
  <2>4. Streaming(v, c) /\ v.reason = "tool_use" BY <2>1, <2>2, <2>3, ReasonSeen
  <2>5. m = [[message EXCEPT !.content = c] EXCEPT !.reason = "tool_use"] BY <1>0, <1>3 DEF OnMessage, MessageSet
  <2> HIDE DEF c
  <2>6. m.content = c /\ m.reason = "tool_use" BY <2>5 DEF MessageSet
  <2> HIDE DEF m, v
  <2> QED BY <1>3, <2>4, <2>6 DEF m, v
<1>4. CASE type = "completed" /\ body \in [finish : Finishes, matched : BOOLEAN]
  <2> DEFINE reason == StopReason(why, body)
  <2>1. v = Ending(w, reason) BY <1>0, <1>1, <1>4 DEF OnWire
  <2>2. m = [message EXCEPT !.reason = reason] BY <1>0, <1>4 DEF OnMessage
  <2>3. reason \in Reasons
    <3>1. body.matched \in BOOLEAN BY <1>4
    <3> QED BY <3>1 DEF StopReason, FinishReason, Reasons
  <2> HIDE DEF reason
  <2>4. BlocksSeen(v, OrText(B)) /\ v.reason = reason BY <1>1, <2>1, <2>3, EndingSeen
  <2>5. m.content = B /\ m.reason = reason BY <1>0, <2>2 DEF MessageSet
  <2> HIDE DEF m, v
  <2> QED BY <1>4, <2>4, <2>5 DEF m, v
<1> QED BY <1>2, <1>3, <1>4 DEF Sent
-----------------------------------------------------------------------------
(* A provider's calls are those it began; a worker tells its own once, in  *)
(* the event before its last.                                              *)
CallsCome ==
  /\ way \in {"lmstudio", "omlx"} => Len(whole.calls) = opened
  /\ way = "worker" => whole.calls = <<>> \/ (textpc = "over" /\ events >= Len(out) - 1)
(* The Anthropic stream and message of a worker's reply.                   *)
MessageSame ==
  /\ wire.reason = message.reason /\ BlocksOf(wire.frames) = Content
  /\ over = "no" /\ ~chat.completed => Streaming(wire, message.content)
SameInv == Agree(chat, legacy, whole) /\ CallsCome /\ (way = "worker" => MessageSame)

(* What the events read so far tell agrees after one more;                 *)
LEMMA AgreeFeeds ==
  ASSUME RouteInv, NEW type, NEW body, Sent(type, body), ~chat.completed, Feed(type, body),
         Agree(chat, legacy, whole), type = "tool_calls" => whole.calls = <<>>, NEW grows \in BOOLEAN,
         type = "tool_call_delta" => \A k \in 1..Len(body) :
           IF grows THEN body[k].index = Len(whole.calls) + k - 1 ELSE body[k].index < Len(whole.calls)
  PROVE  /\ Agree(chat', legacy', whole')
         /\ type = "tool_call_delta" =>
              Len(whole'.calls) = IF grows THEN Len(whole.calls) + Len(body) ELSE Len(whole.calls)
         /\ type \in {"delta", "reasoning_delta", "completed"} => whole'.calls = whole.calls
<1>1. over = "no" /\ chat' = OnChat(type, body) /\ whole' = OnWhole(type, body) /\ legacy' = OnLegacy(type, body)
  BY DEF Feed
<1>2. chat \in ChatSet /\ legacy \in LegacySet /\ whole \in WholeSet BY DEF RouteInv, RouteTyped
<1>3. chat.completed = FALSE /\ legacy.completed = FALSE
  <2>1. chat.completed \in BOOLEAN BY <1>2 DEF ChatSet
  <2> QED BY <1>1, <2>1 DEF RouteInv, GoingOn
<1>4. /\ Agree(OnChat(type, body), OnLegacy(type, body), OnWhole(type, body))
      /\ type = "tool_call_delta" =>
           Len(OnWhole(type, body).calls) = IF grows THEN Len(whole.calls) + Len(body) ELSE Len(whole.calls)
      /\ type \in {"delta", "reasoning_delta", "completed"} => OnWhole(type, body).calls = whole.calls
  BY <1>2, <1>3, FeedAgrees
<1> QED BY <1>1, <1>4

(* it agrees after every end,                                              *)
LEMMA AgreeEnds ==
  ASSUME RouteInv, Break \/ Eof \/ Disconnect, Agree(chat, legacy, whole)
  PROVE  Agree(chat', legacy', whole') /\ whole' = whole /\ opened' = opened /\ events' = events /\ over' # "no"
<1>1. chat \in ChatSet /\ legacy \in LegacySet BY DEF RouteInv, RouteTyped
<1>2. PICK c, l, w : c = chat /\ l = legacy /\ w = whole OBVIOUS
<1>3. c \in ChatSet /\ l \in LegacySet /\ Agree(c, l, w) BY <1>1, <1>2
<1>4. Agree(Closed(c), Closed(l), w) /\ Agree(Closed(Failed(c)), Closed(Failed(l)), w) BY <1>3, EndsAgree
<1>5. /\ \/ chat' = Closed(Failed(c)) /\ legacy' = Closed(Failed(l))
         \/ chat' = Closed(c) /\ legacy' = Closed(l)
         \/ chat' = c /\ legacy' = l
      /\ whole' = w
  BY <1>2 DEF Break, Eof, Disconnect
<1>6. Agree(chat', legacy', whole') BY <1>3, <1>4, <1>5
<1> QED BY <1>6 DEF Break, Eof, Disconnect

(* and so do the Anthropic routes.                                         *)
LEMMA MessageEnds ==
  ASSUME RouteInv, Break \/ Eof \/ Disconnect, MessageSame
  PROVE  MessageSame'
<1>1. chat \in ChatSet /\ wire \in WireSet BY DEF RouteInv, RouteTyped
<1>2. over' # "no" /\ message' = message BY DEF Break, Eof, Disconnect
<1>3. chat'.completed = chat.completed
  <2>1. \A c \in ChatSet : Closed(c).completed = c.completed /\ Failed(c) \in ChatSet /\ Failed(c).completed = c.completed
    <3> TAKE c \in ChatSet
    <3> DEFINE e == (IF c.completed \/ c.failed THEN <<>> ELSE <<Item("finish", "stop")>>) \o <<Item("done", <<>>)>>
               i == Item("error", <<>>)
               f == c.chunks \o <<i>>
    <3>1. Closed(c) = Send(c, e) BY DEF Closed
    <3> HIDE DEF e
    <3>2. Closed(c).completed = c.completed BY <3>1 DEF Send, ChatSet
    <3>3. i \in Chunks /\ c.chunks \in Seq(Chunks) BY DEF Item, Chunks, Plain, ChatSet
    <3>4. Failed(c) = [[c EXCEPT !.chunks = f] EXCEPT !.failed = TRUE] BY DEF Failed, Send
    <3> HIDE DEF i
    <3>5. f \in Seq(Chunks) BY <3>3, ConcatProperties
    <3> HIDE DEF f
    <3>6. Failed(c) \in ChatSet /\ Failed(c).completed = c.completed BY <3>4, <3>5 DEF ChatSet
    <3> QED BY <3>2, <3>6
  <2>2. chat' = Closed(Failed(chat)) \/ chat' = Closed(chat) \/ chat' = chat BY DEF Break, Eof, Disconnect
  <2> QED BY <1>1, <2>1, <2>2
<1>4. Content' = Content BY <1>2, <1>3 DEF Content
<1>5. wire'.reason = wire.reason /\ BlocksOf(wire'.frames) = BlocksOf(wire.frames)
  <2>1. CASE wire' = wire BY <2>1
  <2>2. CASE wire' = Push(wire, <<Item("error", <<>>)>>)
    <3> DEFINE i == Item("error", <<>>)
               s == wire.frames
    <3>1. i \in Frames /\ i.type = "error" BY DEF Item, Frames, OtherFrames
    <3>2. s \in Seq(Frames) BY <1>1 DEF WireSet
    <3> HIDE DEF i, s
    <3>3. BlocksOf(s) \in Seq(BlockSet) /\ BlocksOf(Append(s, i)) = Taking(BlocksOf(s), i) BY <3>1, <3>2, OneMoreTaken
    <3>4. Taking(BlocksOf(s), i) = BlocksOf(s) BY <3>1, <3>3, TakingTyped
    <3>5. wire' = [wire EXCEPT !.frames = Append(s, i)] BY <1>1, <2>2, <3>1, PushOne DEF i, s
    <3>6. wire'.frames = Append(s, i) /\ wire'.reason = wire.reason BY <1>1, <3>5 DEF WireSet
    <3> QED BY <3>3, <3>4, <3>6 DEF s
  <2> QED BY <2>1, <2>2 DEF Break, Eof, Disconnect
<1> QED BY <1>2, <1>4, <1>5 DEF MessageSame

(* A worker's event told to both Anthropic routes.                         *)
LEMMA MessageGoesOn ==
  ASSUME RouteInv, NEW type, NEW body, Sent(type, body), type # "tool_call_delta", ~chat.completed,
         opened' \in Nat, Feed(type, body), MessageSame
  PROVE  MessageSame'
<1>1. over = "no" /\ wire' = OnWire(type, body) /\ message' = OnMessage(type, body) BY DEF Feed
<1>2. chat'.completed <=> type = "completed" BY FeedFormed
<1>3. message \in MessageSet BY DEF RouteInv, RouteTyped
<1>4. Streaming(wire, message.content) /\ wire.reason = message.reason BY <1>1 DEF MessageSame
<1>5. /\ OnWire(type, body).reason = OnMessage(type, body).reason
      /\ type # "completed" => Streaming(OnWire(type, body), OnMessage(type, body).content)
      /\ type = "completed" => BlocksSeen(OnWire(type, body), OrText(OnMessage(type, body).content))
  BY <1>3, <1>4, MessageFeeds
<1>6. CASE type = "completed"
  <2>1. Content' = OrText(message'.content) BY <1>2, <1>6 DEF Content, OrText
  <2>2. BlocksOf(wire'.frames) = OrText(message'.content) BY <1>1, <1>5, <1>6 DEF BlocksSeen
  <2> QED BY <1>1, <1>2, <1>5, <1>6, <2>1, <2>2 DEF MessageSame
<1>7. CASE type # "completed"
  <2>1. Content' = message'.content BY <1>2, <1>7 DEF Content
  <2>2. Streaming(wire', message'.content) BY <1>1, <1>5, <1>7
  <2>3. BlocksOf(wire'.frames) = message'.content BY <2>2 DEF Streaming, BlocksSeen
  <2> QED BY <1>1, <1>5, <2>1, <2>2, <2>3 DEF MessageSame
<1> QED BY <1>6, <1>7
-----------------------------------------------------------------------------
(* The routes agree before the first event,                                *)
LEMMA SameBegins == Init => SameInv
<1> SUFFICES ASSUME Init PROVE SameInv OBVIOUS
<1> DEFINE i == Item("role", <<>>)
           m == Item("message_start", <<>>)
<1>1. /\ chat.chunks = <<i>> /\ chat.completed = FALSE /\ whole.text = <<>> /\ whole.reasoning = <<>>
      /\ whole.calls = <<>> /\ legacy.chunks = <<>> /\ legacy.text = <<>>
      /\ wire.frames = <<m>> /\ wire.index = 0 /\ wire.open = "none" /\ wire.reason = "none"
      /\ message = [content |-> <<>>, reason |-> "none"] /\ opened = 0
  BY DEF Init, RouteInit
<1>2. RouteTyped BY RoutesBegin DEF Init, RouteInv
<1>3. i \in Chunks /\ i.type = "role" /\ m \in Frames /\ m.type = "message_start"
  BY DEF Item, Chunks, Plain, Frames, OtherFrames
<1> HIDE DEF i, m
<1>4. Agree(chat, legacy, whole)
  <2>1. \A type \in {"delta", "reasoning_delta", "calls"} :
          Bodies(<<i>>, {type}) = <<>> /\ Bodies(<<>>, {type}) = <<>>
    <3> TAKE type \in {"delta", "reasoning_delta", "calls"}
    <3> DEFINE s == <<i>>
               n == <<>>
               ts == {type}
    <3>1. DOMAIN s = 1..1 /\ s[1] = i /\ DOMAIN n = 1..0 OBVIOUS
    <3>2. \A k \in 1..1 : s[k].type \notin ts BY <1>3, <3>1
    <3>3. \A k \in 1..0 : n[k].type \notin ts OBVIOUS
    <3> HIDE DEF s, n, ts
    <3>4. Bodies(s, ts) = <<>> BY <3>1, <3>2, BodiesNone
    <3>5. Bodies(n, ts) = <<>> BY <3>1, <3>3, BodiesNone
    <3> QED BY <3>4, <3>5 DEF s, n, ts
  <2>2. <<i>> \in Seq(Chunks) /\ <<>> \in Seq(Chunks) /\ <<>> \in Seq(Sym) /\ <<>> \in Seq(PartSet) /\ <<>> \in Seq(CallSet)
    BY <1>3
  <2>3. ChatView(chat.chunks, <<>>, <<>>, <<>>) /\ ChatView(legacy.chunks, <<>>, <<>>, <<>>)
    BY <1>1, <2>1, <2>2 DEF ChatView
  <2>4. Fits(<<>>, <<>>) BY <2>2 DEF Fits
  <2> QED BY <1>1, <2>3, <2>4, AgreeFrom
<1>5. CallsCome
  <2>1. Len(whole.calls) = 0 BY <1>1
  <2> QED BY <1>1, <2>1 DEF CallsCome
<1>6. MessageSame
  <2> DEFINE s == <<>>
  <2>1. s \in Seq(Frames) OBVIOUS
  <2>2. <<m>> = Append(s, m) OBVIOUS
  <2> HIDE DEF s
  <2>3. BlocksOf(s) \in Seq(BlockSet) /\ BlocksOf(Append(s, m)) = Taking(BlocksOf(s), m)
        /\ (s = <<>> => BlocksOf(s) = <<>>)
    BY <1>3, <2>1, OneMoreTaken
  <2>4. BlocksOf(wire.frames) = <<>>
    <3>1. s = <<>> BY DEF s
    <3>2. Taking(BlocksOf(s), m) = BlocksOf(s) BY <1>3, <2>3, TakingTyped
    <3> QED BY <1>1, <2>2, <2>3, <3>1, <3>2
  <2>5. Content = <<>> /\ message.content = <<>> /\ message.reason = "none" BY <1>1 DEF Content
  <2>6. BlocksSeen(wire, <<>>)
    <3>1. <<>> \in Seq(BlockSet) /\ Len(<<>>) = 0 OBVIOUS
    <3> QED BY <1>1, <1>2, <2>4, <3>1 DEF BlocksSeen, RouteTyped
  <2>7. Streaming(wire, <<>>) BY <1>1, <2>6 DEF Streaming
  <2> QED BY <1>1, <2>4, <2>5, <2>7 DEF MessageSame
<1> QED BY <1>4, <1>5, <1>6 DEF SameInv

(* with a provider's events                                                *)
LEMMA SameProvider ==
  ASSUME RouteInv, SameInv, way \in {"lmstudio", "omlx"}, way' = way, ProviderNext(way)
  PROVE  SameInv'
<1>0. /\ Agree(chat, legacy, whole) /\ Len(whole.calls) = opened /\ opened \in Nat /\ events \in Nat
      /\ whole.calls \in Seq(CallSet)
  BY DEF SameInv, CallsCome, RouteInv, RouteTyped, WholeSet
<1>1. events \in Sym BY <1>0 DEF Sym
<1>2. <<events>> \in Seq(Sym) /\ <<>> \in Seq(Sym) BY <1>1
<1>3. SUFFICES Agree(chat', legacy', whole') /\ Len(whole'.calls) = opened' BY DEF SameInv, CallsCome
<1>4. CASE ProviderText
  <2>1. Sent("delta", <<events>>) /\ ~chat.completed /\ Feed("delta", <<events>>) /\ opened' = opened
    BY <1>2, <1>4 DEF Sent, ProviderText, Sending
  <2> DEFINE grows == FALSE
  <2>2. Agree(chat', legacy', whole') /\ whole'.calls = whole.calls
    <3>1. grows \in BOOLEAN OBVIOUS
    <3> HIDE DEF grows
    <3> QED BY <1>0, <2>1, <3>1, AgreeFeeds
  <2> QED BY <1>0, <2>1, <2>2
<1>5. CASE ProviderCall
  <2>1. opened' \in {opened + 1, opened + 2} /\ ~chat.completed BY <1>5 DEF ProviderCall, Sending
  <2>2. PICK arguments \in {<<>>, <<events>>} :
          Feed("tool_call_delta", [k \in 1..(opened' - opened) |-> Part(opened + k - 1, TRUE, arguments)])
    BY <1>5 DEF ProviderCall
  <2> DEFINE n == opened' - opened
             ps == [k \in 1..n |-> Part(opened + k - 1, TRUE, arguments)]
             grows == TRUE
  <2>3. n \in Nat /\ opened' \in Nat /\ opened' = opened + n
    <3>1. CASE opened' = opened + 1 BY <1>0, <3>1
    <3>2. CASE opened' = opened + 2 BY <1>0, <3>2
    <3> QED BY <2>1, <3>1, <3>2
  <2>4. arguments \in Seq(Sym) BY <1>2
  <2>5. \A k \in 1..n : Part(opened + k - 1, TRUE, arguments) \in PartSet
    <3> HIDE DEF n
    <3> TAKE k \in 1..n
    <3>1. opened + k - 1 \in Nat BY <1>0, <2>3
    <3> QED BY <2>4, <3>1 DEF Part, PartSet
  <2>6. ps \in [1..n -> PartSet] BY <2>5
  <2>7. \A k \in 1..n : ps[k].index = opened + k - 1 BY DEF Part
  <2>8. Feed("tool_call_delta", ps) BY <2>2
  <2> HIDE DEF n, ps
  <2>9. ps \in Seq(PartSet) /\ Len(ps) = n BY <2>3, <2>6, SeqFrom
  <2>10. Sent("tool_call_delta", ps) BY <2>9 DEF Sent
  <2>11. \A k \in 1..Len(ps) : IF grows THEN ps[k].index = Len(whole.calls) + k - 1 ELSE ps[k].index < Len(whole.calls)
    BY <1>0, <2>7, <2>9
  <2>12. grows \in BOOLEAN /\ grows OBVIOUS
  <2> HIDE DEF grows
  <2>13. Agree(chat', legacy', whole') /\ Len(whole'.calls) = IF grows THEN Len(whole.calls) + Len(ps) ELSE Len(whole.calls)
    BY <1>0, <2>1, <2>8, <2>10, <2>11, <2>12, AgreeFeeds
  <2> QED BY <1>0, <2>3, <2>9, <2>12, <2>13
<1>6. CASE ProviderPart
  <2>1. opened' = opened /\ ~chat.completed BY <1>6 DEF ProviderPart, Sending
  <2>2. PICK index \in 0..(opened - 1) : Feed("tool_call_delta", <<Part(index, FALSE, <<events>>)>>)
    BY <1>6 DEF ProviderPart
  <2> DEFINE i == Part(index, FALSE, <<events>>)
             ps == <<i>>
             grows == FALSE
  <2>3. i \in PartSet /\ i.index = index BY <1>0, <1>2 DEF Part, PartSet
  <2>4. Feed("tool_call_delta", ps) BY <2>2
  <2> HIDE DEF i
  <2>5. ps \in Seq(PartSet) /\ Len(ps) = 1 /\ ps[1] = i BY <2>3
  <2> HIDE DEF ps
  <2>6. Sent("tool_call_delta", ps) BY <2>5 DEF Sent
  <2>7. \A k \in 1..Len(ps) : IF grows THEN ps[k].index = Len(whole.calls) + k - 1 ELSE ps[k].index < Len(whole.calls)
    BY <1>0, <2>2, <2>3, <2>5
  <2>8. grows \in BOOLEAN /\ ~grows OBVIOUS
  <2> HIDE DEF grows
  <2>9. Agree(chat', legacy', whole') /\ Len(whole'.calls) = IF grows THEN Len(whole.calls) + Len(ps) ELSE Len(whole.calls)
    BY <1>0, <2>1, <2>4, <2>6, <2>7, <2>8, AgreeFeeds
  <2> QED BY <1>0, <2>1, <2>8, <2>9
<1>7. CASE ProviderDone
  <2>1. opened' = opened /\ ~chat.completed BY <1>7 DEF ProviderDone
  <2>2. PICK finish \in {"stop", "length", "tool_calls"} : Feed("completed", Done(finish, FALSE))
    BY <1>7 DEF ProviderDone
  <2> DEFINE grows == FALSE
             body == Done(finish, FALSE)
  <2>3. body \in [finish : Finishes, matched : BOOLEAN] BY DEF Done, Finishes
  <2>6. Feed("completed", body) BY <2>2
  <2> HIDE DEF body
  <2>4. Sent("completed", body) BY <2>3 DEF Sent
  <2>5. Agree(chat', legacy', whole') /\ whole'.calls = whole.calls
    <3>1. grows \in BOOLEAN OBVIOUS
    <3> HIDE DEF grows
    <3> QED BY <1>0, <2>1, <2>4, <2>6, <3>1, AgreeFeeds
  <2> QED BY <1>0, <2>1, <2>5
<1>8. CASE ProviderEnds(way) \/ Break \/ Disconnect
  <2>1. Break \/ Eof \/ Disconnect BY <1>8 DEF ProviderEnds
  <2> QED BY <1>0, <2>1, AgreeEnds
<1> QED BY <1>4, <1>5, <1>6, <1>7, <1>8 DEF ProviderNext

(* and with a worker's.                                                    *)
LEMMA SameWorker ==
  ASSUME ReplyInv, SameInv, way = "worker", way' = way, Worker
  PROVE  SameInv'
<1>0. /\ RouteInv /\ TextInv /\ Linked /\ Agree(chat, legacy, whole) /\ MessageSame
      /\ (whole.calls = <<>> \/ (textpc = "over" /\ events >= Len(out) - 1))
  BY DEF ReplyInv, SameInv, CallsCome
<1>1. events \in Nat /\ opened \in Nat /\ Len(out) \in Nat /\ out \in Seq(OutSet)
  BY <1>0 DEF RouteInv, RouteTyped, TextInv, FilterTyped
<1>2. SUFFICES Agree(chat', legacy', whole') /\ MessageSame'
               /\ (whole'.calls = <<>> \/ (textpc' = "over" /\ events' >= Len(out') - 1))
  BY DEF SameInv, CallsCome
<1>3. CASE TextNext /\ UNCHANGED routeVars
  <2>1. /\ chat' = chat /\ whole' = whole /\ legacy' = legacy /\ wire' = wire /\ message' = message
        /\ events' = events /\ over' = over
    BY <1>3 DEF routeVars
  <2>2. textpc # "over" BY <1>3 DEF TextNext, Chunk, SplitMarker, SplitRest, EndOfText, Finish, Interrupted
  <2>3. MessageSame' BY <1>0, <2>1 DEF MessageSame, Content
  <2> QED BY <1>0, <2>1, <2>2, <2>3
<1>4. ASSUME Break \/ Eof \/ Disconnect, UNCHANGED textVars
      PROVE  Agree(chat', legacy', whole') /\ MessageSame'
             /\ (whole'.calls = <<>> \/ (textpc' = "over" /\ events' >= Len(out') - 1))
  <2>1. textpc' = textpc /\ out' = out BY <1>4 DEF textVars
  <2>2. Agree(chat', legacy', whole') /\ whole' = whole /\ events' = events BY <1>0, <1>4, AgreeEnds
  <2>3. MessageSame' BY <1>0, <1>4, MessageEnds
  <2> QED BY <1>0, <2>1, <2>2, <2>3
<1>5. CASE Receive
  <2>1. events < Len(out) /\ opened' = opened /\ UNCHANGED textVars /\ out' = out /\ textpc' = textpc
    BY <1>5 DEF Receive, textVars
  <2>2. CASE out[events + 1].type = "error"
    <3>1. Break BY <1>5, <2>2 DEF Receive
    <3> QED BY <1>4, <2>1, <3>1
  <2>3. CASE out[events + 1].type # "error"
    <3> DEFINE k == events + 1
               type == out[k].type
               body == out[k].body
               grows == FALSE
    <3>1. Feed(type, body) BY <1>5, <2>3 DEF Receive
    <3>2. over = "no" /\ events' = k BY <3>1 DEF Feed
    <3>3. ~chat.completed /\ k \in 1..Len(out) /\ out[k] \in OutSet /\ Sent(type, body)
      BY <2>1, <2>3, <3>2, NextEvent
    <3>4. type # "tool_call_delta"
      <4>1. PICK e : e = out[k] OBVIOUS
      <4>2. e \in OutSet BY <3>3, <4>1
      <4>3. e.type # "tool_call_delta" BY <4>2 DEF OutSet, WrittenSet, CallEvents, LastSet
      <4> QED BY <4>1, <4>3
    <3>5. type = "tool_calls" => textpc = "over" /\ k >= Len(out) - 1 /\ k # Len(out)
      <4> SUFFICES ASSUME type = "tool_calls" PROVE textpc = "over" /\ k >= Len(out) - 1 /\ k # Len(out) OBVIOUS
      <4>1. out[k] \notin WrittenSet /\ out[k] \notin LastSet
        <5>1. PICK e : e = out[k] /\ e.type = "tool_calls" OBVIOUS
        <5>2. e \notin WrittenSet /\ e \notin LastSet BY <5>1 DEF WrittenSet, LastSet
        <5> QED BY <5>1, <5>2
      <4> HIDE DEF k
      <4>2. textpc = "over"
        <5> SUFFICES ASSUME textpc # "over" PROVE FALSE OBVIOUS
        <5>1. out \in Seq(WrittenSet) BY <1>0 DEF TextInv, Goes
        <5> QED BY <3>3, <4>1, <5>1
      <4>3. IsOver BY <1>0, <4>2 DEF TextInv
      <4>4. k \notin 1..(Len(out) - 2) /\ k # Len(out) BY <4>1, <4>3 DEF IsOver
      <4>5. k >= Len(out) - 1 BY <1>1, <3>3, <4>4
      <4> QED BY <4>2, <4>4, <4>5
    <3>6. type = "tool_calls" => whole.calls = <<>>
      <4> SUFFICES ASSUME type = "tool_calls", whole.calls # <<>> PROVE FALSE OBVIOUS
      <4>1. events >= Len(out) - 1 /\ k # Len(out) BY <1>0, <3>5
      <4> HIDE DEF type
      <4> QED BY <1>1, <2>1, <4>1
    <3>7. grows \in BOOLEAN OBVIOUS
    <3> HIDE DEF type, body, grows
    <3>8. Agree(chat', legacy', whole')
          /\ (type \in {"delta", "reasoning_delta", "completed"} => whole'.calls = whole.calls)
      BY <1>0, <3>1, <3>3, <3>4, <3>6, <3>7, AgreeFeeds
    <3>9. MessageSame' BY <1>0, <1>1, <2>1, <3>1, <3>3, <3>4, MessageGoesOn
    <3>10. type \in {"delta", "reasoning_delta", "completed", "tool_calls"} BY <3>3, <3>4 DEF Sent
    <3>11. whole'.calls = <<>> \/ (textpc' = "over" /\ events' >= Len(out') - 1)
      <4>1. CASE type = "tool_calls" BY <2>1, <3>2, <3>5, <4>1
      <4>2. CASE type # "tool_calls"
        <5>1. whole'.calls = whole.calls BY <3>8, <3>10, <4>2
        <5>2. events >= Len(out) - 1 => k >= Len(out) - 1 BY <1>1
        <5> QED BY <1>0, <2>1, <3>2, <5>1, <5>2
      <4> QED BY <4>1, <4>2
    <3> QED BY <3>8, <3>9, <3>11
  <2> QED BY <2>2, <2>3
<1>6. CASE WorkerEnds BY <1>4, <1>6 DEF WorkerEnds
<1>7. CASE (Break \/ Disconnect) /\ UNCHANGED textVars BY <1>4, <1>7
<1> QED BY <1>3, <1>5, <1>6, <1>7 DEF Worker

(* Every step of every way keeps them.                                     *)
LEMMA SameKeeps == ReplyInv /\ SameInv /\ [Next]_<<way, planVars, textVars, routeVars>> => SameInv'
<1> SUFFICES ASSUME ReplyInv, SameInv, [Next]_<<way, planVars, textVars, routeVars>> PROVE SameInv' OBVIOUS
<1>1. ASSUME UNCHANGED routeVars, UNCHANGED textVars, way' = way PROVE SameInv'
  <2>1. /\ chat' = chat /\ whole' = whole /\ legacy' = legacy /\ wire' = wire /\ message' = message
        /\ opened' = opened /\ events' = events /\ over' = over /\ textpc' = textpc /\ out' = out
    BY <1>1 DEF routeVars, textVars
  <2>2. MessageSame => MessageSame' BY <2>1 DEF MessageSame, Content
  <2>3. CallsCome' BY <1>1, <2>1 DEF SameInv, CallsCome
  <2> QED BY <1>1, <2>1, <2>2, <2>3 DEF SameInv
<1>2. CASE UNCHANGED <<way, planVars, textVars, routeVars>> BY <1>1, <1>2
<1>3. CASE Next /\ way = "prompt" BY <1>1, <1>3 DEF Next
<1>4. CASE Next /\ way \in {"lmstudio", "omlx"} BY <1>4, SameProvider DEF Next, ReplyInv
<1>5. CASE Next /\ way = "worker" BY <1>5, SameWorker DEF Next
<1> QED BY <1>2, <1>3, <1>4, <1>5 DEF Next

(* Whatever an engine sends and however the stream ends, a client that     *)
(* puts the stream of a route together reads the whole reply of that       *)
(* route: text, reasoning and calls on the OpenAI routes                   *)
(* (api/openai_compat.py), and on a worker the blocks and the stop reason  *)
(* of the Anthropic ones (api/anthropic_stream.py, anthropic_compat.py).   *)
THEOREM TheRoutesAgree == Spec => []RoutesAgree
<1>1. SameInv => RoutesAgree
  <2> SUFFICES ASSUME SameInv PROVE RoutesAgree OBVIOUS
  <2>1. Agree(chat, legacy, whole) /\ (way = "worker" => MessageSame) BY DEF SameInv
  <2>2. Fits(Parts, whole.calls) BY <2>1 DEF Agree, Parts
  <2>3. CallsRead = whole.calls BY <2>2, FitsRead
  <2>4. ChatAgrees BY <2>1, <2>3 DEF Agree, ChatView, ChatAgrees
  <2>5. way = "worker" => MessageAgrees BY <2>1 DEF MessageSame, MessageAgrees, BlocksRead
  <2> QED BY <2>4, <2>5 DEF RoutesAgree
<1> QED BY <1>1, RepliesBegin, RepliesKeep, SameBegins, SameKeeps, PTL DEF Spec
-----------------------------------------------------------------------------
(* The text in the blocks of a message.                                    *)
BlockItem(b) == [type |-> b.kind, body |-> b.body]
BlockItems(B) == [k \in DOMAIN B |-> BlockItem(B[k])]
Texted(B) == Bodies(BlockItems(B), {"text"})
ItemSet == [type : BlockKinds, body : Seq(Sym)]

(* Blocks as items, one by one.                                            *)
LEMMA ItemsOf ==
  ASSUME NEW B \in Seq(BlockSet)
  PROVE  /\ BlockItems(B) \in Seq(ItemSet) /\ Len(BlockItems(B)) = Len(B)
         /\ \A k \in 1..Len(B) : BlockItems(B)[k] = BlockItem(B[k])
         /\ \A C \in Seq(BlockSet) : BlockItems(B \o C) = BlockItems(B) \o BlockItems(C)
<1>1. \A C \in Seq(BlockSet) : BlockItems(C) \in Seq(ItemSet) /\ Len(BlockItems(C)) = Len(C)
                               /\ \A k \in 1..Len(C) : BlockItems(C)[k] = BlockItem(C[k])
  <2> TAKE C \in Seq(BlockSet)
  <2> DEFINE n == Len(C)
             s == BlockItems(C)
  <2>1. n \in Nat /\ DOMAIN C = 1..n /\ \A k \in 1..n : C[k] \in BlockSet OBVIOUS
  <2>2. \A k \in 1..n : BlockItem(C[k]) \in ItemSet BY <2>1 DEF BlockItem, BlockSet, ItemSet
  <2>3. s = [k \in 1..n |-> BlockItem(C[k])] BY <2>1 DEF BlockItems
  <2> HIDE DEF n, s
  <2>4. s \in [1..n -> ItemSet] BY <2>2, <2>3
  <2>5. s \in Seq(ItemSet) /\ Len(s) = n BY <2>1, <2>4, SeqFrom
  <2> QED BY <2>3, <2>5 DEF n, s
<1>2. ASSUME NEW C \in Seq(BlockSet) PROVE BlockItems(B \o C) = BlockItems(B) \o BlockItems(C)
  <2> DEFINE D == B \o C
             x == BlockItems(B)
             y == BlockItems(C)
             z == BlockItems(D)
             v == x \o y
  <2>1. D \in Seq(BlockSet) /\ Len(D) = Len(B) + Len(C) /\ Len(B) \in Nat /\ Len(C) \in Nat
        /\ \A k \in 1..Len(D) : D[k] = IF k <= Len(B) THEN B[k] ELSE C[k - Len(B)]
    OBVIOUS
  <2>2. x \in Seq(ItemSet) /\ Len(x) = Len(B) /\ y \in Seq(ItemSet) /\ Len(y) = Len(C)
        /\ (\A k \in 1..Len(B) : x[k] = BlockItem(B[k])) /\ (\A k \in 1..Len(C) : y[k] = BlockItem(C[k]))
    BY <1>1
  <2> HIDE DEF D, x, y
  <2>3. z \in Seq(ItemSet) /\ Len(z) = Len(D) /\ \A k \in 1..Len(D) : z[k] = BlockItem(D[k]) BY <1>1, <2>1
  <2>4. v \in Seq(ItemSet) /\ Len(v) = Len(x) + Len(y)
        /\ \A k \in 1..Len(v) : v[k] = IF k <= Len(x) THEN x[k] ELSE y[k - Len(x)]
    <3>1. \A v1, v2 \in Seq(ItemSet) :
            /\ v1 \o v2 \in Seq(ItemSet) /\ Len(v1 \o v2) = Len(v1) + Len(v2)
            /\ \A k \in 1..(Len(v1) + Len(v2)) : (v1 \o v2)[k] = IF k <= Len(v1) THEN v1[k] ELSE v2[k - Len(v1)]
      BY ConcatProperties
    <3>2. x \in Seq(ItemSet) /\ y \in Seq(ItemSet) BY <2>2
    <3> QED BY <3>1, <3>2
  <2> HIDE DEF z, v
  <2>5. Len(z) = Len(v) BY <2>1, <2>2, <2>3, <2>4
  <2>6. ASSUME NEW k \in 1..Len(z) PROVE z[k] = v[k]
    <3>1. k \in 1..Len(D) /\ k \in 1..Len(v) /\ k \in Nat BY <2>3, <2>5
    <3>2. CASE k <= Len(B)
      <4>1. k \in 1..Len(B) BY <2>1, <3>1, <3>2
      <4> QED BY <2>1, <2>2, <2>3, <2>4, <3>1, <3>2, <4>1
    <3>3. CASE ~(k <= Len(B))
      <4>1. k - Len(B) \in 1..Len(C) BY <2>1, <3>1, <3>3
      <4> QED BY <2>1, <2>2, <2>3, <2>4, <3>1, <3>3, <4>1
    <3> QED BY <3>2, <3>3
  <2>7. z = v BY <2>3, <2>4, <2>5, <2>6, SeqEqual
  <2> QED BY <2>7 DEF z, v, D, x, y
<1> QED BY <1>1, <1>2

(* Text is told by text blocks only; blocks more tell what they hold.      *)
LEMMA TextedJoin ==
  /\ \A B, C \in Seq(BlockSet) : Texted(B \o C) = Texted(B) \o Texted(C)
  /\ \A B \in Seq(BlockSet) : Texted(B) \in Seq(Sym)
  /\ \A b \in BlockSet : Texted(<<b>>) = IF b.kind = "text" THEN b.body ELSE <<>>
  /\ \A B \in Seq(BlockSet) : (\A k \in 1..Len(B) : B[k].kind # "text") => Texted(B) = <<>>
<1> DEFINE ts == {"text"}
<1>1. Bodied(ItemSet, ts, Sym) BY DEF Bodied, ItemSet
<1>2. \A B : Texted(B) = Bodies(BlockItems(B), ts) BY DEF Texted
<1>7. \A type : type \in ts <=> type = "text" OBVIOUS
<1> HIDE DEF ts
<1>3. ASSUME NEW B \in Seq(BlockSet), NEW C \in Seq(BlockSet) PROVE Texted(B \o C) = Texted(B) \o Texted(C)
  <2> DEFINE x == BlockItems(B)
             y == BlockItems(C)
  <2>1. x \in Seq(ItemSet) /\ y \in Seq(ItemSet) /\ BlockItems(B \o C) = x \o y BY ItemsOf
  <2>2. \A v1, v2 \in Seq(ItemSet) : Bodies(v1 \o v2, ts) = Bodies(v1, ts) \o Bodies(v2, ts) BY <1>1, BodiesJoin
  <2> HIDE DEF x, y
  <2>3. Bodies(x \o y, ts) = Bodies(x, ts) \o Bodies(y, ts) BY <2>1, <2>2
  <2> QED BY <1>2, <2>1, <2>3 DEF x, y
<1>4. ASSUME NEW B \in Seq(BlockSet) PROVE Texted(B) \in Seq(Sym)
  <2> DEFINE x == BlockItems(B)
  <2>1. x \in Seq(ItemSet) BY ItemsOf
  <2> HIDE DEF x
  <2>2. \A q \in Seq(ItemSet) :
          /\ Bodies(q, ts) \in Seq(Sym)
          /\ q = <<>> => Bodies(q, ts) = <<>>
          /\ \A e \in ItemSet : Bodies(Append(q, e), ts) = Bodies(q, ts) \o IF e.type \in ts THEN e.body ELSE <<>>
    BY <1>1, BodiesAll
  <2> QED BY <1>2, <2>1, <2>2 DEF x
<1>5. ASSUME NEW b \in BlockSet PROVE Texted(<<b>>) = IF b.kind = "text" THEN b.body ELSE <<>>
  <2> DEFINE e == BlockItem(b)
             s == <<b>>
  <2>1. e \in ItemSet /\ e.type = b.kind /\ e.body = b.body BY DEF BlockItem, BlockSet, ItemSet
  <2>2. BlockItems(s) = <<e>> BY DEF BlockItems
  <2> HIDE DEF e
  <2>3. Bodies(<<e>>, ts) = IF e.type \in ts THEN e.body ELSE <<>> BY <1>1, <2>1, BodiesOne
  <2> QED BY <1>2, <1>7, <2>1, <2>2, <2>3
<1>6. ASSUME NEW B \in Seq(BlockSet), \A k \in 1..Len(B) : B[k].kind # "text" PROVE Texted(B) = <<>>
  <2> DEFINE x == BlockItems(B)
             n == Len(B)
  <2>1. x \in Seq(ItemSet) /\ Len(x) = n /\ \A k \in 1..n : x[k] = BlockItem(B[k]) BY ItemsOf
  <2>2. n \in Nat OBVIOUS
  <2> HIDE DEF x, n
  <2>3. DOMAIN x = 1..n BY <2>1
  <2>4. ASSUME NEW k \in 1..n PROVE x[k].type \notin ts
    <3>1. x[k] = BlockItem(B[k]) /\ B[k].kind # "text" BY <1>6, <2>1, <2>4 DEF n
    <3>2. x[k].type = B[k].kind BY <3>1 DEF BlockItem
    <3> QED BY <1>7, <3>1, <3>2
  <2>5. Bodies(x, ts) = <<>> BY <2>2, <2>3, <2>4, BodiesNone
  <2> QED BY <1>2, <2>5 DEF x
<1> QED BY <1>3, <1>4, <1>5, <1>6

(* A longer or a new block of text tells that text more.                   *)
LEMMA TextedMore ==
  ASSUME NEW B \in Seq(BlockSet), NEW kind \in BlockKinds, NEW body \in Seq(Sym)
  PROVE  Texted(Extend(B, kind, body)) = IF kind = "text" THEN Texted(B) \o body ELSE Texted(B)
<1> DEFINE T(C) == Texted(C)
<1>1. /\ \A C, D \in Seq(BlockSet) : T(C \o D) = T(C) \o T(D)
      /\ \A C \in Seq(BlockSet) : T(C) \in Seq(Sym)
      /\ \A b \in BlockSet : T(<<b>>) = IF b.kind = "text" THEN b.body ELSE <<>>
  BY TextedJoin
<1> HIDE DEF T
<1>2. T(B) \in Seq(Sym) /\ T(B) \o <<>> = T(B) BY <1>1
<1>3. CASE ~(B # <<>> /\ Last(B).kind = kind)
  <2> DEFINE b == Block(kind, body)
  <2>1. b \in BlockSet /\ b.kind = kind /\ b.body = body BY DEF Block, BlockSet
  <2>2. Extend(B, kind, body) = Append(B, b) BY <1>3, Zenon DEF Extend
  <2> HIDE DEF b
  <2>3. Append(B, b) = B \o <<b>> /\ <<b>> \in Seq(BlockSet) BY <2>1
  <2>4. T(B \o <<b>>) = T(B) \o T(<<b>>) BY <1>1, <2>3
  <2>5. T(<<b>>) = IF kind = "text" THEN body ELSE <<>> BY <1>1, <2>1
  <2> QED BY <1>2, <2>2, <2>3, <2>4, <2>5 DEF T
<1>4. CASE B # <<>> /\ Last(B).kind = kind
  <2> DEFINE n == Len(B)
             r == [B EXCEPT ![Len(B)].body = @ \o body]
             f == SubSeq(B, 1, n - 1)
             a == B[n]
             x == B[n].body
             b == Block(kind, x \o body)
  <2>1. Extend(B, kind, body) = r BY <1>4, Zenon DEF Extend
  <2>2. n \in Nat /\ n > 0 /\ n \in 1..Len(B) /\ n - 1 \in 0..Len(B) /\ a \in BlockSet
    <3>1. n \in Nat /\ n > 0 BY <1>4
    <3> QED BY <3>1
  <2>3. a.kind = kind /\ x \in Seq(Sym) /\ a.body = x BY <1>4, <2>2 DEF Last, BlockSet
  <2>4. b \in BlockSet /\ b.kind = kind /\ b.body = x \o body
    <3>1. x \o body \in Seq(Sym) BY <2>3, ConcatProperties
    <3> QED BY <3>1 DEF Block, BlockSet
  <2>5. r \in Seq(BlockSet) /\ Len(r) = n /\ r[n] = b /\ \A k \in 1..(n - 1) : r[k] = B[k]
    <3>1. /\ r \in Seq(BlockSet) /\ Len(r) = Len(B) /\ r[Len(B)] = Block(B[Len(B)].kind, B[Len(B)].body \o body)
          /\ \A k \in 1..(Len(B) - 1) : r[k] = B[k]
      BY <1>4, Filled
    <3>2. B[Len(B)].kind = kind BY <2>3
    <3> QED BY <3>1, <3>2
  <2> HIDE DEF r, a, x, b
  <2>6. /\ f \in Seq(BlockSet) /\ Len(f) = n - 1 /\ (\A k \in 1..(n - 1) : f[k] = B[k])
        /\ B = Append(f, a)
    <3>1. /\ \A m \in 0..Len(B) : SubSeq(B, 1, m) \in Seq(BlockSet) /\ Len(SubSeq(B, 1, m)) = m
          /\ \A m \in 0..Len(B) : \A i \in 1..m : SubSeq(B, 1, m)[i] = B[i]
          /\ SubSeq(B, 1, 0) = <<>> /\ SubSeq(B, 1, Len(B)) = B
          /\ \A m \in 1..Len(B) : SubSeq(B, 1, m) = Append(SubSeq(B, 1, m - 1), B[m])
      BY FirstPart
    <3> QED BY <2>2, <3>1 DEF a
  <2> HIDE DEF f
  <2>7. r = Append(f, b)
    <3> DEFINE u == Append(f, b)
    <3>1. u \in Seq(BlockSet) /\ Len(u) = n /\ u[n] = b /\ \A k \in 1..(n - 1) : u[k] = f[k] BY <2>2, <2>4, <2>6
    <3> HIDE DEF u, n
    <3>2. \A k \in 1..n : k = n \/ k \in 1..(n - 1) BY <2>2
    <3>3. \A k \in 1..Len(r) : r[k] = u[k] BY <2>5, <2>6, <3>1, <3>2
    <3>4. r = u BY <2>5, <3>1, <3>3, SeqEqual
    <3> QED BY <3>4 DEF u
  <2> HIDE DEF n
  <2>8. Append(f, a) = f \o <<a>> /\ Append(f, b) = f \o <<b>> /\ <<a>> \in Seq(BlockSet) /\ <<b>> \in Seq(BlockSet)
    <3>1. \A e \in BlockSet : Append(f, e) = f \o <<e>> /\ <<e>> \in Seq(BlockSet) BY <2>6
    <3> QED BY <2>2, <2>4, <3>1
  <2>9. T(B) = T(f) \o T(<<a>>) /\ T(r) = T(f) \o T(<<b>>) /\ T(f) \in Seq(Sym)
    <3>1. B = f \o <<a>> /\ r = f \o <<b>> BY <2>6, <2>7, <2>8
    <3>2. T(f \o <<a>>) = T(f) \o T(<<a>>) /\ T(f \o <<b>>) = T(f) \o T(<<b>>) /\ T(f) \in Seq(Sym)
      BY <1>1, <2>6, <2>8
    <3> QED BY <3>1, <3>2
  <2>10. T(<<a>>) = (IF kind = "text" THEN x ELSE <<>>) /\ T(<<b>>) = IF kind = "text" THEN x \o body ELSE <<>>
    BY <1>1, <2>2, <2>3, <2>4
  <2>11. (T(f) \o x) \o body = T(f) \o (x \o body)
    <3>1. \A p1, p2, p3 \in Seq(Sym) : (p1 \o p2) \o p3 = p1 \o (p2 \o p3) BY ConcatAssociative
    <3> QED BY <2>3, <2>9, <3>1
  <2>12. T(r) = IF kind = "text" THEN T(B) \o body ELSE T(B) BY <2>9, <2>10, <2>11
  <2> QED BY <2>1, <2>12 DEF T
<1> QED BY <1>3, <1>4

(* Calls tell none.                                                        *)
LEMMA TextedUses ==
  ASSUME NEW B \in Seq(BlockSet), NEW calls \in Seq(CallSet)
  PROVE  Texted(B \o Uses(calls)) = Texted(B)
<1> DEFINE U == Uses(calls)
<1>1. U \in Seq(BlockSet) /\ Len(U) = Len(calls) /\ \A k \in 1..Len(calls) : U[k] = Block("tool_use", calls[k].arguments)
  BY UsesTyped
<1> HIDE DEF U
<1>2. ASSUME NEW k \in 1..Len(U) PROVE U[k].kind # "text"
  <2>1. U[k] = Block("tool_use", calls[k].arguments) BY <1>1, <1>2
  <2>2. U[k].kind = "tool_use" BY <2>1 DEF Block
  <2> QED BY <2>2
<1>3. Texted(U) = <<>> BY <1>1, <1>2, TextedJoin
<1>4. Texted(B \o U) = Texted(B) \o Texted(U) /\ Texted(B) \in Seq(Sym) BY <1>1, TextedJoin
<1> QED BY <1>3, <1>4 DEF U
-----------------------------------------------------------------------------
(* The replies put together hold what the events read tell, no less and no *)
(* more.                                                                   *)
ReadTold(type) == Bodies(SubSeq(out, 1, events), {type})
ToldSame ==
  /\ whole.text = ReadTold("delta") /\ whole.reasoning = ReadTold("reasoning_delta")
  /\ Texted(message.content) = whole.text

(* What events tell, one event after another.                              *)
LEMMA ToldBodied ==
  ASSUME NEW type \in {"delta", "reasoning_delta"}
  PROVE  \A q \in Seq(OutSet) :
           /\ q = <<>> => Bodies(q, {type}) = <<>>
           /\ \A e \in OutSet : Bodies(Append(q, e), {type}) = Bodies(q, {type}) \o IF e.type = type THEN e.body ELSE <<>>
<1> DEFINE ts == {type}
<1>1. \A e \in OutSet : e.type = type => e \in WrittenSet BY DEF OutSet, CallEvents, LastSet
<1>2. Bodied(OutSet, ts, Symbols) BY <1>1 DEF Bodied, WrittenSet, Str
<1>3. \A t : t \in ts <=> t = type OBVIOUS
<1> HIDE DEF ts
<1>4. \A q \in Seq(OutSet) :
        /\ Bodies(q, ts) \in Seq(Symbols)
        /\ q = <<>> => Bodies(q, ts) = <<>>
        /\ \A e \in OutSet : Bodies(Append(q, e), ts) = Bodies(q, ts) \o IF e.type \in ts THEN e.body ELSE <<>>
  BY <1>2, BodiesAll
<1>5. \A q \in Seq(OutSet) :
        /\ q = <<>> => Bodies(q, ts) = <<>>
        /\ \A e \in OutSet : Bodies(Append(q, e), ts) = Bodies(q, ts) \o IF e.type = type THEN e.body ELSE <<>>
  BY <1>3, <1>4
<1> QED BY <1>5 DEF ts

(* One event read adds what it tells to every reply.                       *)
LEMMA ToldFeeds ==
  ASSUME RouteInv, out \in Seq(OutSet), events < Len(out), out' = out,
         Sent(out[events + 1].type, out[events + 1].body), out[events + 1].type # "tool_call_delta",
         Feed(out[events + 1].type, out[events + 1].body), ToldSame
  PROVE  ToldSame'
<1> DEFINE k == events + 1
           type == out[k].type
           body == out[k].body
<1>1. events \in Nat /\ Len(out) \in Nat /\ whole \in WholeSet /\ message \in MessageSet
  BY DEF RouteInv, RouteTyped
<1>2. k \in 1..Len(out) /\ out[k] \in OutSet
  <2>1. k \in 1..Len(out) BY <1>1
  <2> QED BY <2>1
<1>3. /\ whole' = OnWhole(type, body) /\ message' = OnMessage(type, body) /\ events' = k /\ Sent(type, body)
      /\ type # "tool_call_delta"
  BY DEF Feed
<1>4. ASSUME NEW t \in {"delta", "reasoning_delta"}
      PROVE  ReadTold(t)' = ReadTold(t) \o IF type = t THEN body ELSE <<>>
  <2> DEFINE p == SubSeq(out, 1, events)
             e == out[k]
  <2>1. p \in Seq(OutSet) /\ SubSeq(out, 1, k) = Append(p, e)
    <3>1. /\ \A n \in 0..Len(out) : SubSeq(out, 1, n) \in Seq(OutSet) /\ Len(SubSeq(out, 1, n)) = n
          /\ \A n \in 0..Len(out) : \A i \in 1..n : SubSeq(out, 1, n)[i] = out[i]
          /\ SubSeq(out, 1, 0) = <<>> /\ SubSeq(out, 1, Len(out)) = out
          /\ \A n \in 1..Len(out) : SubSeq(out, 1, n) = Append(SubSeq(out, 1, n - 1), out[n])
      BY FirstPart
    <3>2. k - 1 = events /\ events \in 0..Len(out) BY <1>1
    <3> QED BY <1>2, <3>1, <3>2
  <2> HIDE DEF p
  <2>2. Bodies(Append(p, e), {t}) = Bodies(p, {t}) \o IF e.type = t THEN e.body ELSE <<>>
    BY <1>2, <1>4, <2>1, ToldBodied
  <2>3. ReadTold(t)' = Bodies(SubSeq(out', 1, events'), {t}) BY DEF ReadTold
  <2>4. ReadTold(t)' = Bodies(Append(p, e), {t}) BY <1>3, <2>1, <2>3
  <2>5. ReadTold(t) = Bodies(p, {t}) BY DEF ReadTold, p
  <2> QED BY <2>2, <2>4, <2>5
<1> HIDE DEF k, type, body
<1>5. PICK x, r, B : x = whole.text /\ r = whole.reasoning /\ B = message.content OBVIOUS
<1>6. x \in Seq(Sym) /\ r \in Seq(Sym) /\ B \in Seq(BlockSet) /\ x \o <<>> = x /\ r \o <<>> = r
  <2>1. x \in Seq(Sym) /\ r \in Seq(Sym) /\ B \in Seq(BlockSet) BY <1>1, <1>5 DEF WholeSet, MessageSet
  <2> QED BY <2>1
<1>7. x = ReadTold("delta") /\ r = ReadTold("reasoning_delta") /\ Texted(B) = x BY <1>5 DEF ToldSame
<1>8. ReadTold("delta")' = (x \o IF type = "delta" THEN body ELSE <<>>)
      /\ ReadTold("reasoning_delta")' = (r \o IF type = "reasoning_delta" THEN body ELSE <<>>)
  BY <1>4, <1>7
<1>9. whole'.text = (IF type = "delta" THEN x \o body ELSE x)
      /\ whole'.reasoning = (IF type = "reasoning_delta" THEN r \o body ELSE r)
  <2>1. CASE type = "delta"
    <3>1. whole' = [whole EXCEPT !.text = x \o body] BY <1>3, <1>5, <2>1 DEF OnWhole
    <3> QED BY <1>1, <1>5, <2>1, <3>1 DEF WholeSet
  <2>2. CASE type = "reasoning_delta"
    <3>1. whole' = [whole EXCEPT !.reasoning = r \o body] BY <1>3, <1>5, <2>2 DEF OnWhole
    <3> QED BY <1>1, <1>5, <2>2, <3>1 DEF WholeSet
  <2>3. CASE type = "tool_calls"
    <3>1. PICK n : n = Normalized(body) OBVIOUS
    <3>2. whole' = [whole EXCEPT !.calls = n, !.finish = "tool_calls"] BY <1>3, <2>3, <3>1 DEF OnWhole
    <3> QED BY <1>1, <1>5, <2>3, <3>2 DEF WholeSet
  <2>4. CASE type = "completed"
    <3>1. whole' = [whole EXCEPT !.finish = body.finish] BY <1>3, <2>4 DEF OnWhole
    <3> QED BY <1>1, <1>5, <2>4, <3>1 DEF WholeSet
  <2> QED BY <1>3, <2>1, <2>2, <2>3, <2>4 DEF Sent
<1>10. Texted(message'.content) = IF type = "delta" THEN x \o body ELSE x
  <2>1. ASSUME NEW c PROVE [message EXCEPT !.content = c].content = c BY <1>1, <2>1 DEF MessageSet
  <2>2. CASE type = "delta"
    <3>1. body \in Seq(Sym) BY <1>3, <2>2 DEF Sent
    <3>2. "text" \in BlockKinds BY DEF BlockKinds
    <3>3. Texted(Extend(B, "text", body)) = Texted(B) \o body BY <1>6, <3>1, <3>2, TextedMore
    <3>4. message' = [message EXCEPT !.content = Extend(B, "text", body)] BY <1>3, <1>5, <2>2 DEF OnMessage
    <3>5. message'.content = Extend(B, "text", body) BY <2>1, <3>4
    <3> QED BY <1>7, <2>2, <3>3, <3>5
  <2>3. CASE type = "reasoning_delta" /\ Thinking
    <3>1. body \in Seq(Sym) BY <1>3, <2>3 DEF Sent
    <3>2. "thinking" \in BlockKinds BY DEF BlockKinds
    <3>3. Texted(Extend(B, "thinking", body)) = Texted(B) BY <1>6, <3>1, <3>2, TextedMore
    <3>4. message' = [message EXCEPT !.content = Extend(B, "thinking", body)] BY <1>3, <1>5, <2>3 DEF OnMessage
    <3>5. message'.content = Extend(B, "thinking", body) BY <2>1, <3>4
    <3> QED BY <1>7, <2>3, <3>3, <3>5
  <2>4. CASE type = "reasoning_delta" /\ ~Thinking
    <3>1. message' = message BY <1>3, <2>4 DEF OnMessage
    <3> QED BY <1>5, <1>7, <2>4, <3>1
  <2>5. CASE type = "tool_calls"
    <3>1. body \in Seq(CallSet) BY <1>3, <2>5 DEF Sent
    <3>2. PICK c : c = B \o Uses(body) OBVIOUS
    <3>3. Texted(c) = Texted(B) BY <1>6, <3>1, <3>2, TextedUses
    <3>4. message' = [[message EXCEPT !.content = c] EXCEPT !.reason = "tool_use"]
      BY <1>1, <1>3, <1>5, <2>5, <3>2 DEF OnMessage, MessageSet
    <3>5. message'.content = c BY <1>1, <3>4 DEF MessageSet
    <3> QED BY <1>7, <2>5, <3>3, <3>5
  <2>6. CASE type = "completed"
    <3>1. PICK w : w = StopReason(message.reason, body) OBVIOUS
    <3>2. message' = [message EXCEPT !.reason = w] BY <1>3, <2>6, <3>1 DEF OnMessage
    <3>3. message'.content = B BY <1>1, <1>5, <3>2 DEF MessageSet
    <3> QED BY <1>7, <2>6, <3>3
  <2> QED BY <1>3, <2>2, <2>3, <2>4, <2>5, <2>6 DEF Sent
<1>11. ToldSame' = (/\ whole'.text = ReadTold("delta")' /\ whole'.reasoning = ReadTold("reasoning_delta")'
                    /\ Texted(message'.content) = whole'.text)
  BY DEF ToldSame
<1> QED BY <1>6, <1>8, <1>9, <1>10, <1>11

(* Nothing is told at first,                                               *)
LEMMA ToldBegins == Init => ToldSame
<1> SUFFICES ASSUME Init PROVE ToldSame OBVIOUS
<1>1. out \in Seq(OutSet) BY TextBegins DEF Init, TextInv, FilterTyped
<1>2. events = 0 /\ whole.text = <<>> /\ whole.reasoning = <<>> /\ message.content = <<>> BY DEF Init, RouteInit
<1>3. SubSeq(out, 1, 0) = <<>> BY <1>1
<1>4. <<>> \in Seq(OutSet) OBVIOUS
<1>5. ASSUME NEW type \in {"delta", "reasoning_delta"} PROVE ReadTold(type) = <<>>
  <2>1. Bodies(<<>>, {type}) = <<>> BY <1>4, ToldBodied
  <2> QED BY <1>2, <1>3, <2>1 DEF ReadTold
<1>6. Texted(<<>>) = <<>>
  <2>1. <<>> \in Seq(BlockSet) /\ \A k \in 1..Len(<<>>) : <<>>[k].kind # "text" OBVIOUS
  <2> QED BY <2>1, TextedJoin
<1> QED BY <1>2, <1>5, <1>6 DEF ToldSame

(* and every step of a worker's reply keeps what is.                       *)
LEMMA ToldKeeps ==
  ReplyInv /\ (way = "worker" => ToldSame) /\ [Next]_<<way, planVars, textVars, routeVars>> => (way = "worker" => ToldSame)'
<1> SUFFICES ASSUME ReplyInv, way = "worker" => ToldSame, [Next]_<<way, planVars, textVars, routeVars>>, way' = "worker"
             PROVE  ToldSame'
  OBVIOUS
<1>0. way' = way BY DEF Next
<1>1. /\ way = "worker" /\ ToldSame /\ RouteInv /\ TextInv /\ Linked /\ events \in Nat /\ Len(out) \in Nat /\ out \in Seq(OutSet)
  BY <1>0 DEF ReplyInv, RouteInv, RouteTyped, TextInv, FilterTyped
<1>2. ASSUME whole' = whole, message' = message, events' = events, TextNext \/ UNCHANGED textVars
      PROVE  ToldSame'
  <2>1. TextInv' /\ Len(out) <= Len(out') /\ \A k \in 1..Len(out) : out'[k] = out[k] BY <1>1, <1>2, TextKeeps
  <2> DEFINE p == SubSeq(out, 1, events)
             q == SubSeq(out', 1, events)
  <2>2. out' \in Seq(OutSet) /\ Len(out') \in Nat BY <2>1 DEF TextInv, FilterTyped
  <2>3. events <= Len(out) BY <1>1 DEF Linked
  <2>4. events \in 0..Len(out) /\ events \in 0..Len(out') BY <1>1, <2>1, <2>2, <2>3
  <2>5. ASSUME NEW h \in Seq(OutSet), events \in 0..Len(h)
        PROVE  SubSeq(h, 1, events) \in Seq(OutSet) /\ Len(SubSeq(h, 1, events)) = events
               /\ \A k \in 1..events : SubSeq(h, 1, events)[k] = h[k]
    <3>1. /\ \A n \in 0..Len(h) : SubSeq(h, 1, n) \in Seq(OutSet) /\ Len(SubSeq(h, 1, n)) = n
          /\ \A n \in 0..Len(h) : \A i \in 1..n : SubSeq(h, 1, n)[i] = h[i]
          /\ SubSeq(h, 1, 0) = <<>> /\ SubSeq(h, 1, Len(h)) = h
          /\ \A n \in 1..Len(h) : SubSeq(h, 1, n) = Append(SubSeq(h, 1, n - 1), h[n])
      BY FirstPart
    <3> QED BY <2>5, <3>1
  <2>6. p \in Seq(OutSet) /\ Len(p) = events /\ \A k \in 1..events : p[k] = out[k] BY <1>1, <2>4, <2>5
  <2>7. q \in Seq(OutSet) /\ Len(q) = events /\ \A k \in 1..events : q[k] = out'[k] BY <2>2, <2>4, <2>5
  <2> HIDE DEF p, q
  <2>8. \A k \in 1..events : k \in 1..Len(out) BY <1>1, <2>3
  <2>9. \A k \in 1..Len(q) : q[k] = p[k] BY <2>1, <2>6, <2>7, <2>8
  <2>10. q = p BY <2>6, <2>7, <2>9, SeqEqual
  <2>11. \A type : Bodies(SubSeq(out', 1, events'), {type}) = Bodies(SubSeq(out, 1, events), {type})
    BY <1>2, <2>10 DEF p, q
  <2>12. \A type : ReadTold(type)' = ReadTold(type) BY <2>11 DEF ReadTold
  <2> QED BY <1>1, <1>2, <2>12 DEF ToldSame
<1>3. CASE UNCHANGED <<way, planVars, textVars, routeVars>> BY <1>2, <1>3 DEF routeVars
<1>4. CASE Next
  <2>1. Worker BY <1>1, <1>4 DEF Next
  <2>2. CASE TextNext /\ UNCHANGED routeVars BY <1>2, <2>2 DEF routeVars
  <2>3. CASE Receive
    <3>1. events < Len(out) /\ UNCHANGED textVars /\ out' = out BY <2>3 DEF Receive, textVars
    <3>2. CASE out[events + 1].type = "error"
      <4>1. Break BY <2>3, <3>2 DEF Receive
      <4> QED BY <1>2, <3>1, <4>1 DEF Break
    <3>3. CASE out[events + 1].type # "error"
      <4>1. Feed(out[events + 1].type, out[events + 1].body) BY <2>3, <3>3 DEF Receive
      <4>2. over = "no" BY <4>1 DEF Feed
      <4>3. events + 1 \in 1..Len(out) /\ out[events + 1] \in OutSet
            /\ Sent(out[events + 1].type, out[events + 1].body)
        BY <1>1, <3>1, <3>3, <4>2, NextEvent
      <4>4. out[events + 1].type # "tool_call_delta"
        <5>1. PICK e : e = out[events + 1] OBVIOUS
        <5>2. e \in OutSet BY <4>3, <5>1
        <5>3. e.type # "tool_call_delta" BY <5>2 DEF OutSet, WrittenSet, CallEvents, LastSet
        <5> QED BY <5>1, <5>3
      <4> QED BY <1>1, <3>1, <4>1, <4>3, <4>4, ToldFeeds
    <3> QED BY <3>2, <3>3
  <2>4. CASE WorkerEnds BY <1>2, <2>4 DEF WorkerEnds, Eof
  <2>5. CASE (Break \/ Disconnect) /\ UNCHANGED textVars BY <1>2, <2>5 DEF Break, Disconnect
  <2> QED BY <2>1, <2>2, <2>3, <2>4, <2>5 DEF Worker
<1> QED BY <1>3, <1>4

(* Once a reply has ended, every route has the model's text.               *)
LEMMA ToldWhole == ReplyInv /\ SameInv /\ (way = "worker" => ToldSame) => RepliesWhole
<1> SUFFICES ASSUME ReplyInv, SameInv, ToldSame, way = "worker" PROVE RepliesWhole BY DEF RepliesWhole
<1>1. TextInv /\ Linked /\ MessageSame BY DEF ReplyInv, SameInv
<1>2. ReplyWhole BY <1>1, TextWhole
<1>3. ASSUME over = "eof", Ended, ~hit
      PROVE  /\ whole.text = Scan.delta /\ whole.reasoning = Scan.reasoning_delta
             /\ Bodies([k \in DOMAIN BlocksRead |-> [type |-> BlocksRead[k].kind, body |-> BlocksRead[k].body]], {"text"}) = Scan.delta
  <2>1. events = Len(out) /\ textpc = "over" /\ out \in Seq(OutSet) BY <1>1, <1>3 DEF Linked, TextInv, FilterTyped
  <2>2. ToldText = Scan.delta /\ ToldThought = Scan.reasoning_delta BY <1>1, <1>3, <2>1 DEF TextInv, IsOver
  <2>3. SubSeq(out, 1, events) = out
    <3>1. /\ \A n \in 0..Len(out) : SubSeq(out, 1, n) \in Seq(OutSet) /\ Len(SubSeq(out, 1, n)) = n
          /\ \A n \in 0..Len(out) : \A i \in 1..n : SubSeq(out, 1, n)[i] = out[i]
          /\ SubSeq(out, 1, 0) = <<>> /\ SubSeq(out, 1, Len(out)) = out
          /\ \A n \in 1..Len(out) : SubSeq(out, 1, n) = Append(SubSeq(out, 1, n - 1), out[n])
      BY <2>1, FirstPart
    <3> QED BY <2>1, <3>1
  <2>4. whole.text = ToldText /\ whole.reasoning = ToldThought BY <2>3 DEF ToldSame, ReadTold, ToldText, ToldThought
  <2>5. Texted(BlocksRead) = whole.text
    <3>1. BlocksRead = Content BY <1>1 DEF MessageSame, BlocksRead
    <3>2. Texted(message.content) = whole.text BY DEF ToldSame
    <3>3. Texted(<<Block("text", <<>>)>>) = <<>>
      <4>1. PICK b : b = Block("text", <<>>) OBVIOUS
      <4>2. b \in BlockSet /\ b.kind = "text" /\ b.body = <<>> BY <4>1 DEF Block, BlockSet, BlockKinds
      <4>3. Texted(<<b>>) = IF b.kind = "text" THEN b.body ELSE <<>> BY <4>2, TextedJoin
      <4> QED BY <4>1, <4>2, <4>3
    <3>4. Texted(<<>>) = <<>>
      <4>1. <<>> \in Seq(BlockSet) /\ \A k \in 1..Len(<<>>) : <<>>[k].kind # "text" OBVIOUS
      <4> QED BY <4>1, TextedJoin
    <3>5. CASE message.content = <<>> /\ chat.completed
      <4>1. Content = <<Block("text", <<>>)>> BY <3>5 DEF Content
      <4>2. Texted(message.content) = <<>> BY <3>4, <3>5
      <4> QED BY <3>1, <3>2, <3>3, <4>1, <4>2
    <3>6. CASE ~(message.content = <<>> /\ chat.completed)
      <4>1. Content = message.content BY <3>6 DEF Content
      <4> QED BY <3>1, <3>2, <4>1
    <3> QED BY <3>5, <3>6
  <2>6. Bodies([k \in DOMAIN BlocksRead |-> [type |-> BlocksRead[k].kind, body |-> BlocksRead[k].body]], {"text"})
          = Texted(BlocksRead)
    BY DEF Texted, BlockItems, BlockItem
  <2> QED BY <2>2, <2>4, <2>5, <2>6
<1> QED BY <1>2, <1>3 DEF RepliesWhole

(* The clients of all routes read the model's content as it is written,    *)
(* and whole once the reply ends without a stop sequence (server.py,       *)
(* openai_compat.py, anthropic_stream.py, anthropic_compat.py).            *)
THEOREM TheReplyIsWhole == Spec => []RepliesWhole
<1> DEFINE I == way = "worker" => ToldSame
<1>1. Init => I BY ToldBegins
<1> QED BY <1>1, RepliesBegin, RepliesKeep, SameBegins, SameKeeps, ToldKeeps, ToldWhole, PTL DEF Spec
=============================================================================
