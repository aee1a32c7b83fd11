---------------------------- MODULE CachesProofs ----------------------------
(***************************************************************************)
(* Proofs about the prompt caches, for any prompts, budgets and bounds.    *)
(* Each cache has an inductive invariant of its own; a behaviour of        *)
(* MCCaches is one of exactly one cache, so each invariant also holds      *)
(* where another cache steps.                                              *)
(***************************************************************************)
EXTENDS MCCaches, TLAPS, FiniteSetTheorems, SequenceTheorems, NaturalsInduction,
        WellFoundedInduction

-----------------------------------------------------------------------------
(* Directories.                                                            *)

(* A set of naturals that is not empty has a least element.                *)
LEMMA LeastOf ==
  ASSUME NEW B, B \subseteq Nat, B # {} PROVE \E n \in B : \A k \in B : n <= k
<1>1. PICK n \in B : \A k \in B : ~(<<k, n>> \in OpToRel(<, Nat))
  BY NatLessThanWellFounded, WFMin
<1>2. \A k \in B : ~(k < n) BY <1>1 DEF OpToRel
<1> QED BY <1>2

(* What holds of 0 and of a successor when it holds before it holds.       *)
LEMMA Counting ==
  ASSUME NEW n \in Nat, NEW G, 0 \in G, \A i \in 1..n : i - 1 \in G => i \in G
  PROVE  0..n \subseteq G
<1> SUFFICES ASSUME NEW j \in 0..n, j \notin G PROVE FALSE OBVIOUS
<1> DEFINE B == {i \in 0..n : i \notin G}
<1>1. PICK i \in B : \A k \in B : i <= k
  <2>1. B \subseteq Nat /\ B # {} OBVIOUS
  <2> QED BY <2>1, LeastOf
<1>2. i \in 1..n /\ i - 1 \in 0..n /\ i - 1 \notin B BY <1>1
<1> QED BY <1>1, <1>2

(* The definition of Without: what g leaves of the first files of s.       *)
LeftAt(g, s, S, i) == IF i = 0 THEN <<>>
                      ELSE IF s[i] \in S THEN g[i - 1] ELSE Append(g[i - 1], s[i])
Fills(m, g, s, S) == \A i \in 0..m : g[i] = LeftAt(g, s, S, i)

(* The recursive definition has the value of a function that fills up.     *)
LEMMA WithoutFills ==
  ASSUME NEW T, NEW s \in Seq(T), NEW S
  PROVE  \E g \in [0..Len(s) -> Seq(T)] : Fills(Len(s), g, s, S) /\ Without(s, S) = g[Len(s)]
<1> DEFINE n == Len(s)
           Is(g) == g = [i \in 0..n |-> LeftAt(g, s, S, i)]
           it == CHOOSE g : Is(g)
           G == {m \in 0..n : \E g \in [0..n -> Seq(T)] : Fills(m, g, s, S)}
<1>1. n \in Nat /\ \A i \in 1..n : s[i] \in T OBVIOUS
<1>2. 0 \in G
  <2> DEFINE g == [i \in 0..n |-> <<>>]
  <2>1. g \in [0..n -> Seq(T)] /\ Fills(0, g, s, S) BY <1>1 DEF Fills, LeftAt
  <2> HIDE DEF g
  <2> QED BY <1>1, <2>1
<1>3. ASSUME NEW i \in 1..n, i - 1 \in G PROVE i \in G
  <2>1. PICK g \in [0..n -> Seq(T)] : Fills(i - 1, g, s, S) BY <1>3
  <2> DEFINE h == [g EXCEPT ![i] = LeftAt(g, s, S, i)]
  <2>2. LeftAt(g, s, S, i) \in Seq(T)
    <3>1. g[i - 1] \in Seq(T) /\ s[i] \in T /\ i # 0 BY <1>1
    <3> QED BY <3>1 DEF LeftAt
  <2>3. h \in [0..n -> Seq(T)] BY <2>2
  <2>4. \A j \in 0..n : h[j] = IF j = i THEN LeftAt(g, s, S, i) ELSE g[j] OBVIOUS
  <2> HIDE DEF h, n
  <2>5. ASSUME NEW j \in 0..i PROVE h[j] = LeftAt(h, s, S, j)
    <3>1. j \in 0..n /\ (j # 0 => j - 1 \in 0..n /\ j - 1 # i) BY <1>1
    <3>2. j # 0 => h[j - 1] = g[j - 1] BY <2>4, <3>1
    <3>3. LeftAt(h, s, S, j) = LeftAt(g, s, S, j) BY <3>2 DEF LeftAt
    <3>4. h[j] = LeftAt(g, s, S, j)
      <4>1. CASE j = i BY <2>4, <3>1, <4>1
      <4>2. CASE j # i
        <5>1. j \in 0..(i - 1) BY <1>1, <4>2
        <5> QED BY <2>1, <2>4, <3>1, <4>2, <5>1 DEF Fills
      <4> QED BY <4>1, <4>2
    <3> QED BY <3>3, <3>4
  <2>6. Fills(i, h, s, S) BY <2>5 DEF Fills
  <2> QED BY <1>1, <2>3, <2>6
<1> HIDE DEF n
<1>4. n \in G
  <2>1. n \in 0..n BY <1>1
  <2> HIDE DEF G
  <2>2. 0..n \subseteq G BY <1>1, <1>2, <1>3, Counting
  <2> QED BY <2>1, <2>2
<1>5. PICK g \in [0..n -> Seq(T)] : Fills(n, g, s, S) BY <1>4
<1>6. Is(g) BY <1>5 DEF Fills
<1>7. Is(it) BY <1>6
<1>8. it = g
  <2> DEFINE E == {i \in 0..n : it[i] = g[i]}
  <2> HIDE DEF it
  <2>1. \A i \in 0..n : it[i] = LeftAt(it, s, S, i) BY <1>7
  <2>2. \A i \in 0..n : g[i] = LeftAt(g, s, S, i) BY <1>5 DEF Fills
  <2>3. 0 \in E
    <3>1. 0 \in 0..n BY <1>1
    <3> QED BY <2>1, <2>2, <3>1 DEF LeftAt
  <2>4. ASSUME NEW i \in 1..n, i - 1 \in E PROVE i \in E
    <3>1. i \in 0..n /\ i # 0 /\ it[i - 1] = g[i - 1] BY <1>1, <2>4
    <3>2. LeftAt(it, s, S, i) = LeftAt(g, s, S, i) BY <3>1 DEF LeftAt
    <3> QED BY <2>1, <2>2, <3>1, <3>2
  <2>5. \A i \in E : it[i] = g[i] OBVIOUS
  <2> HIDE DEF E
  <2>6. 0..n \subseteq E BY <1>1, <2>3, <2>4, Counting
  <2>7. it = [i \in 0..n |-> LeftAt(it, s, S, i)] BY <1>7
  <2>8. DOMAIN it = 0..n /\ it = [i \in DOMAIN it |-> it[i]] BY <2>7
  <2> QED BY <2>5, <2>6, <2>8
<1>9. Without(s, S) = it[n] BY DEF Without, LeftAt, n
<1> QED BY <1>5, <1>8, <1>9 DEF n

(* What is left of a directory: the files that are not removed, each once  *)
(* when each was there once, and fewer of them when one was removed.       *)
Once(s) == \A i, j \in DOMAIN s : s[i] = s[j] => i = j

(* What Without leaves.                                                    *)
LEMMA WithoutFacts ==
  ASSUME NEW T, NEW s \in Seq(T), NEW S
  PROVE  /\ Without(s, S) \in Seq(T)
         /\ ToSet(Without(s, S)) = ToSet(s) \ S
         /\ Len(Without(s, S)) <= Len(s)
         /\ ToSet(s) \cap S # {} => Len(Without(s, S)) < Len(s)
         /\ Once(s) => Once(Without(s, S))
<1> DEFINE n == Len(s)
           R(i) == {s[j] : j \in 1..i}
<1>1. PICK g \in [0..n -> Seq(T)] : Fills(n, g, s, S) /\ Without(s, S) = g[n] BY WithoutFills
<1>2. n \in Nat /\ DOMAIN s = 1..n /\ \A i \in 1..n : s[i] \in T OBVIOUS
<1>3. \A i \in 0..n : g[i] \in Seq(T) /\ Len(g[i]) \in Nat OBVIOUS
<1>4. g[0] = <<>>
  <2>1. 0 \in 0..n BY <1>2
  <2> QED BY <1>1, <2>1 DEF Fills, LeftAt
<1>5. \A i \in 1..n : g[i] = IF s[i] \in S THEN g[i - 1] ELSE Append(g[i - 1], s[i])
  <2> TAKE i \in 1..n
  <2>1. i \in 0..n /\ i # 0 BY <1>2
  <2> QED BY <1>1, <2>1 DEF Fills, LeftAt
<1> DEFINE Fine(i) ==
             /\ ToSet(g[i]) = R(i) \ S
             /\ Len(g[i]) <= i
             /\ R(i) \cap S # {} => Len(g[i]) < i
             /\ Once(s) => Once(g[i])
           G == {i \in 0..n : Fine(i)}
<1>6. 0 \in G
  <2>1. DOMAIN g[0] = {} /\ Len(g[0]) = 0 BY <1>4
  <2>2. R(0) = {} OBVIOUS
  <2> QED BY <1>2, <2>1, <2>2 DEF ToSet, Once
<1>7. ASSUME NEW i \in 1..n, i - 1 \in G PROVE i \in G
  <2>0. Fine(i - 1) BY <1>7
  <2>1. /\ i - 1 \in 0..n /\ i \in Nat /\ g[i - 1] \in Seq(T)
        /\ Len(g[i - 1]) \in Nat /\ Fine(i - 1)
    <3>1. i - 1 \in 0..n /\ i \in Nat BY <1>2
    <3> QED BY <1>3, <2>0, <3>1
  <2>2. R(i) = R(i - 1) \cup {s[i]} BY <1>2
  <2>3. CASE s[i] \in S
    <3>1. g[i] = g[i - 1] BY <1>5, <2>3
    <3> QED BY <2>1, <2>2, <2>3, <3>1
  <2>4. CASE s[i] \notin S
    <3>1. g[i] = Append(g[i - 1], s[i]) /\ s[i] \in T BY <1>2, <1>5, <2>4
    <3>2. /\ Len(g[i]) = Len(g[i - 1]) + 1
          /\ DOMAIN g[i - 1] = 1..Len(g[i - 1]) /\ DOMAIN g[i] = 1..Len(g[i])
          /\ \A j \in 1..Len(g[i - 1]) : g[i][j] = g[i - 1][j]
          /\ g[i][Len(g[i])] = s[i]
      BY <2>1, <3>1
    <3>3. ToSet(g[i]) = ToSet(g[i - 1]) \cup {s[i]}
      <4> HIDE DEF n, Fine
      <4>1. ToSet(g[i]) \subseteq ToSet(g[i - 1]) \cup {s[i]} BY <2>1, <3>2 DEF ToSet
      <4>2. Len(g[i]) \in DOMAIN g[i] /\ \A j \in DOMAIN g[i - 1] : j \in DOMAIN g[i]
        BY <2>1, <3>2
      <4> QED BY <3>2, <4>1, <4>2 DEF ToSet
    <3>4. ToSet(g[i]) = R(i) \ S BY <2>1, <2>2, <2>4, <3>3
    <3>5. Len(g[i]) <= i /\ (R(i) \cap S # {} => Len(g[i]) < i)
      BY <2>1, <2>2, <2>4, <3>2
    <3>6. ASSUME Once(s) PROVE Once(g[i])
      <4>1. Once(g[i - 1]) BY <2>1, <3>6
      <4>2. \A j \in 1..Len(g[i - 1]) : g[i - 1][j] # s[i]
        <5> SUFFICES ASSUME NEW j \in 1..Len(g[i - 1]), g[i - 1][j] = s[i] PROVE FALSE OBVIOUS
        <5>1. s[i] \in R(i - 1) BY <2>1, <3>2 DEF ToSet
        <5>2. PICK k \in 1..(i - 1) : s[k] = s[i] BY <5>1
        <5>3. k \in 1..n /\ k # i BY <1>2
        <5> QED BY <1>2, <3>6, <5>2, <5>3 DEF Once
      <4> QED BY <2>1, <3>2, <4>1, <4>2 DEF Once
    <3> QED BY <3>4, <3>5, <3>6
  <2> QED BY <2>3, <2>4
<1>8. \A i \in G : Fine(i) OBVIOUS
<1>9. n \in 0..n BY <1>2
<1>10. R(n) = ToSet(s) BY <1>2 DEF ToSet
<1> HIDE DEF G
<1>11. Fine(n) BY <1>2, <1>6, <1>7, <1>8, <1>9, Counting
<1> QED BY <1>1, <1>3, <1>9, <1>10, <1>11

(* What a file that is written or touched does to its directory.           *)
LEMMA RecentFacts ==
  ASSUME NEW T, NEW s \in Seq(T), NEW x \in T
  PROVE  /\ Recent(s, x) \in Seq(T)
         /\ ToSet(Recent(s, x)) = ToSet(s) \cup {x}
         /\ Len(Recent(s, x)) <= Len(s) + 1
         /\ x \in ToSet(s) => Len(Recent(s, x)) <= Len(s)
         /\ Once(s) => Once(Recent(s, x))
<1> DEFINE t == Without(s, {x})
<1>1. /\ t \in Seq(T) /\ ToSet(t) = ToSet(s) \ {x} /\ Len(t) <= Len(s)
      /\ ToSet(s) \cap {x} # {} => Len(t) < Len(s)
      /\ Once(s) => Once(t)
  BY WithoutFacts
<1>2. Recent(s, x) = Append(t, x) BY DEF Recent
<1> HIDE DEF t
<1>3. Len(t) \in Nat /\ Len(s) \in Nat /\ DOMAIN t = 1..Len(t) BY <1>1
<1>4. /\ Append(t, x) \in Seq(T) /\ Len(Append(t, x)) = Len(t) + 1
      /\ DOMAIN Append(t, x) = 1..(Len(t) + 1)
      /\ \A j \in 1..Len(t) : Append(t, x)[j] = t[j]
      /\ Append(t, x)[Len(t) + 1] = x
  BY <1>1
<1>5. ToSet(Append(t, x)) = ToSet(t) \cup {x} BY <1>3, <1>4 DEF ToSet
<1>6. x \notin ToSet(t) BY <1>1
<1>7. \A j \in 1..Len(t) : t[j] # x BY <1>3, <1>6 DEF ToSet
<1>8. Once(s) => Once(Append(t, x)) BY <1>1, <1>3, <1>4, <1>7 DEF Once
<1> QED BY <1>1, <1>2, <1>3, <1>4, <1>5, <1>8
-----------------------------------------------------------------------------
(* The invariant of the SSD tier.                                          *)
Files == {"tensor", "quarantine", "temp"} \X Blocks
Reads == [block : Blocks, sound : BOOLEAN]
Works == [pc : {"down", "idle", "load", "serve", "save", "replace", "sum", "prune"},
          chain : Chains \cup {<<>>}, n : Nat, i : Nat, got : Seq(Reads)]
Fit(v) ==
  /\ v \in Works /\ v.n <= Len(v.chain) /\ v.i >= 1 /\ v.i <= Len(v.chain) + 1
  /\ v.pc \notin {"down", "idle"} => v.chain \in Chains
KVTyped ==
  /\ standing \in BOOLEAN /\ circuit \in BOOLEAN
  /\ blobs \in Seq(Files) /\ sums \in SUBSET Blocks
  /\ rotten \in SUBSET Blocks /\ IsFiniteSet(rotten) /\ marks \in Seq(Chains)
  /\ Fit(w)
  /\ fails \in Nat /\ faults \in 0..MaxFaults /\ crashes \in 0..MaxCrashes /\ wipes \in 0..MaxWipes

(* What was read are the first blocks of the prompt, whole; a restore that *)
(* may not stop short is of the whole prompt until a block is put away.    *)
ReadSound ==
  /\ w.pc \in {"load", "serve"} =>
       /\ Len(w.got) = w.i - 1
       /\ \A k \in DOMAIN w.got : w.got[k].block = w.chain[k] /\ w.got[k].sound
  /\ w.pc = "load" /\ ~BranchReuse /\ w.i <= w.n => w.n = Len(w.chain)
  /\ w.pc = "serve" => Enough

(* A restore that is bound to fail: a block it still has to read is gone,  *)
(* or it ended and too little was read.                                    *)
Doomed ==
  /\ w.pc = "load"
  /\ \/ \E k \in w.i..w.n : ~Pair(w.chain[k])
     \/ w.i > w.n /\ ~Enough
(* A failure, a rotten block and a doomed restore have each cost a fault   *)
(* or a removal of the tree of its own.                                    *)
Owed == fails + Cardinality(rotten) + (IF Doomed THEN 1 ELSE 0)
FailuresOwed == Owed <= faults + wipes

(* Only between writing a block and pruning, or when the worker was killed *)
(* there, is there more than the quota; a tree that was removed is empty.  *)
RoomKept ==
  /\ Bytes(marks, blobs) <=
       Quota + (IF w.pc \in {"replace", "sum", "prune", "down"} THEN BlockBytes ELSE 0)
  /\ ~standing => blobs = <<>> /\ marks = <<>>
  /\ w.pc = "replace" /\ standing => w.i <= w.n /\ Temp(w.chain[w.i]) \in ToSet(blobs)

KVInv == KVTyped /\ ReadSound /\ FailuresOwed /\ RoomKept

(* Pruning removes files, and what is left fits the quota.                 *)
LEMMA CutFits ==
  ASSUME NEW m \in Seq(Chains), NEW f \in Seq(Files) PROVE Cut(m, f) \in Cuts(m, f)
<1> DEFINE B == {p[1] + p[2] : p \in Cuts(m, f)}
           all == <<Len(m), Len(f)>>
<1>1. Len(m) \in Nat /\ Len(f) \in Nat /\ Quota \in Nat BY BoundsNat
<1>2. all \in Cuts(m, f) BY <1>1 DEF Cuts, Bytes, BlockBytes
<1>3. \A p \in Cuts(m, f) : p[1] \in Nat /\ p[2] \in Nat BY <1>1 DEF Cuts
<1>4. B \subseteq Nat /\ B # {} BY <1>2, <1>3
<1>5. PICK n \in B : \A k \in B : n <= k BY <1>4, LeastOf
<1>6. PICK p \in Cuts(m, f) : p[1] + p[2] = n BY <1>5
<1>7. \A q \in Cuts(m, f) : p[1] + p[2] <= q[1] + q[2] BY <1>5, <1>6
<1> QED BY <1>7 DEF Cut

(* What pruning leaves, and that it fits.                                  *)
LEMMA PruneFacts ==
  ASSUME NEW m \in Seq(Chains), NEW f \in Seq(Files), NEW s, NEW r, Prune(m, f, s, r)
  PROVE  /\ marks' \in Seq(Chains) /\ blobs' \in Seq(Files)
         /\ Bytes(marks', blobs') <= Quota
         /\ Len(marks') <= Len(m) /\ Len(blobs') <= Len(f)
         /\ sums' \subseteq s /\ rotten' \subseteq r
<1> DEFINE p == Cut(m, f)
           e == p[1]
           g == p[2]
<1>1. p \in Cuts(m, f) BY CutFits
<1>2. e \in 0..Len(m) /\ g \in 0..Len(f) /\ Bytes(m, f) - e - BlockBytes * g <= Quota
  <2> HIDE DEF p
  <2> QED BY <1>1 DEF Cuts
<1>3. marks' = SubSeq(m, e + 1, Len(m)) /\ blobs' = SubSeq(f, g + 1, Len(f))
  BY DEF Prune
<1>4. sums' \subseteq s /\ rotten' \subseteq r BY DEF Prune
<1> HIDE DEF e, g
<1>5. Len(m) \in Nat /\ Len(f) \in Nat /\ e \in Nat /\ g \in Nat BY <1>2
<1> DEFINE u == SubSeq(m, e + 1, Len(m))
           v == SubSeq(f, g + 1, Len(f))
<1>6. u \in Seq(Chains) /\ Len(u) = Len(m) - e
  <2>1. \A k \in (e + 1)..Len(m) : m[k] \in Chains BY <1>5
  <2> QED BY <1>2, <1>5, <2>1, SubSeqProperties
<1>7. /\ v \in Seq(Files) /\ Len(v) = Len(f) - g
      /\ \A k \in 1..(Len(f) - g) : v[k] = f[g + k]
  <2>1. \A k \in (g + 1)..Len(f) : f[k] \in Files BY <1>5
  <2>2. /\ v \in Seq(Files)
        /\ Len(v) = IF g + 1 <= Len(f) THEN Len(f) - (g + 1) + 1 ELSE 0
        /\ \A k \in 1..(Len(f) - (g + 1) + 1) : v[k] = f[(g + 1) + k - 1]
    BY <1>5, <2>1, SubSeqProperties
  <2>3. \A k \in Nat : (g + 1) + k - 1 = g + k BY <1>5
  <2>4. \A n : n = (IF g + 1 <= Len(f) THEN Len(f) - (g + 1) + 1 ELSE 0)
                => n = Len(f) - g
    BY <1>2, <1>5
  <2>5. Len(f) - (g + 1) + 1 = Len(f) - g BY <1>5
  <2> HIDE DEF v
  <2>6. Len(v) = Len(f) - g BY <2>2, <2>4, Zenon
  <2>7. ASSUME NEW k \in 1..(Len(f) - g) PROVE v[k] = f[g + k]
    <3>1. k \in Nat BY <1>2, <1>5
    <3>2. (g + 1) + k - 1 = g + k BY <2>3, <3>1, Zenon
    <3>3. v[k] = f[(g + 1) + k - 1] BY <2>2, <2>5, <2>7, Zenon
    <3> QED BY <3>2, <3>3, Zenon
  <2> QED BY <2>2, <2>6, <2>7, Zenon
<1>8. marks' = u /\ blobs' = v BY <1>3
<1> HIDE DEF u, v
<1>9. Len(u) <= Len(m) /\ Len(v) <= Len(f) BY <1>2, <1>5, <1>6, <1>7
<1>11. Bytes(u, v) <= Quota
  <2>1. Bytes(u, v) = Bytes(m, f) - e - BlockBytes * g
    BY <1>5, <1>6, <1>7 DEF Bytes, BlockBytes
  <2> QED BY <1>2, <2>1
<1> QED BY <1>4, <1>6, <1>7, <1>8, <1>9, <1>11

(* A chain is a sequence of blocks.                                        *)
LEMMA ChainsAreBlocks ==
  \A c \in Chains \cup {<<>>} :
    c \in Seq(Blocks) /\ Len(c) \in Nat /\ \A k \in 1..Len(c) : c[k] \in Blocks
<1>1. \A c \in Seq(Blocks) : Len(c) \in Nat /\ \A k \in 1..Len(c) : c[k] \in Blocks
  OBVIOUS
<1>2. <<>> \in Seq(Blocks) BY EmptySeq
<1>3. ASSUME NEW c \in Chains PROVE c \in Seq(Blocks)
  <2>1. c \in Seq(ToSet(c)) BY ChainsSeq
  <2>2. ToSet(c) \subseteq Blocks BY DEF Blocks
  <2> QED BY <2>1, <2>2, SeqMonotonic
<1> QED BY <1>1, <1>2, <1>3

(* The longest prefix whose blocks are in place.                           *)
LEMMA PrefixFacts ==
  ASSUME NEW c \in Chains
  PROVE  PrefixLength(c) \in 0..Len(c) /\ \A k \in 1..PrefixLength(c) : Pair(c[k])
<1> DEFINE Ends(n) == (\A k \in 1..n : Pair(c[k])) /\ (n < Len(c) => ~Pair(c[n + 1]))
           B == {n \in 0..Len(c) : n = Len(c) \/ ~Pair(c[n + 1])}
<1>1. Len(c) \in Nat BY ChainsAreBlocks
<1>2. B \subseteq Nat /\ B # {} BY <1>1
<1>3. PICK n \in B : \A k \in B : n <= k BY <1>2, LeastOf
<1>4. ASSUME NEW k \in 1..n PROVE k - 1 \in 0..Len(c) /\ k - 1 \notin B
  <2>1. n \in 0..Len(c) OBVIOUS
  <2>2. k - 1 \in 0..Len(c) /\ ~(n <= k - 1) BY <1>1, <2>1
  <2> HIDE DEF B
  <2> QED BY <1>3, <2>2
<1>5. \A k \in 1..n : Pair(c[k])
  <2> TAKE k \in 1..n
  <2>1. Pair(c[(k - 1) + 1]) BY <1>4
  <2> QED BY <2>1, <1>3, <1>1
<1>6. n \in 0..Len(c) /\ Ends(n) BY <1>1, <1>3, <1>5
<1>7. PrefixLength(c) = CHOOSE m \in 0..Len(c) : Ends(m) BY DEF PrefixLength
<1> QED BY <1>6, <1>7
(* What was rotten and is not any more only makes the rotten fewer.        *)
LEMMA RottenCount ==
  ASSUME KVTyped
  PROVE  /\ Cardinality(rotten) \in Nat
         /\ \A r \in SUBSET rotten : IsFiniteSet(r) /\ Cardinality(r) \in Nat
                                     /\ Cardinality(r) <= Cardinality(rotten)
BY FS_Subset, FS_CardinalityType DEF KVTyped

(* The names of the files of a block are files.                            *)
LEMMA FileNames ==
  \A blk \in Blocks : /\ Tensor(blk) \in Files /\ Temp(blk) \in Files
                      /\ <<"quarantine", blk>> \in Files /\ Temp(blk) # Tensor(blk)
BY DEF Files, Tensor, Temp

(* Putting a block aside renames its tensor in place.                      *)
LEMMA SetAsideFacts ==
  ASSUME NEW blk \in Blocks, blobs \in Seq(Files)
  PROVE  SetAside(blk) \in Seq(Files) /\ Len(SetAside(blk)) = Len(blobs)
<1>1. Len(blobs) \in Nat /\ DOMAIN blobs = 1..Len(blobs) /\ \A k \in 1..Len(blobs) : blobs[k] \in Files
  OBVIOUS
<1> DEFINE v(k) == IF blobs[k] = Tensor(blk) THEN <<"quarantine", blk>> ELSE blobs[k]
           t == [k \in 1..Len(blobs) |-> v(k)]
<1>2. \A k \in 1..Len(blobs) : v(k) \in Files BY <1>1, FileNames
<1>3. SetAside(blk) = t BY <1>1 DEF SetAside
<1> HIDE DEF v
<1>4. t \in Seq(Files) /\ Len(t) = Len(blobs)
  <2>1. t \in [1..Len(blobs) -> Files] BY <1>2
  <2>2. DOMAIN t = 1..Len(blobs) OBVIOUS
  <2> HIDE DEF t
  <2>3. t \in Seq(Files) BY <1>1, <2>1
  <2>4. Len(t) = Len(blobs) BY <1>1, <2>2, <2>3
  <2> QED BY <2>3, <2>4
<1> QED BY <1>3, <1>4

(* The steps of a worker that leave the disk as it is.                     *)
Thinks ==
  \/ Hit \/ Failed \/ FallBack \/ Served \/ GiveUp \/ LayoutMismatch \/ Kill
  \/ \E c \in Chains : Store(c)
  \/ \E blk \in Blocks : Deduplicate(blk)
(* The steps that end in a pruning.                                        *)
Prunings ==
  Open \/ MarkExact \/ \E blk \in Blocks : Quarantine(blk) \/ PruneBlock(blk)
(* The other steps.                                                        *)
Handles ==
  \/ Clear \/ Wipe
  \/ \E c \in Chains : Lookup(c)
  \/ \E blk \in Blocks : LoadBlock(blk) \/ WriteTemporary(blk) \/ ReplaceTensor(blk)
                         \/ ReplaceChecksum(blk) \/ Rot(blk)

(* The steps of the SSD tier in three groups.                              *)
LEMMA KVSplit == KVNext <=> Thinks \/ Prunings \/ Handles
BY DEF KVNext, Thinks, Prunings, Handles

(* The worker's record, from one step to the next.                         *)
LEMMA FitSteps ==
  /\ Fit(KVIdle) /\ Fit([KVIdle EXCEPT !.pc = "down"])
  /\ \A c \in Chains : \A n \in 0..Len(c) : \A st \in {"load", "save"} :
       Fit([pc |-> st, chain |-> c, n |-> n, i |-> 1, got |-> <<>>])
  /\ \A v : Fit(v) /\ v.pc \notin {"down", "idle"} =>
       /\ \A st \in {"serve", "replace", "sum", "prune"} : Fit([v EXCEPT !.pc = st])
       /\ Fit([v EXCEPT !.n = v.i - 1])
       /\ v.i <= v.n => /\ Fit([v EXCEPT !.pc = "save", !.i = v.i + 1])
                        /\ \A g \in Seq(Reads) : Fit([v EXCEPT !.i = v.i + 1, !.got = g])
<1>1. <<>> \in Seq(Reads) /\ Len(<<>>) = 0 BY EmptySeq
<1>2. ASSUME NEW st \in {"idle", "down"}
      PROVE  Fit([pc |-> st, chain |-> <<>>, n |-> 0, i |-> 1, got |-> <<>>])
  BY <1>1 DEF Fit, Works
<1>5. Fit(KVIdle) /\ Fit([KVIdle EXCEPT !.pc = "down"])
  <2>1. /\ KVIdle = [pc |-> "idle", chain |-> <<>>, n |-> 0, i |-> 1, got |-> <<>>]
        /\ [KVIdle EXCEPT !.pc = "down"] = [pc |-> "down", chain |-> <<>>, n |-> 0, i |-> 1, got |-> <<>>]
    BY DEF KVIdle
  <2> QED BY <1>2, <2>1
<1>3. ASSUME NEW c \in Chains, NEW n \in 0..Len(c), NEW st \in {"load", "save"}
      PROVE  Fit([pc |-> st, chain |-> c, n |-> n, i |-> 1, got |-> <<>>])
  <2>1. Len(c) \in Nat BY ChainsAreBlocks
  <2> QED BY <1>1, <2>1 DEF Fit, Works
<1>4. ASSUME NEW v, Fit(v), v.pc \notin {"down", "idle"}
      PROVE  /\ \A st \in {"serve", "replace", "sum", "prune"} : Fit([v EXCEPT !.pc = st])
             /\ Fit([v EXCEPT !.n = v.i - 1])
             /\ v.i <= v.n => /\ Fit([v EXCEPT !.pc = "save", !.i = v.i + 1])
                              /\ \A g \in Seq(Reads) : Fit([v EXCEPT !.i = v.i + 1, !.got = g])
  <2>1. v \in Works /\ Len(v.chain) \in Nat /\ v.i \in Nat /\ v.n \in Nat /\ v.i - 1 \in Nat
    BY <1>4, ChainsAreBlocks DEF Fit, Works
  <2>2. ASSUME NEW st \in {"serve", "replace", "sum", "prune"} PROVE Fit([v EXCEPT !.pc = st])
    BY <1>4, <2>1 DEF Fit, Works
  <2>3. Fit([v EXCEPT !.n = v.i - 1]) BY <1>4, <2>1 DEF Fit, Works
  <2>4. ASSUME v.i <= v.n PROVE Fit([v EXCEPT !.pc = "save", !.i = v.i + 1])
    <3> DEFINE u == [v EXCEPT !.pc = "save", !.i = v.i + 1]
    <3>0. v.i + 1 \in Nat /\ "save" \in {"down", "idle", "load", "serve", "save", "replace", "sum", "prune"}
      BY <2>1
    <3>1. u.chain = v.chain /\ u.n = v.n /\ u.i = v.i + 1 /\ u.pc = "save" /\ u \in Works
      BY <2>1, <3>0 DEF Works
    <3>2. u.n <= Len(u.chain) /\ u.i >= 1 /\ u.i <= Len(u.chain) + 1
      BY <1>4, <2>1, <2>4, <3>1 DEF Fit
    <3> QED BY <1>4, <3>1, <3>2 DEF Fit
  <2>5. ASSUME v.i <= v.n, NEW g \in Seq(Reads) PROVE Fit([v EXCEPT !.i = v.i + 1, !.got = g])
    <3> DEFINE u == [v EXCEPT !.i = v.i + 1, !.got = g]
    <3>0. v.i + 1 \in Nat BY <2>1
    <3>1. u.chain = v.chain /\ u.n = v.n /\ u.i = v.i + 1 /\ u.pc = v.pc /\ u \in Works
      BY <2>1, <3>0 DEF Works
    <3>2. u.n <= Len(u.chain) /\ u.i >= 1 /\ u.i <= Len(u.chain) + 1
      BY <1>4, <2>1, <2>5, <3>1 DEF Fit
    <3> QED BY <1>4, <3>1, <3>2 DEF Fit
  <2> QED BY <2>2, <2>3, <2>4, <2>5
<1> QED BY <1>3, <1>4, <1>5

(* The shapes, step by step.                                               *)
LEMMA ThinksTyped == ASSUME KVInv, Thinks PROVE KVTyped'
<1> USE DEF KVInv, KVTyped, kvDisk, kvBounds
<1>0. /\ fails + 1 \in Nat /\ Fit(KVIdle)
      /\ faults < MaxFaults => faults + 1 \in 0..MaxFaults
      /\ crashes < MaxCrashes => crashes + 1 \in 0..MaxCrashes
  <2>1. Fit(KVIdle) BY FitSteps
  <2> QED BY <2>1, BoundsNat
<1>1. CASE Hit
  <2>1. Fit(w') BY <1>1, FitSteps DEF Hit, Restored
  <2> QED BY <1>1, <2>1 DEF Hit
<1>2. CASE Failed BY <1>0, <1>2 DEF Failed, RestoreFailed
<1>3. CASE FallBack BY <1>0, <1>3 DEF FallBack, RestoreFailed
<1>4. CASE Served BY <1>0, <1>4 DEF Served
<1>5. CASE GiveUp BY <1>0, <1>5 DEF GiveUp
<1>6. CASE LayoutMismatch BY <1>0, <1>6 DEF LayoutMismatch
<1>7. CASE Kill
  <2>1. Fit(w') BY <1>7, FitSteps DEF Kill
  <2> QED BY <1>0, <1>7, <2>1 DEF Kill
<1>8. ASSUME NEW c \in Chains, Store(c) PROVE KVTyped'
  <2>1. Len(c) \in Nat /\ Len(c) \in 0..Len(c) BY ChainsAreBlocks
  <2>2. Fit(w') BY <1>8, <2>1, FitSteps DEF Store
  <2> QED BY <1>8, <2>2 DEF Store
<1>9. ASSUME NEW blk \in Blocks, Deduplicate(blk) PROVE KVTyped'
  <2>1. Fit(w') BY <1>9, FitSteps DEF Deduplicate, Saving, NextBlock
  <2> QED BY <1>9, <2>1 DEF Deduplicate
<1> QED BY <1>1, <1>2, <1>3, <1>4, <1>5, <1>6, <1>7, <1>8, <1>9 DEF Thinks

(* A pruning of what has the right shapes.                                 *)
LEMMA PruneTyped ==
  ASSUME KVTyped, NEW m \in Seq(Chains), NEW f \in Seq(Files), NEW s \in SUBSET Blocks,
         NEW r \in SUBSET rotten, Prune(m, f, s, r)
  PROVE  /\ blobs' \in Seq(Files) /\ sums' \in SUBSET Blocks /\ marks' \in Seq(Chains)
         /\ rotten' \in SUBSET rotten /\ rotten' \in SUBSET Blocks /\ IsFiniteSet(rotten')
         /\ Bytes(marks', blobs') <= Quota
<1>1. /\ marks' \in Seq(Chains) /\ blobs' \in Seq(Files) /\ Bytes(marks', blobs') <= Quota
      /\ sums' \subseteq s /\ rotten' \subseteq r
  BY PruneFacts
<1>2. rotten' \in SUBSET rotten /\ IsFiniteSet(rotten') BY <1>1, RottenCount
<1> QED BY <1>1, <1>2 DEF KVTyped

(* What each of those steps prunes.                                        *)
LEMMA PruningsPrune ==
  ASSUME KVInv, Prunings
  PROVE  /\ blobs' \in Seq(Files) /\ sums' \in SUBSET Blocks /\ marks' \in Seq(Chains)
         /\ rotten' \in SUBSET rotten /\ rotten' \in SUBSET Blocks /\ IsFiniteSet(rotten')
         /\ \/ Bytes(marks', blobs') <= Quota
            \/ w.pc = "save" /\ UNCHANGED <<marks, blobs>>
<1> USE DEF KVInv, KVTyped, Fit, Works
<1>1. CASE Open
  <2> DEFINE left == Without(blobs, {Temp(x) : x \in Blocks} \cup {Tensor(x) : x \in Blocks \ sums})
             s == {x \in sums : Tensor(x) \in ToSet(blobs)}
  <2>1. left \in Seq(Files) BY WithoutFacts
  <2>2. Prune(marks, left, s, rotten) BY <1>1 DEF Open
  <2> HIDE DEF left
  <2> QED BY <2>1, <2>2, PruneTyped
<1>2. CASE MarkExact
  <2>1. CASE standing /\ \A x \in ToSet(w.chain) : Pair(x)
    <3>1. Prune(Recent(marks, w.chain), blobs, sums, rotten) BY <1>2, <2>1 DEF MarkExact
    <3>2. w.chain \in Chains BY <1>2 DEF MarkExact
    <3>3. Recent(marks, w.chain) \in Seq(Chains) BY <3>2, RecentFacts
    <3> QED BY <3>1, <3>3, PruneTyped
  <2>2. CASE ~(standing /\ \A x \in ToSet(w.chain) : Pair(x))
    BY <1>2, <2>2 DEF MarkExact
  <2> QED BY <2>1, <2>2
<1>3. ASSUME NEW blk \in Blocks, Quarantine(blk) PROVE Prune(marks, SetAside(blk), sums \ {blk}, rotten \ {blk})
  BY <1>3 DEF Quarantine
<1>4. ASSUME NEW blk \in Blocks, PruneBlock(blk) PROVE Prune(marks, blobs, sums, rotten)
  BY <1>4 DEF PruneBlock
<1>5. ASSUME NEW blk \in Blocks, Quarantine(blk) \/ PruneBlock(blk)
      PROVE  /\ blobs' \in Seq(Files) /\ sums' \in SUBSET Blocks /\ marks' \in Seq(Chains)
             /\ rotten' \in SUBSET rotten /\ rotten' \in SUBSET Blocks /\ IsFiniteSet(rotten')
             /\ Bytes(marks', blobs') <= Quota
  <2>1. SetAside(blk) \in Seq(Files) BY SetAsideFacts
  <2>2. sums \ {blk} \in SUBSET Blocks /\ rotten \ {blk} \in SUBSET rotten /\ rotten \in SUBSET rotten
    OBVIOUS
  <2>3. CASE Quarantine(blk)
    <3>1. Prune(marks, SetAside(blk), sums \ {blk}, rotten \ {blk}) BY <1>3, <2>3
    <3> QED BY <2>1, <2>2, <3>1, PruneTyped
  <2>4. CASE PruneBlock(blk)
    <3>1. Prune(marks, blobs, sums, rotten) BY <1>4, <2>4
    <3> QED BY <2>2, <3>1, PruneTyped
  <2> QED BY <1>5, <2>3, <2>4
<1> QED BY <1>1, <1>2, <1>5 DEF Prunings

(* Typing, for the steps that prune.                                       *)
LEMMA PruningsTyped == ASSUME KVInv, Prunings PROVE KVTyped'
<1> USE DEF KVInv, KVTyped
<1>1. /\ blobs' \in Seq(Files) /\ sums' \in SUBSET Blocks /\ marks' \in Seq(Chains)
      /\ rotten' \in SUBSET Blocks /\ IsFiniteSet(rotten')
  BY PruningsPrune
<1>2. Fit(KVIdle) BY FitSteps
<1>3. CASE Open BY <1>1, <1>2, <1>3 DEF Open, kvBounds
<1>4. CASE MarkExact BY <1>1, <1>2, <1>4 DEF MarkExact, kvBounds
<1>5. ASSUME NEW blk \in Blocks, Quarantine(blk) PROVE KVTyped'
  <2>1. Fit(w') BY <1>5, FitSteps DEF Quarantine, Loading
  <2> QED BY <1>1, <1>5, <2>1 DEF Quarantine, kvBounds
<1>6. ASSUME NEW blk \in Blocks, PruneBlock(blk) PROVE KVTyped'
  <2>1. Fit(w') BY <1>6, FitSteps DEF PruneBlock, Saving, NextBlock
  <2> QED BY <1>1, <1>6, <2>1 DEF PruneBlock, kvBounds
<1> QED BY <1>3, <1>4, <1>5, <1>6 DEF Prunings

(* The files and the marks after a step that prunes nothing.               *)
LEMMA HandlesTyped == ASSUME KVInv, Handles PROVE KVTyped'
<1> USE DEF KVInv, KVTyped, kvDisk, kvBounds
<1>1. CASE Clear
  <2>1. <<>> \in Seq(Files) /\ <<>> \in Seq(Chains) /\ IsFiniteSet({}) BY EmptySeq, FS_EmptySet
  <2> QED BY <1>1, <2>1 DEF Clear, Empty
<1>2. CASE Wipe
  <2>1. <<>> \in Seq(Files) /\ <<>> \in Seq(Chains) /\ IsFiniteSet({}) BY EmptySeq, FS_EmptySet
  <2>2. wipes' \in 0..MaxWipes BY <1>2, BoundsNat DEF Wipe
  <2> QED BY <1>2, <2>1, <2>2 DEF Wipe, Empty
<1>3. ASSUME NEW c \in Chains, Lookup(c) PROVE KVTyped'
  <2>1. Fit(w') BY <1>3, PrefixFacts, FitSteps DEF Lookup
  <2>2. marks' \in Seq(Chains) BY <1>3, RecentFacts DEF Lookup
  <2> QED BY <1>3, <2>1, <2>2 DEF Lookup
<1>4. ASSUME NEW blk \in Blocks, LoadBlock(blk) PROVE KVTyped'
  <2>1. Append(w.got, [block |-> blk, sound |-> blk \notin rotten]) \in Seq(Reads)
    <3>1. [block |-> blk, sound |-> blk \notin rotten] \in Reads BY DEF Reads
    <3>2. w.got \in Seq(Reads) BY DEF Fit, Works
    <3> QED BY <3>1, <3>2, AppendProperties
  <2>2. Fit(w') BY <1>4, <2>1, FitSteps DEF LoadBlock, Loading
  <2>3. blobs' \in Seq(Files) BY <1>4, FileNames, RecentFacts DEF LoadBlock
  <2> QED BY <1>4, <2>2, <2>3 DEF LoadBlock
<1>5. ASSUME NEW blk \in Blocks, WriteTemporary(blk) PROVE KVTyped'
  <2>1. Fit(w') BY <1>5, FitSteps DEF WriteTemporary, Saving, KVGoto
  <2>2. blobs' \in Seq(Files)
    <3>1. Without(blobs, {Tensor(blk)}) \in Seq(Files) BY WithoutFacts
    <3> QED BY <1>5, <3>1, FileNames, AppendProperties DEF WriteTemporary
  <2>3. sums' \in SUBSET Blocks BY <1>5 DEF WriteTemporary
  <2>4. rotten' \in SUBSET Blocks /\ IsFiniteSet(rotten') BY <1>5, FS_Subset DEF WriteTemporary
  <2> QED BY <1>5, <2>1, <2>2, <2>3, <2>4 DEF WriteTemporary
<1>6. ASSUME NEW blk \in Blocks, ReplaceTensor(blk) PROVE KVTyped'
  <2>1. Fit(w') BY <1>6, FitSteps DEF ReplaceTensor, Saving, KVGoto
  <2>2. blobs' \in Seq(Files)
    <3>1. Without(blobs, {Temp(blk)}) \in Seq(Files) BY WithoutFacts
    <3> QED BY <1>6, <3>1, FileNames, AppendProperties DEF ReplaceTensor
  <2> QED BY <1>6, <2>1, <2>2 DEF ReplaceTensor
<1>7. ASSUME NEW blk \in Blocks, ReplaceChecksum(blk) PROVE KVTyped'
  <2>1. Fit(w') BY <1>7, FitSteps DEF ReplaceChecksum, Saving, KVGoto
  <2> QED BY <1>7, <2>1 DEF ReplaceChecksum
<1>8. ASSUME NEW blk \in Blocks, Rot(blk) PROVE KVTyped'
  <2>1. rotten' \in SUBSET Blocks /\ IsFiniteSet(rotten') BY <1>8, FS_AddElement DEF Rot
  <2>2. faults' \in 0..MaxFaults BY <1>8, BoundsNat DEF Rot
  <2> QED BY <1>8, <2>1, <2>2 DEF Rot
<1> QED BY <1>1, <1>2, <1>3, <1>4, <1>5, <1>6, <1>7, <1>8 DEF Handles

(* What a restore has read and what it owes: the worker's record as it     *)
(* changes in the steps, and whether it is bound to fail.                  *)
Reading(v) == v.pc \in {"load", "serve"}
SoundRead(v) ==
  /\ Reading(v) =>
       /\ Len(v.got) = v.i - 1
       /\ \A k \in DOMAIN v.got : v.got[k].block = v.chain[k] /\ v.got[k].sound
  /\ v.pc = "load" /\ ~BranchReuse /\ v.i <= v.n => v.n = Len(v.chain)
  /\ v.pc = "serve" => v.got # <<>> /\ (BranchReuse \/ Len(v.got) = Len(v.chain))

(* What was read stays whole and in order.                                 *)
LEMMA ReadKeeps == ASSUME KVInv, KVNext PROVE ReadSound'
<1> SUFFICES SoundRead(w') BY DEF ReadSound, SoundRead, Reading, Enough
<1>1. SoundRead(w) BY DEF KVInv, ReadSound, SoundRead, Reading, Enough
<1>2. w \in Works BY DEF KVInv, KVTyped, Fit
<1>3. \A v : ~Reading(v) => SoundRead(v) BY DEF SoundRead, Reading
<1>4. ASSUME Thinks PROVE SoundRead(w')
  <2>1. CASE Hit BY <1>1, <1>2, <2>1 DEF Hit, Restored, Enough, SoundRead, Reading, Works
  <2>2. CASE Failed \/ FallBack \/ Served \/ GiveUp \/ LayoutMismatch
    <3>1. w' = KVIdle BY <2>2 DEF Failed, FallBack, Served, GiveUp, LayoutMismatch
    <3> QED BY <1>3, <3>1 DEF KVIdle, Reading
  <2>3. CASE Kill BY <1>3, <2>3 DEF Kill, KVIdle, Reading
  <2>4. ASSUME NEW c \in Chains, Store(c) PROVE SoundRead(w') BY <1>3, <2>4 DEF Store, Reading
  <2>5. ASSUME NEW blk \in Blocks, Deduplicate(blk) PROVE SoundRead(w')
    BY <1>2, <1>3, <2>5 DEF Deduplicate, NextBlock, Reading, Works
  <2> QED BY <1>4, <2>1, <2>2, <2>3, <2>4, <2>5 DEF Thinks
<1>5. ASSUME Prunings PROVE SoundRead(w')
  <2>1. ASSUME NEW blk \in Blocks, Quarantine(blk) PROVE SoundRead(w')
    BY <1>1, <1>2, <2>1 DEF Quarantine, Loading, SoundRead, Reading, Works
  <2>2. CASE Open \/ MarkExact
    <3>1. w' = KVIdle BY <2>2 DEF Open, MarkExact
    <3> QED BY <1>3, <3>1 DEF KVIdle, Reading
  <2>3. ASSUME NEW blk \in Blocks, PruneBlock(blk) PROVE SoundRead(w')
    BY <1>2, <1>3, <2>3 DEF PruneBlock, NextBlock, Reading, Works
  <2> QED BY <1>5, <2>1, <2>2, <2>3 DEF Prunings
<1>6. ASSUME Handles PROVE SoundRead(w')
  <2>1. ASSUME NEW c \in Chains, Lookup(c) PROVE SoundRead(w')
    <3>1. Len(<<>>) = 0 /\ DOMAIN <<>> = {} OBVIOUS
    <3> QED BY <2>1, <3>1 DEF Lookup, Usable, SoundRead, Reading
  <2>2. ASSUME NEW blk \in Blocks, LoadBlock(blk) PROVE SoundRead(w')
    <3> DEFINE read == [block |-> blk, sound |-> blk \notin rotten]
               g == Append(w.got, read)
    <3>1. w.pc = "load" /\ w.i <= w.n /\ blk = w.chain[w.i] /\ blk \notin rotten
      BY <2>2 DEF LoadBlock, Loading, Verified
    <3>2. w.got \in Seq(Reads) /\ read \in Reads /\ Len(w.got) \in Nat /\ w.i \in Nat
      BY <1>2 DEF Works, Reads
    <3>3. /\ Len(g) = Len(w.got) + 1 /\ DOMAIN g = 1..(Len(w.got) + 1)
          /\ DOMAIN w.got = 1..Len(w.got)
          /\ \A k \in 1..Len(w.got) : g[k] = w.got[k]
          /\ g[Len(w.got) + 1] = read
      BY <3>2
    <3>4. /\ w'.pc = "load" /\ w'.chain = w.chain /\ w'.n = w.n /\ w'.i = w.i + 1 /\ w'.got = g
      BY <1>2, <2>2, <3>1 DEF LoadBlock, Works
    <3>5. Len(w.got) = w.i - 1 /\ \A k \in DOMAIN w.got : w.got[k].block = w.chain[k] /\ w.got[k].sound
      BY <1>1, <3>1 DEF SoundRead, Reading
    <3>6. ASSUME NEW k \in DOMAIN g PROVE g[k].block = w.chain[k] /\ g[k].sound
      <4>1. CASE k = Len(w.got) + 1
        <5>1. read.block = blk /\ read.sound BY <3>1
        <5>2. k = w.i /\ g[k] = read BY <3>2, <3>3, <3>5, <4>1
        <5> HIDE DEF read, g
        <5> QED BY <3>1, <5>1, <5>2
      <4>2. CASE k # Len(w.got) + 1 BY <3>2, <3>3, <3>5, <4>2
      <4> QED BY <4>1, <4>2
    <3>7. w.n \in Nat /\ (~BranchReuse => w.n = Len(w.chain))
      BY <1>1, <1>2, <3>1 DEF SoundRead, Works
    <3> HIDE DEF g
    <3> QED BY <3>2, <3>3, <3>4, <3>5, <3>6, <3>7 DEF SoundRead, Reading
  <2>3. CASE UNCHANGED w BY <1>1, <2>3
  <2>4. ASSUME NEW blk \in Blocks, WriteTemporary(blk) \/ ReplaceTensor(blk) \/ ReplaceChecksum(blk)
        PROVE  ~Reading(w')
    BY <1>2, <2>4 DEF WriteTemporary, ReplaceTensor, ReplaceChecksum, KVGoto, Reading, Works
  <2> QED BY <1>3, <1>6, <2>1, <2>2, <2>3, <2>4 DEF Handles, Clear, Wipe, Rot
<1> QED BY <1>4, <1>5, <1>6, KVSplit
(* A restore that is under way and the blocks it needs, with every failure *)
(* paid for by a fault or a removal of its own.                            *)
Due == IF Doomed THEN 1 ELSE 0

(* The debt, in numbers.                                                   *)
LEMMA OwedIs ==
  KVTyped => /\ FailuresOwed <=> fails + Cardinality(rotten) + Due <= faults + wipes
             /\ Due \in {0, 1} /\ (Doomed => Due = 1) /\ (~Doomed => Due = 0)
             /\ fails \in Nat /\ Cardinality(rotten) \in Nat /\ faults \in Nat /\ wipes \in Nat
<1> SUFFICES ASSUME KVTyped
             PROVE  /\ FailuresOwed <=> fails + Cardinality(rotten) + Due <= faults + wipes
                    /\ Due \in {0, 1} /\ (Doomed => Due = 1) /\ (~Doomed => Due = 0)
                    /\ fails \in Nat /\ Cardinality(rotten) \in Nat /\ faults \in Nat /\ wipes \in Nat
  OBVIOUS
<1>1. Cardinality(rotten) \in Nat BY RottenCount
<1>2. fails \in Nat /\ faults \in Nat /\ wipes \in Nat BY BoundsNat DEF KVTyped
<1>3. FailuresOwed <=> fails + Cardinality(rotten) + Due <= faults + wipes BY DEF FailuresOwed, Owed, Due
<1> QED BY <1>1, <1>2, <1>3 DEF Due

(* A step that fails a restore, or dooms one, or meets a rotten block was  *)
(* paid for.                                                               *)
LEMMA OwedKeeps == ASSUME KVInv, KVNext, KVTyped' PROVE FailuresOwed'
<1> DEFINE C == Cardinality(rotten)
<1>1. /\ fails + C + Due <= faults + wipes /\ Due \in {0, 1}
      /\ (Doomed => Due = 1) /\ fails \in Nat /\ C \in Nat /\ faults \in Nat /\ wipes \in Nat
  BY OwedIs DEF KVInv
<1>0. (KVTyped => /\ FailuresOwed <=> fails + Cardinality(rotten) + Due <= faults + wipes
                  /\ Due \in {0, 1} /\ (Doomed => Due = 1) /\ (~Doomed => Due = 0)
                  /\ fails \in Nat /\ Cardinality(rotten) \in Nat /\ faults \in Nat /\ wipes \in Nat)'
  BY OwedIs, PTL
<1>2. /\ FailuresOwed' <=> fails' + Cardinality(rotten') + Due' <= faults' + wipes'
      /\ Due' \in {0, 1} /\ (~Doomed' => Due' = 0) /\ fails' \in Nat /\ Cardinality(rotten') \in Nat
  BY <1>0
<1>3. w'.pc # "load" => ~Doomed' BY DEF Doomed
<1>4. \A r \in SUBSET rotten : Cardinality(r) \in Nat /\ Cardinality(r) <= C
  BY RottenCount DEF KVInv
<1>5. w \in Works BY DEF KVInv, KVTyped, Fit
<1> SUFFICES fails' + Cardinality(rotten') + Due' <= faults' + wipes' BY <1>2
<1> HIDE DEF C
<1>7. ASSUME w'.pc # "load", fails' <= fails, rotten' \subseteq rotten, UNCHANGED <<faults, wipes>>
      PROVE  fails' + Cardinality(rotten') + Due' <= faults' + wipes'
  BY <1>1, <1>2, <1>3, <1>4, <1>7
<1>8. ASSUME Thinks PROVE fails' + Cardinality(rotten') + Due' <= faults' + wipes'
  <2>1. rotten' = rotten BY <1>8 DEF Thinks, Hit, Failed, FallBack, Served, GiveUp, LayoutMismatch,
          Kill, Store, Deduplicate, kvDisk
  <2>2. Cardinality(rotten') = C BY <2>1 DEF C
  <2>3. CASE Failed
    <3>1. Doomed BY <2>3 DEF Failed, Restored, Doomed
    <3>2. fails' = fails + 1 /\ w'.pc # "load" /\ UNCHANGED <<faults, wipes>>
      BY <2>3 DEF Failed, RestoreFailed, KVIdle, kvBounds
    <3>3. Due = 1 /\ Due' = 0 BY <1>1, <1>2, <1>3, <3>1, <3>2
    <3>4. fails + C + 1 <= faults + wipes BY <1>1, <3>3
    <3>5. fails' + Cardinality(rotten') + Due' = fails + C + 1 BY <1>1, <2>2, <3>2, <3>3
    <3> QED BY <3>2, <3>4, <3>5
  <2>4. CASE FallBack \/ LayoutMismatch
    <3>1. /\ fails' = fails + 1 /\ faults' = faults + 1 /\ UNCHANGED wipes
          /\ w'.pc # "load"
      BY <2>4 DEF FallBack, LayoutMismatch, RestoreFailed, KVIdle
    <3>2. Due' = 0 BY <1>2, <1>3, <3>1
    <3>3. fails' + Cardinality(rotten') + Due' = fails + C + 1 BY <1>1, <2>2, <3>1, <3>2
    <3>4. fails + C <= faults + wipes BY <1>1
    <3> QED BY <1>1, <3>1, <3>3, <3>4
  <2>5. CASE Hit BY <1>1, <1>5, <1>7, <2>1, <2>5 DEF Hit, kvBounds, Works
  <2>6. CASE Served \/ GiveUp BY <1>1, <1>7, <2>1, <2>6 DEF Served, GiveUp, KVIdle, kvBounds
  <2>7. CASE Kill BY <1>1, <1>7, <2>1, <2>7 DEF Kill, KVIdle
  <2>8. ASSUME NEW c \in Chains, Store(c)
        PROVE  fails' + Cardinality(rotten') + Due' <= faults' + wipes'
    BY <1>1, <1>7, <2>1, <2>8 DEF Store, kvBounds
  <2>9. ASSUME NEW blk \in Blocks, Deduplicate(blk)
        PROVE  fails' + Cardinality(rotten') + Due' <= faults' + wipes'
    BY <1>1, <1>5, <1>7, <2>1, <2>9 DEF Deduplicate, NextBlock, kvBounds, Works
  <2> QED BY <1>8, <2>3, <2>4, <2>5, <2>6, <2>7, <2>8, <2>9 DEF Thinks
<1>9. ASSUME Prunings PROVE fails' + Cardinality(rotten') + Due' <= faults' + wipes'
  <2>1. rotten' \subseteq rotten BY <1>9, PruningsPrune
  <2>2. CASE Open BY <1>1, <1>7, <2>1, <2>2 DEF Open, KVIdle, kvBounds
  <2>3. CASE MarkExact BY <1>1, <1>7, <2>1, <2>3 DEF MarkExact, KVIdle, kvBounds
  <2>4. ASSUME NEW blk \in Blocks, PruneBlock(blk)
        PROVE  fails' + Cardinality(rotten') + Due' <= faults' + wipes'
    BY <1>1, <1>5, <1>7, <2>1, <2>4 DEF PruneBlock, NextBlock, kvBounds, Works
  <2>5. ASSUME NEW blk \in Blocks, Quarantine(blk)
        PROVE  fails' + Cardinality(rotten') + Due' <= faults' + wipes'
    <3>1. UNCHANGED <<fails, faults, wipes>> BY <2>5 DEF Quarantine, kvBounds
    <3>2. CASE blk \in rotten
      <4>1. Prune(marks, SetAside(blk), sums \ {blk}, rotten \ {blk}) BY <2>5 DEF Quarantine
      <4>2. rotten' \subseteq rotten \ {blk} BY <4>1 DEF Prune
      <4>3. IsFiniteSet(rotten) BY DEF KVInv, KVTyped
      <4>4. IsFiniteSet(rotten \ {blk}) /\ Cardinality(rotten \ {blk}) = C - 1
        BY <3>2, <4>3, FS_RemoveElement DEF C
      <4>5. Cardinality(rotten') <= C - 1 BY <4>2, <4>4, FS_Subset
      <4> QED BY <1>1, <1>2, <3>1, <4>5
    <3>3. CASE blk \notin rotten
      <4>1. w.pc = "load" /\ w.i <= w.n /\ blk = w.chain[w.i] /\ ~Pair(blk)
        BY <2>5, <3>3 DEF Quarantine, Loading, Verified
      <4>2. w.i \in w.i..w.n BY <1>5, <4>1 DEF Works
      <4>3. Doomed BY <4>1, <4>2 DEF Doomed
      <4>4. Cardinality(rotten') <= C BY <1>4, <2>1
      <4> QED BY <1>1, <1>2, <3>1, <4>3, <4>4
    <3> QED BY <3>2, <3>3
  <2> QED BY <1>9, <2>2, <2>3, <2>4, <2>5 DEF Prunings
<1>10. ASSUME Handles PROVE fails' + Cardinality(rotten') + Due' <= faults' + wipes'
  <2>1. Cardinality({}) = 0 BY FS_EmptySet
  <2>2. CASE Clear
    <3>1. rotten' = {} /\ fails' = 0 /\ UNCHANGED <<faults, wipes>> /\ w'.pc # "load"
      BY <2>2 DEF Clear, Empty, kvBounds
    <3> QED BY <1>1, <1>2, <1>3, <2>1, <3>1
  <2>3. CASE Wipe
    <3>1. rotten' = {} /\ UNCHANGED <<fails, faults>> /\ wipes' = wipes + 1 BY <2>3 DEF Wipe, Empty
    <3> QED BY <1>1, <1>2, <2>1, <3>1
  <2>4. ASSUME NEW c \in Chains, Lookup(c)
        PROVE  fails' + Cardinality(rotten') + Due' <= faults' + wipes'
    <3>1. UNCHANGED <<blobs, sums, rotten, fails, faults, wipes>> BY <2>4 DEF Lookup, kvBounds
    <3>2. /\ w'.i = 1 /\ w'.n = PrefixLength(c) /\ w'.chain = c
          /\ PrefixLength(c) > 0 /\ PrefixLength(c) \in Nat
      BY <2>4, PrefixFacts DEF Lookup, Usable
    <3>3. \A k \in 1..PrefixLength(c) : Pair(c[k])' BY <3>1, PrefixFacts DEF Pair
    <3>4. ~Doomed' BY <3>2, <3>3 DEF Doomed, Pair
    <3> QED BY <1>1, <1>2, <3>1, <3>4 DEF C
  <2>5. ASSUME NEW blk \in Blocks, LoadBlock(blk)
        PROVE  fails' + Cardinality(rotten') + Due' <= faults' + wipes'
    <3>1. /\ w.pc = "load" /\ w.i <= w.n /\ blk = w.chain[w.i] /\ Pair(blk)
          /\ UNCHANGED <<sums, rotten, fails, faults, wipes>> /\ blobs' = Recent(blobs, Tensor(blk))
      BY <2>5 DEF LoadBlock, Loading, Verified, kvBounds
    <3>2. ToSet(blobs') = ToSet(blobs)
      <4>1. blobs \in Seq(Files) /\ Tensor(blk) \in Files /\ Tensor(blk) \in ToSet(blobs)
        BY <3>1, FileNames DEF KVInv, KVTyped, Pair
      <4>2. ToSet(Recent(blobs, Tensor(blk))) = ToSet(blobs) \cup {Tensor(blk)} BY <4>1, RecentFacts
      <4> QED BY <3>1, <4>1, <4>2
    <3>3. \A x \in Blocks : Pair(x)' <=> Pair(x) BY <3>1, <3>2 DEF Pair
    <3> DEFINE g == Append(w.got, [block |-> blk, sound |-> blk \notin rotten])
    <3>4. w'.pc = "load" /\ w'.chain = w.chain /\ w'.n = w.n /\ w'.i = w.i + 1 /\ w'.got = g
      BY <1>5, <2>5, <3>1 DEF LoadBlock, Works
    <3>5. Len(w.got) = w.i - 1 /\ (~BranchReuse => w.n = Len(w.chain))
      BY <3>1 DEF KVInv, ReadSound
    <3>6. w.got \in Seq(Reads) /\ [block |-> blk, sound |-> blk \notin rotten] \in Reads
      BY <1>5 DEF Works, Reads
    <3>7. g # <<>> /\ Len(g) = w.i
      BY <1>5, <3>5, <3>6, AppendProperties DEF Works
    <3> HIDE DEF g
    <3>8. w.i \in Nat /\ w.n \in Nat /\ w.n <= Len(w.chain)
          /\ Len(w.chain) \in Nat /\ \A k \in 1..Len(w.chain) : w.chain[k] \in Blocks
      BY ChainsAreBlocks DEF KVInv, KVTyped, Fit, Works
    <3>9. Doomed' => Doomed
      <4> SUFFICES ASSUME Doomed' PROVE Doomed OBVIOUS
      <4>1. w.i + 1 > w.n => Enough'
        BY <3>1, <3>4, <3>5, <3>7, <3>8 DEF Enough
      <4>2. PICK k \in (w.i + 1)..w.n : ~Pair(w.chain[k])'
        BY <3>4, <4>1 DEF Doomed, Pair
      <4>3. w.i >= 1 BY DEF KVInv, KVTyped, Fit
      <4>4. k \in w.i..w.n /\ k \in 1..Len(w.chain) BY <3>8, <4>3
      <4>5. w.chain[k] \in Blocks BY <3>8, <4>4
      <4>6. ~Pair(w.chain[k])
        <5> DEFINE x == w.chain[k]
        <5>1. ~(Tensor(x) \in ToSet(blobs') /\ x \in sums') BY <3>4, <4>2 DEF Pair
        <5> QED BY <3>1, <3>2, <5>1 DEF Pair
      <4> QED BY <3>1, <4>4, <4>6 DEF Doomed
    <3> QED BY <1>1, <1>2, <3>1, <3>9 DEF C
  <2>6. ASSUME NEW blk \in Blocks, WriteTemporary(blk) \/ ReplaceTensor(blk) \/ ReplaceChecksum(blk)
        PROVE  fails' + Cardinality(rotten') + Due' <= faults' + wipes'
    <3>1. w'.pc # "load"
      BY <1>5, <2>6 DEF WriteTemporary, ReplaceTensor, ReplaceChecksum, KVGoto, Works
    <3>2. /\ UNCHANGED <<fails, faults, wipes>> /\ rotten' \subseteq rotten
      BY <2>6 DEF WriteTemporary, ReplaceTensor, ReplaceChecksum, kvBounds
    <3> QED BY <1>1, <1>7, <3>1, <3>2
  <2>7. ASSUME NEW blk \in Blocks, Rot(blk)
        PROVE  fails' + Cardinality(rotten') + Due' <= faults' + wipes'
    <3>1. /\ rotten' = rotten \cup {blk} /\ blk \notin rotten /\ faults' = faults + 1
          /\ UNCHANGED <<blobs, sums, w, fails, wipes>>
      BY <2>7 DEF Rot
    <3>2. Cardinality(rotten') = C + 1
      BY <3>1, FS_AddElement DEF C, KVInv, KVTyped
    <3>3. Doomed' <=> Doomed BY <3>1 DEF Doomed, Pair, Enough
    <3>4. Due' = Due BY <3>3 DEF Due
    <3>5. fails' + Cardinality(rotten') + Due' = fails + C + Due + 1 BY <1>1, <3>1, <3>2, <3>4
    <3> QED BY <1>1, <3>1, <3>5
  <2> QED BY <1>10, <2>2, <2>3, <2>4, <2>5, <2>6, <2>7 DEF Handles
<1> QED BY <1>8, <1>9, <1>10, KVSplit
(* Room.  What a step needs of the sizes of the marks and the files.       *)
LEMMA SizesAreNat ==
  ASSUME KVTyped
  PROVE  /\ Len(marks) \in Nat /\ Len(blobs) \in Nat /\ Quota \in Nat
         /\ Bytes(marks, blobs) = Len(marks) + 2 * Len(blobs)
         /\ \A m, f : Bytes(m, f) = Len(m) + 2 * Len(f)
BY BoundsNat DEF KVTyped, Bytes, BlockBytes
Slack(pc) == IF pc \in {"replace", "sum", "prune", "down"} THEN 2 ELSE 0

(* The room, in numbers.                                                   *)
LEMMA RoomIs ==
  RoomKept <=>
    /\ Bytes(marks, blobs) <= Quota + Slack(w.pc)
    /\ ~standing => blobs = <<>> /\ marks = <<>>
    /\ w.pc = "replace" /\ standing => w.i <= w.n /\ Temp(w.chain[w.i]) \in ToSet(blobs)
BY DEF RoomKept, Slack, BlockBytes

(* A step that fills the disk is a write of one block, which is pruned.    *)
LEMMA RoomKeeps == ASSUME KVInv, KVNext, KVTyped' PROVE RoomKept'
<1>1. /\ Len(marks) \in Nat /\ Len(blobs) \in Nat /\ Quota \in Nat
      /\ \A m, f : Bytes(m, f) = Len(m) + 2 * Len(f)
  BY SizesAreNat DEF KVInv
<1>2. /\ Len(marks) + 2 * Len(blobs) <= Quota + Slack(w.pc)
      /\ ~standing => blobs = <<>> /\ marks = <<>>
      /\ w.pc = "replace" /\ standing => w.i <= w.n /\ Temp(w.chain[w.i]) \in ToSet(blobs)
  BY <1>1, RoomIs DEF KVInv
<1>3. /\ RoomKept' <=>
           /\ Bytes(marks', blobs') <= Quota + Slack(w'.pc)
           /\ ~standing' => blobs' = <<>> /\ marks' = <<>>
           /\ w'.pc = "replace" /\ standing' =>
                w'.i <= w'.n /\ Temp(w'.chain[w'.i]) \in ToSet(blobs')
  BY DEF RoomKept, Slack, BlockBytes
<1>4. \A pc : Slack(pc) \in {0, 2} /\ (pc \in {"replace", "sum", "prune", "down"} => Slack(pc) = 2)
              /\ (pc \notin {"replace", "sum", "prune", "down"} => Slack(pc) = 0)
  BY DEF Slack
<1>5. w \in Works BY DEF KVInv, KVTyped, Fit
<1>6. Len(<<>>) = 0 OBVIOUS
<1>7. ASSUME UNCHANGED <<standing, blobs, marks>>, w'.pc # "replace",
             Slack(w.pc) <= Slack(w'.pc) \/ ~standing
      PROVE  RoomKept'
  <2>1. Bytes(marks', blobs') = Len(marks) + 2 * Len(blobs) BY <1>1, <1>7
  <2>2. CASE Slack(w.pc) <= Slack(w'.pc)
    <3>1. Slack(w.pc) \in {0, 2} /\ Slack(w'.pc) \in {0, 2} BY <1>4
    <3>2. Bytes(marks', blobs') <= Quota + Slack(w'.pc) BY <1>1, <1>2, <2>1, <2>2, <3>1
    <3> QED BY <1>2, <1>3, <1>7, <3>2
  <2>3. CASE ~standing
    <3>1. Slack(w'.pc) \in {0, 2} BY <1>4
    <3>2. Bytes(marks', blobs') = 0 BY <1>2, <1>6, <2>1, <2>3
    <3>3. 0 <= Quota + Slack(w'.pc) BY <1>1, <3>1
    <3> QED BY <1>2, <1>3, <1>7, <3>2, <3>3
  <2> QED BY <1>7, <2>2, <2>3
<1>8. ASSUME Thinks PROVE RoomKept'
  <2>1. UNCHANGED <<standing, blobs, marks>>
    BY <1>8 DEF Thinks, Hit, Failed, FallBack, Served, GiveUp, LayoutMismatch,
          Kill, Store, Deduplicate, kvDisk
  <2>2. CASE Hit
    <3>1. w.pc = "load" /\ w'.pc = "serve" BY <1>5, <2>2 DEF Hit, Restored, Works
    <3>2. Slack(w.pc) = 0 /\ Slack(w'.pc) = 0 BY <1>4, <3>1
    <3> QED BY <1>7, <2>1, <3>1, <3>2
  <2>3. CASE Failed \/ FallBack \/ Served \/ LayoutMismatch
    <3>1. w.pc \in {"load", "serve", "save"} /\ w'.pc = "idle"
      BY <2>3 DEF Failed, FallBack, Served, LayoutMismatch, Restored, KVIdle
    <3>2. Slack(w.pc) = 0 /\ Slack(w'.pc) = 0 BY <1>4, <3>1
    <3> QED BY <1>7, <2>1, <3>1, <3>2
  <2>4. CASE GiveUp
    <3>1. w'.pc = "idle" /\ (w.pc = "save" \/ ~standing) BY <2>4 DEF GiveUp, KVIdle
    <3>2. Slack(w'.pc) = 0 /\ (w.pc = "save" => Slack(w.pc) = 0) BY <1>4, <3>1
    <3> QED BY <1>7, <2>1, <3>1, <3>2
  <2>5. CASE Kill
    <3>1. w'.pc = "down" BY <2>5 DEF Kill, KVIdle
    <3>2. Slack(w'.pc) = 2 /\ Slack(w.pc) \in {0, 2} BY <1>4, <3>1
    <3> QED BY <1>7, <2>1, <3>1, <3>2
  <2>6. ASSUME NEW c \in Chains, Store(c) PROVE RoomKept'
    <3>1. w.pc = "idle" /\ w'.pc = "save" BY <2>6 DEF Store
    <3>2. Slack(w.pc) = 0 /\ Slack(w'.pc) = 0 BY <1>4, <3>1
    <3> QED BY <1>7, <2>1, <3>1, <3>2
  <2>7. ASSUME NEW blk \in Blocks, Deduplicate(blk) PROVE RoomKept'
    <3>1. w.pc = "save" /\ w'.pc = "save" BY <1>5, <2>7 DEF Deduplicate, Saving, NextBlock, Works
    <3>2. Slack(w.pc) = 0 /\ Slack(w'.pc) = 0 BY <1>4, <3>1
    <3> QED BY <1>7, <2>1, <3>1, <3>2
  <2> QED BY <1>8, <2>2, <2>3, <2>4, <2>5, <2>6, <2>7 DEF Thinks
<1>9. ASSUME Bytes(marks', blobs') <= Quota, w'.pc # "replace",
             standing' \/ (blobs' = <<>> /\ marks' = <<>>)
      PROVE  RoomKept'
  <2>1. Slack(w'.pc) \in {0, 2} BY <1>4
  <2>2. Bytes(marks', blobs') \in Int
    <3>1. Len(marks') \in Nat /\ Len(blobs') \in Nat BY DEF KVTyped
    <3>2. Bytes(marks', blobs') = Len(marks') + 2 * Len(blobs') BY <1>1
    <3> QED BY <3>1, <3>2
  <2>3. Bytes(marks', blobs') <= Quota + Slack(w'.pc) BY <1>1, <1>9, <2>1, <2>2
  <2> QED BY <1>3, <1>9, <2>3
<1>10. ASSUME NEW f \in Seq(Files), Len(f) <= Len(blobs), NEW s, NEW r,
              Prune(marks, f, s, r), UNCHANGED standing, w'.pc # "replace"
       PROVE  RoomKept'
  <2>1. marks \in Seq(Chains) BY DEF KVInv, KVTyped
  <2>2. /\ Bytes(marks', blobs') <= Quota /\ Len(marks') <= Len(marks) /\ Len(blobs') <= Len(f)
        /\ marks' \in Seq(Chains) /\ blobs' \in Seq(Files)
    BY <1>10, <2>1, PruneFacts
  <2>3. ASSUME ~standing PROVE blobs' = <<>> /\ marks' = <<>>
    <3>1. Len(blobs) = 0 /\ Len(marks) = 0 BY <1>2, <1>6, <2>3
    <3>2. Len(f) \in Nat /\ Len(blobs') \in Nat /\ Len(marks') \in Nat BY <2>2
    <3>3. Len(blobs') = 0 /\ Len(marks') = 0 BY <1>10, <2>2, <3>1, <3>2
    <3> QED BY <2>2, <3>3, EmptySeq
  <2> QED BY <1>9, <1>10, <2>2, <2>3
<1>11. ASSUME Prunings PROVE RoomKept'
  <2>1. \/ Bytes(marks', blobs') <= Quota
        \/ w.pc = "save" /\ UNCHANGED <<marks, blobs>>
    BY <1>11, PruningsPrune
  <2>2. CASE Open
    <3>1. w.pc = "down" /\ w'.pc = "idle" /\ standing' BY <2>2 DEF Open, KVIdle
    <3> QED BY <1>9, <2>1, <3>1
  <2>3. CASE MarkExact
    <3>1. w.pc = "save" /\ w'.pc = "idle" /\ standing' = standing BY <2>3 DEF MarkExact, KVIdle
    <3>2. CASE standing /\ \A x \in ToSet(w.chain) : Pair(x)
      <4>1. Prune(Recent(marks, w.chain), blobs, sums, rotten) BY <2>3, <3>2 DEF MarkExact
      <4>2. w.chain \in Chains /\ marks \in Seq(Chains) /\ blobs \in Seq(Files)
        BY <3>1 DEF KVInv, KVTyped, Fit
      <4>3. Recent(marks, w.chain) \in Seq(Chains) BY <4>2, RecentFacts
      <4>4. Bytes(marks', blobs') <= Quota BY <4>1, <4>2, <4>3, PruneFacts
      <4> QED BY <1>9, <3>1, <3>2, <4>4
    <3>3. CASE ~(standing /\ \A x \in ToSet(w.chain) : Pair(x))
      <4>1. UNCHANGED <<blobs, marks>> BY <2>3, <3>3 DEF MarkExact
      <4>2. Slack(w.pc) = 0 /\ Slack(w'.pc) = 0 BY <1>4, <3>1
      <4> QED BY <1>7, <3>1, <4>1, <4>2
    <3> QED BY <3>2, <3>3
  <2>4. ASSUME NEW blk \in Blocks, Quarantine(blk) PROVE RoomKept'
    <3>1. /\ Prune(marks, SetAside(blk), sums \ {blk}, rotten \ {blk})
          /\ w'.pc = "load" /\ UNCHANGED standing
      BY <1>5, <2>4 DEF Quarantine, Loading, Works
    <3>2. SetAside(blk) \in Seq(Files) /\ Len(SetAside(blk)) = Len(blobs)
      BY SetAsideFacts DEF KVInv, KVTyped
    <3>3. Len(SetAside(blk)) <= Len(blobs) BY <1>1, <3>2
    <3> QED BY <1>10, <3>1, <3>2, <3>3
  <2>5. ASSUME NEW blk \in Blocks, PruneBlock(blk) PROVE RoomKept'
    <3>1. Prune(marks, blobs, sums, rotten) /\ w'.pc = "save" /\ UNCHANGED standing
      BY <1>5, <2>5 DEF PruneBlock, NextBlock, Works
    <3>2. blobs \in Seq(Files) /\ Len(blobs) <= Len(blobs) BY <1>1 DEF KVInv, KVTyped
    <3> QED BY <1>10, <3>1, <3>2
  <2> QED BY <1>11, <2>2, <2>3, <2>4, <2>5 DEF Prunings
<1>12. ASSUME Handles PROVE RoomKept'
  <2>1. CASE Clear \/ Wipe
    <3>1. blobs' = <<>> /\ marks' = <<>> BY <2>1 DEF Clear, Wipe, Empty
    <3>2. Bytes(marks', blobs') <= Quota BY <1>1, <1>6, <3>1
    <3>3. w'.pc # "replace" \/ ~standing' BY <2>1 DEF Clear, Wipe
    <3>4. Slack(w'.pc) \in {0, 2} BY <1>4
    <3>5. Bytes(marks', blobs') = 0 BY <1>1, <1>6, <3>1
    <3>6. 0 <= Quota + Slack(w'.pc) BY <1>1, <3>4
    <3> QED BY <1>3, <3>1, <3>3, <3>5, <3>6
  <2>2. ASSUME NEW c \in Chains, Lookup(c) PROVE RoomKept'
    <3>1. /\ w.pc = "idle" /\ w'.pc = "load" /\ UNCHANGED <<standing, blobs>>
          /\ Usable(c) /\ marks' = IF BranchReuse THEN marks ELSE Recent(marks, c)
      BY <2>2 DEF Lookup
    <3>2. Slack(w.pc) = 0 /\ Slack(w'.pc) = 0 BY <1>4, <3>1
    <3>3. CASE BranchReuse BY <1>7, <3>1, <3>2, <3>3
    <3>4. CASE ~BranchReuse
      <4>1. c \in ToSet(marks) /\ marks \in Seq(Chains) BY <3>1, <3>4 DEF Usable, KVInv, KVTyped
      <4>2. Len(marks') <= Len(marks) /\ Len(marks') \in Nat BY <3>1, <3>4, <4>1, RecentFacts
      <4>3. marks # <<>> BY <4>1 DEF ToSet
      <4>4. Bytes(marks', blobs') = Len(marks') + 2 * Len(blobs) BY <1>1, <3>1
      <4>5. Bytes(marks', blobs') <= Quota BY <1>1, <1>2, <3>2, <4>2, <4>4
      <4> QED BY <1>2, <1>9, <3>1, <4>3, <4>5
    <3> QED BY <3>3, <3>4
  <2>3. ASSUME NEW blk \in Blocks, LoadBlock(blk) PROVE RoomKept'
    <3>1. /\ w.pc = "load" /\ w'.pc = "load" /\ UNCHANGED <<standing, marks>>
          /\ blobs' = Recent(blobs, Tensor(blk)) /\ Tensor(blk) \in ToSet(blobs)
      BY <1>5, <2>3 DEF LoadBlock, Loading, Verified, Pair, Works
    <3>2. Slack(w.pc) = 0 BY <1>4, <3>1
    <3>3. blobs \in Seq(Files) /\ Tensor(blk) \in Files BY FileNames DEF KVInv, KVTyped
    <3>4. Len(blobs') <= Len(blobs) /\ Len(blobs') \in Nat BY <3>1, <3>3, RecentFacts
    <3>5. blobs # <<>> BY <3>1 DEF ToSet
    <3>6. Bytes(marks', blobs') = Len(marks) + 2 * Len(blobs') BY <1>1, <3>1
    <3>7. Bytes(marks', blobs') <= Quota BY <1>1, <1>2, <3>2, <3>4, <3>6
    <3> QED BY <1>2, <1>9, <3>1, <3>5, <3>7
  <2>4. ASSUME NEW blk \in Blocks, WriteTemporary(blk) PROVE RoomKept'
    <3> DEFINE left == Without(blobs, {Tensor(blk)})
    <3>1. /\ w.pc = "save" /\ standing /\ UNCHANGED <<standing, marks>>
          /\ blobs' = Append(left, Temp(blk)) /\ blk = w.chain[w.i] /\ w.i <= w.n
          /\ w'.pc = "replace" /\ w'.chain = w.chain /\ w'.i = w.i /\ w'.n = w.n
      BY <1>5, <2>4 DEF WriteTemporary, Saving, KVGoto, Works
    <3>2. Slack(w.pc) = 0 /\ Slack(w'.pc) = 2 BY <1>4, <3>1
    <3>3. left \in Seq(Files) /\ Len(left) <= Len(blobs) /\ Len(left) \in Nat
      BY WithoutFacts DEF KVInv, KVTyped
    <3>4. Temp(blk) \in Files BY FileNames
    <3>5. Len(blobs') = Len(left) + 1 /\ blobs' \in Seq(Files) /\ blobs'[Len(left) + 1] = Temp(blk)
      BY <3>1, <3>3, <3>4, AppendProperties
    <3>6. Temp(blk) \in ToSet(blobs')
      <4>1. Len(left) + 1 \in DOMAIN blobs' BY <3>3, <3>5
      <4> QED BY <3>5, <4>1 DEF ToSet
    <3>7. Bytes(marks', blobs') <= Quota + Slack(w'.pc)
      <4>1. Bytes(marks', blobs') = Len(marks) + 2 * Len(blobs') BY <1>1, <3>1
      <4> QED BY <1>1, <1>2, <3>2, <3>3, <3>5, <4>1
    <3> QED BY <1>3, <3>1, <3>6, <3>7
  <2>5. ASSUME NEW blk \in Blocks, ReplaceTensor(blk) PROVE RoomKept'
    <3> DEFINE left == Without(blobs, {Temp(blk)})
    <3>1. /\ w.pc = "replace" /\ standing /\ UNCHANGED <<standing, marks>>
          /\ blobs' = Append(left, Tensor(blk)) /\ blk = w.chain[w.i] /\ w'.pc = "sum"
      BY <1>5, <2>5 DEF ReplaceTensor, Saving, KVGoto, Works
    <3>2. Slack(w.pc) = 2 /\ Slack(w'.pc) = 2 BY <1>4, <3>1
    <3>3. ToSet(blobs) \cap {Temp(blk)} # {} BY <1>2, <3>1
    <3>4. left \in Seq(Files) /\ Len(left) < Len(blobs) /\ Len(left) \in Nat
      BY <3>3, WithoutFacts DEF KVInv, KVTyped
    <3>5. Len(blobs') = Len(left) + 1
      BY <3>1, <3>4, FileNames, AppendProperties
    <3>6. Bytes(marks', blobs') <= Quota + Slack(w'.pc)
      <4>1. Bytes(marks', blobs') = Len(marks) + 2 * Len(blobs') BY <1>1, <3>1
      <4> QED BY <1>1, <1>2, <3>2, <3>4, <3>5, <4>1
    <3> QED BY <1>3, <3>1, <3>6
  <2>6. ASSUME NEW blk \in Blocks, ReplaceChecksum(blk) PROVE RoomKept'
    <3>1. w.pc = "sum" /\ w'.pc = "prune" /\ UNCHANGED <<standing, blobs, marks>>
      BY <1>5, <2>6 DEF ReplaceChecksum, Saving, KVGoto, Works
    <3>2. Slack(w.pc) = 2 /\ Slack(w'.pc) = 2 BY <1>4, <3>1
    <3> QED BY <1>7, <3>1, <3>2
  <2>7. ASSUME NEW blk \in Blocks, Rot(blk) PROVE RoomKept'
    <3>1. UNCHANGED <<standing, blobs, marks, w>> BY <2>7 DEF Rot
    <3> QED BY <3>1 DEF KVInv, RoomKept
  <2> QED BY <1>12, <2>1, <2>2, <2>3, <2>4, <2>5, <2>6, <2>7 DEF Handles
<1> QED BY <1>8, <1>11, <1>12, KVSplit

(* The invariant of the SSD tier holds at the start and through its steps. *)
LEMMA KVInitHolds == KVInit => KVInv
<1> SUFFICES ASSUME KVInit PROVE KVInv OBVIOUS
<1>1. /\ <<>> \in Seq(Files) /\ <<>> \in Seq(Chains) /\ IsFiniteSet({}) /\ Cardinality({}) = 0
      /\ Len(<<>>) = 0
  BY EmptySeq, FS_EmptySet
<1>2. w.pc = "down" /\ Fit(w) BY FitSteps DEF KVInit, KVIdle
<1>3. KVTyped
  <2>1. 0 \in 0..MaxFaults /\ 0 \in 0..MaxCrashes /\ 0 \in 0..MaxWipes BY BoundsNat
  <2> QED BY <1>1, <1>2, <2>1 DEF KVInit, KVTyped
<1>4. ReadSound BY <1>2 DEF ReadSound
<1>5. FailuresOwed BY <1>1, <1>2 DEF KVInit, FailuresOwed, Owed, Doomed
<1>6. RoomKept BY <1>1, <1>2, BoundsNat DEF KVInit, RoomKept, Bytes, BlockBytes
<1> QED BY <1>3, <1>4, <1>5, <1>6 DEF KVInv

(* Every step keeps the invariant.                                         *)
LEMMA KVNextHolds == KVInv /\ [KVNext]_kvVars => KVInv'
<1>1. ASSUME KVInv, KVNext PROVE KVInv'
  <2>1. KVTyped' BY <1>1, KVSplit, ThinksTyped, PruningsTyped, HandlesTyped
  <2> QED BY <1>1, <2>1, ReadKeeps, OwedKeeps, RoomKeeps DEF KVInv
<1>2. ASSUME KVInv, UNCHANGED kvVars PROVE KVInv'
  BY <1>2 DEF KVInv, KVTyped, ReadSound, FailuresOwed, RoomKept, Owed, Doomed, Pair, Enough, Fit,
     kvVars, kvDisk, kvBounds
<1> QED BY <1>1, <1>2

(* What the invariant says of the properties.                              *)
LEMMA KVPromises == KVInv => KVTypeOK /\ ServedSound /\ FailuresPaid /\ DiskBounded
<1> SUFFICES ASSUME KVInv PROVE KVTypeOK /\ ServedSound /\ FailuresPaid /\ DiskBounded OBVIOUS
<1> USE DEF KVInv
<1>1. KVTypeOK
  <2>1. ToSet(blobs) \subseteq Files /\ ToSet(marks) \subseteq Chains BY DEF KVTyped, ToSet
  <2>2. Len(w.chain) \in Nat /\ w \in Works BY ChainsAreBlocks DEF KVTyped, Fit, Works
  <2>3. /\ w.pc \in {"down", "idle", "load", "serve", "save", "replace", "sum", "prune"}
        /\ w.chain \in Chains \cup {<<>>} /\ w.n \in 0..Len(w.chain) /\ w.i \in 1..(Len(w.chain) + 1)
    BY <2>2 DEF KVTyped, Fit, Works
  <2> QED BY <2>1, <2>3 DEF KVTyped, KVTypeOK, Files
<1>2. ServedSound BY DEF ReadSound, ServedSound, Enough
<1>3. FailuresPaid
  <2>1. /\ fails + Cardinality(rotten) + Due <= faults + wipes
        /\ Due \in {0, 1} /\ fails \in Nat /\ Cardinality(rotten) \in Nat /\ faults \in Nat /\ wipes \in Nat
    BY OwedIs
  <2> QED BY <2>1 DEF FailuresPaid
<1>4. DiskBounded
  <2>1. Bytes(marks, blobs) <= Quota + Slack(w.pc) /\ Slack(w.pc) \in {0, 2} BY RoomIs DEF Slack
  <2>2. Bytes(marks, blobs) \in Int /\ Quota \in Nat BY SizesAreNat
  <2> QED BY <2>1, <2>2 DEF DiskBounded, BlockBytes
<1> QED BY <1>1, <1>2, <1>3, <1>4
-----------------------------------------------------------------------------
(* The invariant of the snapshots, for a worker alone with its directory.  *)
Workings == [pc : {"rest", "scan", "rewrite", "serve", "write", "written", "list", "budget", "evicted"},
             r : Requests \cup {<<>>}, k : Nat, seen : Seq(Prefix)]
AtWork(v) ==
  /\ v \in Workings
  /\ v.pc # "rest" => v.r \in Requests
  /\ v.pc \in {"scan", "rewrite"} => v.k >= 1
  /\ v.pc = "rewrite" => v.k <= Len(v.r)
SnapTyped ==
  /\ index \in Seq(Prefix) /\ files \in Seq(Prefix) /\ Once(files)
  /\ health \in [Prefix -> {"whole", "torn", "bad"}]
  /\ wk \in [Worker -> Workings] /\ spoiled \in Nat /\ kills \in Nat
  /\ \A x \in Worker : AtWork(wk[x])

(* What the worker has read and what it is about to write back.            *)
Entries == ToSet(index)
Stocked == ToSet(files)
NotedBy(x) ==
  /\ wk[x].pc \in {"scan", "rewrite"} => Entries \subseteq ToSet(wk[x].seen)
  /\ wk[x].pc = "rewrite" => Candidate(x) \notin Stocked
  /\ wk[x].pc \in {"write", "written", "list"} => wk[x].seen = index
  /\ wk[x].pc \in {"written", "list"} => Own(x) \in Stocked
  /\ wk[x].pc = "evicted" =>
       ToSet(wk[x].seen) \subseteq Entries /\ Stocked \cap Entries \subseteq ToSet(wk[x].seen)
Noted == \A x \in Worker : NotedBy(x)

(* Without a kill and with at most one file gone bad: a lookup that put it *)
(* away meets no other, so what it writes back is what is there.           *)
Fresh(v) == v.pc \in {"scan", "rewrite"} /\ (v.pc = "rewrite" \/ v.seen # index)
FewBad == /\ \A c, d \in Prefix : health[c] = "bad" /\ health[d] = "bad" => c = d
          /\ spoiled = 0 => \A d \in Prefix : health[d] # "bad"
GhostlessBy(x) ==
  /\ \A d \in Prefix : health[d] = "torn" => wk[x].pc = "written" /\ d = Own(x)
  /\ wk[x].pc \notin {"rewrite", "evicted"} => Entries \subseteq Stocked
  /\ wk[x].pc = "rewrite" =>
       Entries \ {Candidate(x)} \subseteq Stocked /\ wk[x].seen = index
  /\ Fresh(wk[x]) => spoiled = 1 /\ \A d \in Stocked : health[d] = "whole"
  /\ wk[x].pc = "evicted" => ToSet(wk[x].seen) \subseteq Stocked
Ghostless == kills = 0 /\ spoiled <= 1 => FewBad /\ \A x \in Worker : GhostlessBy(x)

(* The files that no entry counts: one for each kill.                      *)
Stray(S) == Cardinality(S \ Entries) <= kills
WithinBy(x) ==
  /\ wk[x].pc \notin {"written", "list", "budget"} =>
       Cardinality(Stocked) <= MaxBytes + kills /\ Stray(Stocked)
  /\ wk[x].pc = "budget" =>
       Cardinality(Stocked) <= MaxBytes + kills + 1 /\ Stray(Stocked)
  /\ wk[x].pc \in {"written", "list"} =>
       Cardinality(Stocked) <= MaxBytes + kills + 1 /\ Stray(Stocked \ {Own(x)})
Within == \A x \in Worker : WithinBy(x)

SnapInv == SnapTyped /\ Noted /\ Ghostless /\ Within

(* A directory has finitely many files, as many as it is long.             *)
LEMMA FilesCount ==
  ASSUME NEW T, NEW s \in Seq(T)
  PROVE  /\ IsFiniteSet(ToSet(s)) /\ Cardinality(ToSet(s)) \in Nat /\ ToSet(s) \subseteq T
         /\ Once(s) => Cardinality(ToSet(s)) = Len(s)
<1>1. Len(s) \in Nat /\ DOMAIN s = 1..Len(s) /\ s \in [1..Len(s) -> ToSet(s)]
  <2>1. Len(s) \in Nat /\ DOMAIN s = 1..Len(s) /\ s \in [1..Len(s) -> T] OBVIOUS
  <2> QED BY <2>1 DEF ToSet
<1>2. s \in Surjection(1..Len(s), ToSet(s)) BY <1>1 DEF Surjection, ToSet
<1>3. 1 \in Int /\ Len(s) \in Int BY <1>1
<1>4. IsFiniteSet(1..Len(s)) /\ Cardinality(1..Len(s)) = Len(s) BY <1>1, <1>3, FS_Interval
<1>5. IsFiniteSet(ToSet(s)) BY <1>2, <1>4, FS_Surjection
<1>6. ASSUME Once(s) PROVE Cardinality(ToSet(s)) = Len(s)
  <2>1. s \in Injection(1..Len(s), ToSet(s)) BY <1>1, <1>6 DEF Once, Injection, IsInjective
  <2> QED BY <1>2, <1>4, <2>1, FS_Surjection
<1>7. ToSet(s) \subseteq T BY <1>1 DEF ToSet
<1> QED BY <1>5, <1>6, <1>7, FS_CardinalityType

(* What a worker's record and its request are made of.                     *)
LEMMA OneSteps ==
  ASSUME SnapTyped, NEW x \in Worker
  PROVE  /\ \A e : wk' = [wk EXCEPT ![x] = e] => wk'[x] = e
         /\ wk[x] \in Workings /\ AtWork(wk[x])
         /\ \A r \in Requests : r \in Seq(Prefix) /\ Len(r) \in Nat /\ Len(r) >= 1 /\ r[1] \in Prefix
                                /\ \A k \in 1..Len(r) : r[k] \in Prefix
<1>1. x \in DOMAIN wk /\ AtWork(wk[x]) /\ wk[x] \in Workings BY DEF SnapTyped, AtWork
<1>2. ASSUME NEW r \in Requests
      PROVE  r \in Seq(Prefix) /\ Len(r) \in Nat /\ Len(r) >= 1 /\ r[1] \in Prefix
             /\ \A k \in 1..Len(r) : r[k] \in Prefix
  <2>1. r \in Seq(Prefix) /\ r # <<>> BY RequestsSeq
  <2>2. Len(r) \in Nat \ {0} BY <2>1, EmptySeq
  <2>3. \A k \in 1..Len(r) : r[k] \in Prefix BY <2>1
  <2> QED BY <2>1, <2>2, <2>3
<1>3. \A e : wk' = [wk EXCEPT ![x] = e] => wk'[x] = e BY <1>1
<1> QED BY <1>1, <1>2, <1>3

(* The shapes, when what a step writes has the right one.                  *)
Directory == /\ index \in Seq(Prefix) /\ files \in Seq(Prefix) /\ Once(files)
             /\ health \in [Prefix -> {"whole", "torn", "bad"}] /\ spoiled \in Nat /\ kills \in Nat

(* The shapes stay when the record that is written has one.                *)
LEMMA SnapShapes ==
  ASSUME SnapTyped, NEW x \in Worker, NEW e, AtWork(e), wk' = [wk EXCEPT ![x] = e], Directory'
  PROVE  SnapTyped'
<1>1. e \in Workings BY DEF AtWork
<1>2. wk' \in [Worker -> Workings] BY <1>1 DEF SnapTyped
<1>3. \A y \in Worker : wk'[y] = IF y = x THEN e ELSE wk[y] BY DEF SnapTyped
<1>4. \A y \in Worker : AtWork(wk'[y]) BY <1>3 DEF SnapTyped
<1> QED BY <1>2, <1>4 DEF SnapTyped, Directory

(* A record that goes on to another step keeps its shape.                  *)
LEMMA WorkGoesOn ==
  ASSUME NEW v \in Workings, AtWork(v)
  PROVE  /\ AtRest \in Workings /\ AtWork(AtRest)
         /\ \A r \in Requests, s \in Seq(Prefix) : AtWork([pc |-> "scan", r |-> r, k |-> 1, seen |-> s])
         /\ v.pc = "scan" => AtWork([v EXCEPT !.k = v.k + 1])
         /\ v.pc = "rewrite" => AtWork([v EXCEPT !.pc = "scan", !.k = v.k + 1])
         /\ v.pc # "rest" => \A s \in {"serve", "write", "written", "list", "budget"} :
                               AtWork([v EXCEPT !.pc = s])
         /\ v.pc # "rest" /\ v.k >= 1 /\ v.k <= Len(v.r) => AtWork([v EXCEPT !.pc = "rewrite"])
         /\ v.pc # "rest" => \A s \in {"write", "evicted"}, n \in Seq(Prefix) :
                               AtWork([v EXCEPT !.pc = s, !.seen = n])
<1>1. AtRest \in Workings /\ AtWork(AtRest)
  <2>1. <<>> \in Seq(Prefix) BY EmptySeq
  <2> QED BY <2>1 DEF AtRest, Workings, AtWork
<1>2. \A r \in Requests, s \in Seq(Prefix) : AtWork([pc |-> "scan", r |-> r, k |-> 1, seen |-> s])
  BY DEF Workings, AtWork
<1>3. ASSUME v.pc = "scan" PROVE AtWork([v EXCEPT !.k = v.k + 1])
  <2> DEFINE u == [v EXCEPT !.k = v.k + 1]
  <2>1. u.pc = v.pc /\ u.r = v.r /\ u.k = v.k + 1 /\ v.k \in Nat BY DEF Workings
  <2>2. u \in Workings BY DEF Workings
  <2> HIDE DEF u
  <2>3. AtWork(u) BY <1>3, <2>1, <2>2 DEF AtWork
  <2> QED BY <2>3 DEF u
<1>4. ASSUME v.pc = "rewrite" PROVE AtWork([v EXCEPT !.pc = "scan", !.k = v.k + 1])
  <2> DEFINE u == [v EXCEPT !.pc = "scan", !.k = v.k + 1]
  <2>1. u.pc = "scan" /\ u.r = v.r /\ u.k = v.k + 1 /\ v.k \in Nat BY DEF Workings
  <2>2. u \in Workings
    <3> DEFINE m == [v EXCEPT !.pc = "scan"]
    <3>1. m \in Workings BY DEF Workings
    <3>2. u = [m EXCEPT !.k = v.k + 1] OBVIOUS
    <3> HIDE DEF m, u
    <3> QED BY <2>1, <3>1, <3>2 DEF Workings
  <2> HIDE DEF u
  <2>3. AtWork(u) BY <1>4, <2>1, <2>2 DEF AtWork
  <2> QED BY <2>3 DEF u
<1>5. ASSUME v.pc # "rest", NEW s \in {"serve", "write", "written", "list", "budget"}
      PROVE  AtWork([v EXCEPT !.pc = s])
  <2> DEFINE u == [v EXCEPT !.pc = s]
  <2>1. u.pc = s /\ u.r = v.r /\ u.k = v.k BY DEF Workings
  <2>2. u \in Workings BY DEF Workings
  <2> HIDE DEF u
  <2>3. AtWork(u) BY <1>5, <2>1, <2>2 DEF AtWork
  <2> QED BY <2>3 DEF u
<1>6. ASSUME v.pc # "rest", v.k >= 1, v.k <= Len(v.r) PROVE AtWork([v EXCEPT !.pc = "rewrite"])
  <2> DEFINE u == [v EXCEPT !.pc = "rewrite"]
  <2>1. u.pc = "rewrite" /\ u.r = v.r /\ u.k = v.k BY DEF Workings
  <2>2. u \in Workings BY DEF Workings
  <2> HIDE DEF u
  <2>3. AtWork(u) BY <1>6, <2>1, <2>2 DEF AtWork
  <2> QED BY <2>3 DEF u
<1>7. ASSUME v.pc # "rest", NEW s \in {"write", "evicted"}, NEW n \in Seq(Prefix)
      PROVE  AtWork([v EXCEPT !.pc = s, !.seen = n])
  <2> DEFINE u == [v EXCEPT !.pc = s, !.seen = n]
  <2>1. u.pc = s /\ u.r = v.r /\ u.k = v.k BY DEF Workings
  <2>2. u \in Workings BY DEF Workings
  <2> HIDE DEF u
  <2>3. AtWork(u) BY <1>7, <2>1, <2>2 DEF AtWork
  <2> QED BY <2>3 DEF u
<1> QED BY <1>1, <1>2, <1>3, <1>4, <1>5, <1>6, <1>7

(* What each step of a worker leaves of the index and of the files.        *)
LEMMA SnapSets ==
  ASSUME SnapTyped, NEW x \in Worker
  PROVE  /\ Reuse(x) => Stocked' = Stocked
         /\ Discard(x) => Stocked' = Stocked \ {Candidate(x)}
         /\ Rewrite(x) => Entries' = ToSet(wk[x].seen) \ {Candidate(x)}
         /\ Write(x) => Stocked' = Stocked \cup {Own(x)}
         /\ List(x) => Entries' = ToSet(wk[x].seen) \cup {Own(x)}
         /\ Budget(x) => Stocked' = Stocked \ Victims
         /\ ToSet(Without(index, Victims)) = Entries \ Victims
         /\ ClearSnapshots(x) => Entries' = {} /\ Stocked' = {}
         /\ (Reuse(x) \/ Discard(x) \/ Rewrite(x) \/ Write(x) \/ List(x) \/ Budget(x) \/ ClearSnapshots(x)
             \/ Evicted(x)) =>
              Directory'
<1> DEFINE v == wk[x]
<1>1. /\ v \in Workings /\ AtWork(v) /\ index \in Seq(Prefix) /\ files \in Seq(Prefix) /\ Once(files)
      /\ v.seen \in Seq(Prefix) /\ health \in [Prefix -> {"whole", "torn", "bad"}]
      /\ spoiled \in Nat /\ kills \in Nat
  BY OneSteps DEF SnapTyped, Workings
<1>2. v.pc # "rest" => Own(x) \in Prefix BY <1>1, OneSteps DEF AtWork, Own
<1>3. v.pc \in {"scan", "rewrite"} /\ v.k <= Len(v.r) => Candidate(x) \in Prefix
  <2> SUFFICES ASSUME v.pc \in {"scan", "rewrite"}, v.k <= Len(v.r) PROVE Candidate(x) \in Prefix OBVIOUS
  <2>1. v.r \in Requests /\ v.k >= 1 /\ v.k \in Nat BY <1>1 DEF AtWork, Workings
  <2>2. v.k \in 1..Len(v.r) BY <2>1, OneSteps
  <2> QED BY <2>1, <2>2, OneSteps DEF Candidate
<1>4. Reuse(x) => Stocked' = Stocked /\ Directory'
  <2> SUFFICES ASSUME Reuse(x) PROVE Stocked' = Stocked /\ Directory' OBVIOUS
  <2>1. /\ v.pc = "scan" /\ v.k <= Len(v.r) /\ Candidate(x) \in Stocked
        /\ files' = Recent(files, Candidate(x)) /\ UNCHANGED <<index, health, spoiled, kills>>
    BY DEF Reuse, Listed, There, Stocked
  <2>2. files' \in Seq(Prefix) /\ ToSet(files') = ToSet(files) \cup {Candidate(x)} /\ Once(files')
    <3>1. Candidate(x) \in Prefix BY <1>3, <2>1
    <3> DEFINE c == Candidate(x)
    <3>2. c \in Prefix /\ files \in Seq(Prefix) /\ Once(files) BY <1>1, <3>1
    <3> HIDE DEF c
    <3>3. /\ Recent(files, c) \in Seq(Prefix) /\ ToSet(Recent(files, c)) = ToSet(files) \cup {c}
          /\ Once(Recent(files, c))
      BY <3>2, RecentFacts
    <3> QED BY <2>1, <3>3 DEF c
  <2> QED BY <1>1, <2>1, <2>2 DEF Stocked, Directory
<1>5. Discard(x) => Stocked' = Stocked \ {Candidate(x)} /\ Directory'
  <2> SUFFICES ASSUME Discard(x) PROVE Stocked' = Stocked \ {Candidate(x)} /\ Directory' OBVIOUS
  <2>1. files' = Without(files, {Candidate(x)}) /\ UNCHANGED <<index, health, spoiled, kills>>
    BY DEF Discard, Minus
  <2>2. files' \in Seq(Prefix) /\ ToSet(files') = ToSet(files) \ {Candidate(x)} /\ Once(files')
    BY <1>1, <2>1, WithoutFacts
  <2> QED BY <1>1, <2>1, <2>2 DEF Stocked, Directory
<1>6. Rewrite(x) => Entries' = ToSet(v.seen) \ {Candidate(x)} /\ Directory'
  <2> SUFFICES ASSUME Rewrite(x) PROVE Entries' = ToSet(v.seen) \ {Candidate(x)} /\ Directory' OBVIOUS
  <2>1. index' = Without(v.seen, {Candidate(x)}) /\ UNCHANGED <<files, health, spoiled, kills>>
    BY DEF Rewrite, Minus
  <2>2. index' \in Seq(Prefix) /\ ToSet(index') = ToSet(v.seen) \ {Candidate(x)}
    BY <1>1, <2>1, WithoutFacts
  <2> QED BY <1>1, <2>1, <2>2 DEF Entries, Directory
<1>7. Write(x) => Stocked' = Stocked \cup {Own(x)} /\ Directory'
  <2> SUFFICES ASSUME Write(x) PROVE Stocked' = Stocked \cup {Own(x)} /\ Directory' OBVIOUS
  <2>1. /\ v.pc # "rest" /\ files' = Recent(files, Own(x)) /\ health' = [health EXCEPT ![Own(x)] = "torn"]
        /\ UNCHANGED <<index, spoiled, kills>>
    BY DEF Write
  <2>2. files' \in Seq(Prefix) /\ ToSet(files') = ToSet(files) \cup {Own(x)} /\ Once(files')
    BY <1>1, <1>2, <2>1, RecentFacts
  <2>3. health' \in [Prefix -> {"whole", "torn", "bad"}] BY <1>1, <2>1
  <2> QED BY <1>1, <2>1, <2>2, <2>3 DEF Stocked, Directory
<1>8. List(x) => Entries' = ToSet(v.seen) \cup {Own(x)} /\ Directory'
  <2> SUFFICES ASSUME List(x) PROVE Entries' = ToSet(v.seen) \cup {Own(x)} /\ Directory' OBVIOUS
  <2>1. v.pc # "rest" /\ index' = Append(v.seen, Own(x)) /\ UNCHANGED <<files, health, spoiled, kills>>
    BY DEF List
  <2>2. Own(x) \in Prefix BY <1>2, <2>1
  <2>3. index' \in Seq(Prefix) BY <1>1, <2>1, <2>2
  <2>4. ToSet(index') = ToSet(v.seen) \cup {Own(x)}
    <3> HIDE DEF v
    <3> DEFINE s == v.seen
    <3>1. /\ Len(s) \in Nat /\ Len(index') = Len(s) + 1 /\ DOMAIN s = 1..Len(s)
          /\ DOMAIN index' = 1..(Len(s) + 1)
          /\ \A j \in 1..Len(s) : index'[j] = s[j]
          /\ index'[Len(s) + 1] = Own(x)
      BY <1>1, <2>1, <2>2
    <3> QED BY <3>1 DEF ToSet
  <2> QED BY <1>1, <2>1, <2>3, <2>4 DEF Entries, Directory
<1>9. Budget(x) => Stocked' = Stocked \ Victims /\ Directory'
  <2> SUFFICES ASSUME Budget(x) PROVE Stocked' = Stocked \ Victims /\ Directory' OBVIOUS
  <2>1. files' = Without(files, Victims) /\ UNCHANGED <<index, health, spoiled, kills>> BY DEF Budget
  <2>2. files' \in Seq(Prefix) /\ ToSet(files') = ToSet(files) \ Victims /\ Once(files')
    BY <1>1, <2>1, WithoutFacts
  <2> QED BY <1>1, <2>1, <2>2 DEF Stocked, Directory
<1>10. ToSet(Without(index, Victims)) = Entries \ Victims BY <1>1, WithoutFacts DEF Entries
<1>11. ClearSnapshots(x) => Entries' = {} /\ Stocked' = {} /\ Directory'
  <2>1. <<>> \in Seq(Prefix) /\ ToSet(<<>>) = {} /\ Once(<<>>) BY EmptySeq DEF ToSet, Once
  <2> QED BY <1>1, <2>1 DEF ClearSnapshots, Entries, Stocked, Directory
<1>12. Evicted(x) => Directory' BY <1>1 DEF Evicted, Directory
<1> HIDE DEF v
<1> QED BY <1>4, <1>5, <1>6, <1>7, <1>8, <1>9, <1>10, <1>11, <1>12 DEF v

(* Typing, for any number of workers.                                      *)
LEMMA SnapTypedKeeps == ASSUME SnapTyped, SnapNext PROVE SnapTyped'
<1>1. SUFFICES ASSUME NEW x \in Worker,
                      \/ \E r \in Requests : Fetch(x, r)
                      \/ Skip(x) \/ Reuse(x) \/ Discard(x) \/ Rewrite(x) \/ Missed(x) \/ NotStored(x)
                      \/ StoreBegin(x) \/ Write(x) \/ Written(x) \/ List(x) \/ Budget(x) \/ Evicted(x)
                      \/ ClearSnapshots(x) \/ KillWorker(x)
               PROVE  SnapTyped'
  <2>1. ASSUME NEW d \in Prefix, SpoilFile(d) PROVE SnapTyped' BY <2>1 DEF SpoilFile, SnapTyped
  <2> QED BY <2>1 DEF SnapNext
<1> DEFINE v == wk[x]
<1>2. /\ v \in Workings /\ AtWork(v) /\ Directory /\ v.seen \in Seq(Prefix)
      /\ v.pc \in {"scan", "rewrite"} => v.k >= 1
      /\ v.pc = "rewrite" => v.k <= Len(v.r)
  BY OneSteps DEF SnapTyped, Workings, AtWork, Directory
<1>3. ASSUME NEW e, AtWork(e), wk' = [wk EXCEPT ![x] = e], Directory' PROVE SnapTyped'
  BY <1>3, SnapShapes
<1> USE <1>2, <1>3
<1>4. UNCHANGED <<index, files, health, spoiled, kills>> => Directory' BY DEF Directory
<1>5. ASSUME NEW r \in Requests, Fetch(x, r) PROVE SnapTyped'
  BY <1>4, <1>5, WorkGoesOn DEF Fetch, Directory
<1>6. CASE Skip(x) BY <1>4, <1>6, WorkGoesOn DEF Skip, TryNext
<1>7. CASE Reuse(x) BY <1>7, SnapSets, WorkGoesOn DEF Reuse, Listed, Step
<1>8. CASE Discard(x) BY <1>8, SnapSets, WorkGoesOn DEF Discard, Listed, Step
<1>9. CASE Rewrite(x) BY <1>9, SnapSets, WorkGoesOn DEF Rewrite
<1>10. CASE Missed(x) BY <1>4, <1>10, WorkGoesOn DEF Missed, Step
<1>11. CASE NotStored(x) BY <1>4, <1>11, WorkGoesOn DEF NotStored
<1>12. CASE StoreBegin(x)
  <2>1. CASE Own(x) \in ToSet(index) BY <1>4, <1>12, <2>1, WorkGoesOn DEF StoreBegin
  <2>2. CASE Own(x) \notin ToSet(index) BY <1>4, <1>12, <2>2, WorkGoesOn DEF StoreBegin, Directory
  <2> QED BY <2>1, <2>2
<1>13. CASE Write(x) BY <1>13, SnapSets, WorkGoesOn DEF Write, Step
<1>14. CASE Written(x)
  <2>1. Directory' BY <1>14 DEF Written, Directory
  <2>2. CASE There(Own(x)) BY <1>14, <2>1, <2>2, WorkGoesOn DEF Written, Step
  <2>3. CASE ~There(Own(x)) BY <1>14, <2>1, <2>3, WorkGoesOn DEF Written
  <2> QED BY <2>2, <2>3
<1>15. CASE List(x) BY <1>15, SnapSets, WorkGoesOn DEF List, Step
<1>16. CASE Budget(x)
  <2>1. CASE Excess = 0 BY <1>16, <2>1, SnapSets, WorkGoesOn DEF Budget
  <2>2. CASE Excess # 0
    <3>1. Without(index, Victims) \in Seq(Prefix) BY WithoutFacts DEF Directory
    <3> QED BY <1>16, <2>2, <3>1, SnapSets, WorkGoesOn DEF Budget
  <2> QED BY <2>1, <2>2
<1>17. CASE Evicted(x) BY <1>17, SnapSets, WorkGoesOn DEF Evicted
<1>18. CASE ClearSnapshots(x)
  <2>1. Directory' BY <1>18, SnapSets
  <2> QED BY <1>18, <2>1 DEF ClearSnapshots, SnapTyped, Directory
<1>19. CASE KillWorker(x)
  <2>1. Directory' BY <1>19 DEF KillWorker, Directory
  <2> QED BY <1>19, <2>1, WorkGoesOn DEF KillWorker
<1> QED BY <1>1, <1>5, <1>6, <1>7, <1>8, <1>9, <1>10, <1>11, <1>12, <1>13, <1>14, <1>15, <1>16, <1>17,
           <1>18, <1>19

(* The steps of a worker by the places they go to.                         *)
Goes(x, from, to) == wk[x].pc = from /\ wk'[x].pc = to /\ wk'[x].r = wk[x].r
Stays == UNCHANGED <<index, files, health, spoiled, kills>>

(* Where each step goes from and to, and what it leaves alone.             *)
LEMMA SnapViews ==
  ASSUME SnapTyped, NEW x \in Worker
  PROVE  /\ \A r \in Requests : Fetch(x, r) => wk'[x].pc = "scan" /\ wk'[x].seen = index /\ Stays
         /\ Skip(x) => Goes(x, "scan", "scan") /\ wk'[x].seen = wk[x].seen /\ Stays
         /\ Reuse(x) => Goes(x, "scan", "serve") /\ UNCHANGED <<index, health, spoiled, kills>>
         /\ Discard(x) => /\ Goes(x, "scan", "rewrite") /\ wk'[x].seen = wk[x].seen /\ wk'[x].k = wk[x].k
                          /\ wk[x].k <= Len(wk[x].r) /\ UNCHANGED <<index, health, spoiled, kills>>
                          /\ Candidate(x) \in Stocked /\ health[Candidate(x)] # "whole"
         /\ Rewrite(x) => Goes(x, "rewrite", "scan") /\ wk'[x].seen = wk[x].seen
                          /\ UNCHANGED <<files, health, spoiled, kills>>
         /\ Missed(x) => Goes(x, "scan", "serve") /\ Stays
         /\ NotStored(x) => wk[x].pc = "serve" /\ wk'[x].pc = "rest" /\ Stays
         /\ StoreBegin(x) => /\ wk[x].pc = "serve" /\ Stays
                             /\ \/ wk'[x].pc = "rest"
                                \/ Goes(x, "serve", "write") /\ wk'[x].seen = index
         /\ Write(x) => Goes(x, "write", "written") /\ wk'[x].seen = wk[x].seen
                        /\ health' = [health EXCEPT ![Own(x)] = "torn"] /\ UNCHANGED <<index, spoiled, kills>>
         /\ Written(x) => /\ wk[x].pc = "written" /\ UNCHANGED <<index, files, spoiled, kills>>
                          /\ Own(x) \in Stocked => /\ Goes(x, "written", "list") /\ wk'[x].seen = wk[x].seen
                                                   /\ health' = [health EXCEPT ![Own(x)] = "whole"]
         /\ List(x) => Goes(x, "list", "budget") /\ UNCHANGED <<files, health, spoiled, kills>>
         /\ Budget(x) => /\ wk[x].pc = "budget" /\ UNCHANGED <<index, health, spoiled, kills>>
                         /\ Excess = 0 => wk'[x].pc = "rest"
                         /\ Excess # 0 => wk'[x].pc = "evicted" /\ wk'[x].seen = Without(index, Victims)
         /\ Evicted(x) => /\ wk[x].pc = "evicted" /\ wk'[x].pc = "rest" /\ index' = wk[x].seen
                          /\ UNCHANGED <<files, health, spoiled, kills>>
         /\ ClearSnapshots(x) => wk[x].pc = "rest" /\ UNCHANGED <<wk, health, spoiled, kills>>
         /\ KillWorker(x) => wk[x].pc # "rest" /\ wk'[x].pc = "rest" /\ kills' = kills + 1
                             /\ UNCHANGED <<index, files, health, spoiled>>
<1> DEFINE v == wk[x]
<1>1. v \in Workings /\ \A e : wk' = [wk EXCEPT ![x] = e] => wk'[x] = e BY OneSteps
<1>2. \A e : e = AtRest => e.pc = "rest" BY DEF AtRest
<1>3. ASSUME NEW s, Step(x, s)
      PROVE  wk'[x].pc = s /\ wk'[x].r = v.r /\ wk'[x].k = v.k /\ wk'[x].seen = v.seen
  <2>1. wk'[x] = [v EXCEPT !.pc = s] BY <1>1, <1>3 DEF Step
  <2> QED BY <1>1, <2>1 DEF Workings
<1>4. ASSUME NEW s, NEW n, wk' = [wk EXCEPT ![x] = [wk[x] EXCEPT !.pc = s, !.seen = n]]
      PROVE  wk'[x].pc = s /\ wk'[x].r = v.r /\ wk'[x].seen = n
  <2>1. wk'[x] = [v EXCEPT !.pc = s, !.seen = n] BY <1>1, <1>4
  <2> QED BY <1>1, <2>1 DEF Workings
<1>5. \A r \in Requests : Fetch(x, r) => wk'[x].pc = "scan" /\ wk'[x].seen = index /\ Stays
  <2> SUFFICES ASSUME NEW r \in Requests, Fetch(x, r)
               PROVE  wk'[x].pc = "scan" /\ wk'[x].seen = index /\ Stays
    OBVIOUS
  <2>1. wk'[x] = [pc |-> "scan", r |-> r, k |-> 1, seen |-> index] BY <1>1 DEF Fetch
  <2> QED BY <2>1 DEF Fetch, Stays
<1>6. Skip(x) => Goes(x, "scan", "scan") /\ wk'[x].seen = v.seen /\ Stays
  <2>1. [v EXCEPT !.k = v.k + 1].pc = v.pc /\ [v EXCEPT !.k = v.k + 1].r = v.r
        /\ [v EXCEPT !.k = v.k + 1].seen = v.seen
    BY <1>1 DEF Workings
  <2> QED BY <1>1, <2>1 DEF Skip, TryNext, Stays, Goes
<1>7. Reuse(x) => Goes(x, "scan", "serve") /\ UNCHANGED <<index, health, spoiled, kills>>
  BY <1>1, <1>3 DEF Reuse, Listed, Goes
<1>8. Discard(x) => /\ Goes(x, "scan", "rewrite") /\ wk'[x].seen = v.seen /\ wk'[x].k = v.k
                    /\ v.k <= Len(v.r) /\ UNCHANGED <<index, health, spoiled, kills>>
                    /\ Candidate(x) \in Stocked /\ health[Candidate(x)] # "whole"
  BY <1>1, <1>3 DEF Discard, Listed, Goes, There, Stocked
<1>9. Rewrite(x) => Goes(x, "rewrite", "scan") /\ wk'[x].seen = v.seen
                    /\ UNCHANGED <<files, health, spoiled, kills>>
  <2> DEFINE u == [v EXCEPT !.pc = "scan", !.k = v.k + 1]
  <2>1. u.pc = "scan" /\ u.r = v.r /\ u.seen = v.seen BY <1>1 DEF Workings
  <2> QED BY <1>1, <2>1 DEF Rewrite, Goes
<1>10. Missed(x) => Goes(x, "scan", "serve") /\ Stays
  BY <1>1, <1>3 DEF Missed, Goes, Stays
<1>11. NotStored(x) => v.pc = "serve" /\ wk'[x].pc = "rest" /\ Stays
  BY <1>1, <1>2 DEF NotStored, Stays
<1>12. StoreBegin(x) => /\ v.pc = "serve" /\ Stays
                        /\ wk'[x].pc = "rest" \/ (Goes(x, "serve", "write") /\ wk'[x].seen = index)
  <2>1. CASE Own(x) \in ToSet(index) BY <1>1, <1>2, <2>1 DEF StoreBegin, Stays
  <2>2. ASSUME StoreBegin(x), Own(x) \notin ToSet(index)
        PROVE  v.pc = "serve" /\ Stays /\ Goes(x, "serve", "write") /\ wk'[x].seen = index
    <3>1. /\ v.pc = "serve" /\ Stays
          /\ wk' = [wk EXCEPT ![x] = [wk[x] EXCEPT !.pc = "write", !.seen = index]]
      BY <2>2 DEF StoreBegin, Stays
    <3> QED BY <1>4, <3>1 DEF Goes
  <2> QED BY <2>1, <2>2
<1>13. Write(x) => Goes(x, "write", "written") /\ wk'[x].seen = v.seen
                   /\ health' = [health EXCEPT ![Own(x)] = "torn"] /\ UNCHANGED <<index, spoiled, kills>>
  BY <1>1, <1>3 DEF Write, Goes
<1>14. Written(x) => /\ v.pc = "written" /\ UNCHANGED <<index, files, spoiled, kills>>
                     /\ Own(x) \in Stocked => /\ Goes(x, "written", "list") /\ wk'[x].seen = v.seen
                                              /\ health' = [health EXCEPT ![Own(x)] = "whole"]
  BY <1>1, <1>3 DEF Written, Goes, There, Stocked
<1>15. List(x) => Goes(x, "list", "budget") /\ UNCHANGED <<files, health, spoiled, kills>>
  BY <1>1, <1>3 DEF List, Goes
<1>16. Budget(x) => /\ v.pc = "budget" /\ UNCHANGED <<index, health, spoiled, kills>>
                    /\ Excess = 0 => wk'[x].pc = "rest"
                    /\ Excess # 0 => wk'[x].pc = "evicted" /\ wk'[x].seen = Without(index, Victims)
  <2>1. ASSUME Budget(x), Excess = 0 PROVE wk'[x].pc = "rest" BY <1>1, <1>2, <2>1 DEF Budget
  <2>2. ASSUME Budget(x), Excess # 0
        PROVE  wk'[x].pc = "evicted" /\ wk'[x].seen = Without(index, Victims)
    <3>1. wk' = [wk EXCEPT ![x] = [wk[x] EXCEPT !.pc = "evicted", !.seen = Without(index, Victims)]]
      BY <2>2 DEF Budget
    <3> QED BY <1>4, <3>1
  <2>3. Budget(x) => v.pc = "budget" /\ UNCHANGED <<index, health, spoiled, kills>> BY DEF Budget
  <2> QED BY <2>1, <2>2, <2>3
<1>17. Evicted(x) => /\ v.pc = "evicted" /\ wk'[x].pc = "rest" /\ index' = v.seen
                     /\ UNCHANGED <<files, health, spoiled, kills>>
  BY <1>1, <1>2 DEF Evicted
<1>18. ClearSnapshots(x) => v.pc = "rest" /\ UNCHANGED <<wk, health, spoiled, kills>>
  BY DEF ClearSnapshots
<1>19. KillWorker(x) => v.pc # "rest" /\ wk'[x].pc = "rest" /\ kills' = kills + 1
                        /\ UNCHANGED <<index, files, health, spoiled>>
  BY <1>1, <1>2 DEF KillWorker
<1> HIDE DEF v
<1> QED BY <1>5, <1>6, <1>7, <1>8, <1>9, <1>10, <1>11, <1>12, <1>13, <1>14, <1>15, <1>16, <1>17, <1>18,
           <1>19 DEF v

(* What a worker alone with its directory has read stays true of it.       *)
LEMMA NotedKeeps ==
  ASSUME NEW me, Worker = {me}, SnapInv, SnapNext PROVE Noted'
<1>1. SnapTyped /\ me \in Worker /\ NotedBy(me) BY DEF SnapInv, Noted
<1> SUFFICES NotedBy(me)' BY DEF Noted
<1> USE <1>1
<1>2. ASSUME NEW d \in Prefix, SpoilFile(d) PROVE NotedBy(me)'
  BY <1>2 DEF SpoilFile, NotedBy, Entries, Stocked, Candidate, Own
<1>3. ASSUME NEW r \in Requests, Fetch(me, r) PROVE NotedBy(me)'
  BY <1>3, SnapViews DEF NotedBy, Entries, Stays
<1>4. CASE Skip(me) BY <1>4, SnapViews DEF NotedBy, Entries, Stays, Goes
<1>5. CASE Reuse(me) BY <1>5, SnapViews DEF NotedBy, Goes
<1>6. CASE Discard(me) BY <1>6, SnapViews, SnapSets DEF NotedBy, Goes, Entries, Candidate
<1>7. CASE Rewrite(me) BY <1>7, SnapViews, SnapSets DEF NotedBy, Goes
<1>8. CASE Missed(me) \/ NotStored(me) BY <1>8, SnapViews DEF NotedBy, Goes
<1>9. CASE StoreBegin(me) BY <1>9, SnapViews DEF NotedBy, Goes, Stays
<1>10. CASE Write(me) BY <1>10, SnapViews, SnapSets DEF NotedBy, Goes, Own
<1>11. CASE Written(me) BY <1>11, SnapViews DEF NotedBy, Goes, Own, Stocked
<1>12. CASE List(me) BY <1>12, SnapViews DEF NotedBy, Goes
<1>13. CASE Budget(me)
  <2>1. Stocked' = Stocked \ Victims /\ Entries' = Entries
        /\ ToSet(Without(index, Victims)) = Entries \ Victims
    BY <1>13, SnapViews, SnapSets DEF Entries
  <2>2. wk'[me].pc = "rest" \/ (wk'[me].pc = "evicted" /\ ToSet(wk'[me].seen) = Entries \ Victims)
    BY <1>13, <2>1, SnapViews
  <2> QED BY <2>1, <2>2 DEF NotedBy
<1>14. CASE Evicted(me) \/ KillWorker(me) BY <1>14, SnapViews DEF NotedBy
<1>15. CASE ClearSnapshots(me) BY <1>15, SnapViews DEF NotedBy
<1> QED BY <1>2, <1>3, <1>4, <1>5, <1>6, <1>7, <1>8, <1>9, <1>10, <1>11, <1>12, <1>13, <1>14, <1>15
        DEF SnapNext

(* No ghost: what a worker reads, puts away and writes back.               *)
LEMMA GhostlessKeeps ==
  ASSUME NEW me, Worker = {me}, SnapInv, SnapNext PROVE Ghostless'
<1> SUFFICES ASSUME kills' = 0, spoiled' <= 1 PROVE FewBad' /\ GhostlessBy(me)' BY DEF Ghostless
<1>1. SnapTyped /\ me \in Worker /\ NotedBy(me) /\ health \in [Prefix -> {"whole", "torn", "bad"}]
      /\ kills \in Nat /\ spoiled \in Nat
  BY DEF SnapInv, Noted, SnapTyped
<1>2. ASSUME UNCHANGED <<kills, spoiled>> PROVE FewBad /\ GhostlessBy(me)
  BY <1>2 DEF SnapInv, Ghostless
<1>3. (UNCHANGED <<spoiled, health>>) /\ FewBad => FewBad' BY DEF FewBad
<1> USE <1>1
<1>4. ASSUME NEW d \in Prefix, SpoilFile(d) PROVE FewBad' /\ GhostlessBy(me)'
  <2>1. /\ spoiled = 0 /\ spoiled' = 1 /\ health' = [health EXCEPT ![d] = "bad"]
        /\ UNCHANGED <<index, files, wk, kills>> /\ kills = 0
    BY <1>4 DEF SpoilFile
  <2>2. FewBad /\ GhostlessBy(me) BY <2>1 DEF SnapInv, Ghostless
  <2>3. FewBad' BY <2>1, <2>2 DEF FewBad
  <2>4. ~Fresh(wk[me]) BY <2>1, <2>2 DEF GhostlessBy
  <2>5. \A c \in Prefix : health'[c] = "torn" => health[c] = "torn" BY <2>1
  <2>6. UNCHANGED <<Entries, Stocked, Candidate(me), Own(me), Fresh(wk[me])>>
    BY <2>1 DEF Entries, Stocked, Candidate, Own, Fresh
  <2> QED BY <2>1, <2>2, <2>3, <2>4, <2>5, <2>6 DEF GhostlessBy
<1>5. ASSUME NEW r \in Requests, Fetch(me, r) PROVE FewBad' /\ GhostlessBy(me)'
  <2>1. wk'[me].pc = "scan" /\ wk'[me].seen = index /\ Stays /\ wk[me].pc = "rest"
    BY <1>5, SnapViews DEF Fetch
  <2> QED BY <1>2, <1>3, <2>1 DEF GhostlessBy, Fresh, Stays, Entries, Stocked
<1>6. CASE Skip(me)
  <2>1. Goes(me, "scan", "scan") /\ wk'[me].seen = wk[me].seen /\ Stays BY <1>6, SnapViews
  <2> QED BY <1>2, <1>3, <2>1 DEF GhostlessBy, Fresh, Stays, Goes, Entries, Stocked
<1>7. CASE Reuse(me)
  <2>1. Goes(me, "scan", "serve") /\ (UNCHANGED <<index, health, spoiled, kills>>) /\ Stocked' = Stocked
    BY <1>7, SnapViews, SnapSets
  <2> QED BY <1>2, <1>3, <2>1 DEF GhostlessBy, Fresh, Goes, Entries
<1>8. CASE Discard(me)
  <2> DEFINE c == Candidate(me)
  <2>1. /\ Goes(me, "scan", "rewrite") /\ wk'[me].seen = wk[me].seen /\ wk'[me].k = wk[me].k
        /\ UNCHANGED <<index, health, spoiled, kills>>
        /\ c \in Stocked /\ health[c] # "whole" /\ Stocked' = Stocked \ {c}
    BY <1>8, SnapViews, SnapSets
  <2>2. FewBad /\ GhostlessBy(me) /\ FewBad' BY <1>2, <1>3, <2>1
  <2>3. Stocked \subseteq Prefix BY FilesCount DEF SnapTyped, Stocked
  <2>4. c' = c BY <2>1 DEF Goes, Candidate
  <2> HIDE DEF c
  <2>5. ~Fresh(wk[me]) BY <2>1, <2>2 DEF GhostlessBy
  <2>6. wk[me].seen = index /\ wk[me].pc = "scan" BY <2>1, <2>5 DEF Goes, Fresh
  <2>7. health[c] = "bad" BY <2>1, <2>2, <2>3, <2>6 DEF GhostlessBy
  <2>8. spoiled = 1 BY <2>2, <2>3, <2>1, <2>7 DEF FewBad
  <2>9. \A d \in Stocked' : health'[d] = "whole"
    <3> SUFFICES ASSUME NEW d \in Stocked' PROVE health[d] = "whole" BY <2>1
    <3>1. d \in Prefix /\ d # c /\ c \in Prefix BY <2>1, <2>3
    <3>2. health[d] # "bad" BY <2>2, <2>7, <3>1 DEF FewBad
    <3>3. health[d] # "torn" BY <2>2, <2>6, <3>1 DEF GhostlessBy
    <3> QED BY <3>1, <3>2, <3>3
  <2>10. Entries' = Entries /\ Entries \subseteq Stocked /\ index' = index
    BY <2>1, <2>2, <2>6 DEF GhostlessBy, Entries
  <2>11. wk'[me].pc = "rewrite" /\ wk'[me].seen = index' BY <2>1, <2>6 DEF Goes
  <2>12. \A d \in Prefix : health'[d] # "torn" BY <2>1, <2>2, <2>6 DEF GhostlessBy
  <2>13. Entries' \ {c'} \subseteq Stocked' BY <2>1, <2>4, <2>10
  <2>14. Entries' \ {Candidate(me)'} \subseteq Stocked' BY <2>13 DEF c
  <2> QED BY <2>1, <2>2, <2>8, <2>9, <2>11, <2>12, <2>14 DEF GhostlessBy
<1>9. CASE Rewrite(me)
  <2>1. /\ Goes(me, "rewrite", "scan") /\ wk'[me].seen = wk[me].seen
        /\ UNCHANGED <<files, health, spoiled, kills>>
        /\ Entries' = ToSet(wk[me].seen) \ {Candidate(me)}
    BY <1>9, SnapViews, SnapSets
  <2>2. FewBad /\ GhostlessBy(me) /\ FewBad' BY <1>2, <1>3, <2>1
  <2>3. Fresh(wk[me]) BY <2>1 DEF Fresh, Goes
  <2> QED BY <2>1, <2>2, <2>3 DEF GhostlessBy, Goes, Stocked, Entries
<1>10. CASE Missed(me) \/ NotStored(me) \/ StoreBegin(me)
  <2>1. Stays /\ wk[me].pc \in {"scan", "serve"} /\ wk'[me].pc \in {"serve", "rest", "write"}
    BY <1>10, SnapViews DEF Goes
  <2> QED BY <1>2, <1>3, <2>1 DEF GhostlessBy, Fresh, Stays, Entries, Stocked
<1>11. CASE Write(me)
  <2>1. /\ Goes(me, "write", "written") /\ health' = [health EXCEPT ![Own(me)] = "torn"]
        /\ UNCHANGED <<index, spoiled, kills>> /\ Stocked' = Stocked \cup {Own(me)} /\ Own(me)' = Own(me)
    BY <1>11, SnapViews, SnapSets DEF Goes, Own
  <2>2. FewBad /\ GhostlessBy(me) BY <1>2, <2>1
  <2>3. FewBad' BY <2>1, <2>2 DEF FewBad
  <2> QED BY <2>1, <2>2, <2>3 DEF GhostlessBy, Goes, Entries, Fresh
<1>12. CASE Written(me)
  <2>1. /\ Goes(me, "written", "list") /\ health' = [health EXCEPT ![Own(me)] = "whole"]
        /\ UNCHANGED <<index, files, spoiled, kills>>
    BY <1>12, SnapViews DEF NotedBy
  <2>2. FewBad /\ GhostlessBy(me) BY <1>2, <2>1
  <2>3. FewBad' BY <2>1, <2>2 DEF FewBad
  <2> QED BY <2>1, <2>2, <2>3 DEF GhostlessBy, Goes, Entries, Stocked, Fresh
<1>13. CASE List(me)
  <2>1. /\ Goes(me, "list", "budget") /\ (UNCHANGED <<files, health, spoiled, kills>>)
        /\ Entries' = ToSet(wk[me].seen) \cup {Own(me)}
    BY <1>13, SnapViews, SnapSets
  <2>2. FewBad /\ GhostlessBy(me) /\ FewBad' BY <1>2, <1>3, <2>1
  <2>3. ToSet(wk[me].seen) = Entries /\ Own(me) \in Stocked BY <2>1 DEF NotedBy, Goes, Entries
  <2> QED BY <2>1, <2>2, <2>3 DEF GhostlessBy, Goes, Stocked, Fresh
<1>14. CASE Budget(me)
  <2>1. /\ wk[me].pc = "budget" /\ UNCHANGED <<index, health, spoiled, kills>>
        /\ Stocked' = Stocked \ Victims /\ Entries' = Entries
    BY <1>14, SnapViews, SnapSets DEF Entries
  <2>2. FewBad /\ GhostlessBy(me) /\ FewBad' BY <1>2, <1>3, <2>1
  <2>3. CASE Excess = 0
    <3>1. wk'[me].pc = "rest" BY <1>14, <2>3, SnapViews
    <3>2. Victims = {}
      <4>1. SubSeq(Counted, 1, 0) = <<>> BY SubSeqEmpty
      <4> QED BY <2>3, <4>1 DEF Victims, ToSet
    <3> QED BY <2>1, <2>2, <3>1, <3>2 DEF GhostlessBy, Fresh
  <2>4. CASE Excess # 0
    <3>1. wk'[me].pc = "evicted" /\ ToSet(wk'[me].seen) = Entries \ Victims
      BY <1>14, <2>4, SnapViews, SnapSets
    <3> QED BY <2>1, <2>2, <3>1 DEF GhostlessBy, Fresh
  <2> QED BY <2>3, <2>4
<1>15. CASE Evicted(me)
  <2>1. /\ wk[me].pc = "evicted" /\ wk'[me].pc = "rest" /\ index' = wk[me].seen
        /\ UNCHANGED <<files, health, spoiled, kills>>
    BY <1>15, SnapViews
  <2>2. FewBad /\ GhostlessBy(me) /\ FewBad' BY <1>2, <1>3, <2>1
  <2> QED BY <2>1, <2>2 DEF GhostlessBy, Fresh, Entries, Stocked
<1>16. CASE ClearSnapshots(me)
  <2>1. /\ wk[me].pc = "rest" /\ (UNCHANGED <<wk, health, spoiled, kills>>)
        /\ Entries' = {} /\ Stocked' = {}
    BY <1>16, SnapViews, SnapSets
  <2> QED BY <1>2, <1>3, <2>1 DEF GhostlessBy, Fresh
<1>17. CASE KillWorker(me)
  <2>1. kills' = kills + 1 BY <1>17, SnapViews
  <2> QED BY <2>1
<1> QED BY <1>4, <1>5, <1>6, <1>7, <1>8, <1>9, <1>10, <1>11, <1>12, <1>13, <1>14, <1>15, <1>16, <1>17
        DEF SnapNext

(* Sizes of finite sets, as the budget needs them.                         *)
LEMMA Sizes ==
  ASSUME NEW S, IsFiniteSet(S)
  PROVE  /\ Cardinality(S) \in Nat
         /\ \A Q : Q \subseteq S => IsFiniteSet(Q) /\ Cardinality(Q) \in Nat
                                    /\ Cardinality(Q) <= Cardinality(S)
                                    /\ Cardinality(S \ Q) = Cardinality(S) - Cardinality(Q)
         /\ \A x : IsFiniteSet(S \cup {x}) /\ Cardinality(S \cup {x}) <= Cardinality(S) + 1
<1>1. Cardinality(S) \in Nat BY FS_CardinalityType
<1>2. ASSUME NEW Q, Q \subseteq S
      PROVE  IsFiniteSet(Q) /\ Cardinality(Q) \in Nat /\ Cardinality(Q) <= Cardinality(S)
             /\ Cardinality(S \ Q) = Cardinality(S) - Cardinality(Q)
  <2>1. IsFiniteSet(Q) /\ Cardinality(Q) <= Cardinality(S) BY <1>2, FS_Subset
  <2>2. Cardinality(Q) \in Nat BY <2>1, FS_CardinalityType
  <2>3. Cardinality(S \ Q) = Cardinality(S) - Cardinality(S \cap Q) BY FS_Difference
  <2>4. S \cap Q = Q BY <1>2
  <2> QED BY <2>1, <2>2, <2>3, <2>4
<1>3. ASSUME NEW x PROVE IsFiniteSet(S \cup {x}) /\ Cardinality(S \cup {x}) <= Cardinality(S) + 1
  <2>1. IsFiniteSet(S \cup {x}) /\ (Cardinality(S \cup {x}) = Cardinality(S)
                                    \/ Cardinality(S \cup {x}) = Cardinality(S) + 1)
    BY FS_AddElement
  <2> QED BY <1>1, <2>1
<1> QED BY <1>1, <1>2, <1>3

(* The budget takes exactly what is too many, of what the index lists.     *)
LEMMA VictimsFit ==
  ASSUME SnapTyped
  PROVE  /\ Victims \subseteq Stocked \cap Entries
         /\ Cardinality((Stocked \ Victims) \cap Entries) <= MaxBytes
         /\ Excess = 0 => Victims = {}
<1> DEFINE n == Len(Counted)
           t == SubSeq(Counted, 1, Excess)
<1>1. Counted \in Seq(Prefix) /\ ToSet(Counted) = Stocked \cap Entries /\ Once(Counted)
  <2>1. files \in Seq(Prefix) /\ index \in Seq(Prefix) /\ Once(files) BY DEF SnapTyped
  <2>2. /\ Counted \in Seq(Prefix) /\ ToSet(Counted) = ToSet(files) \ (Prefix \ ToSet(index))
        /\ Once(Counted)
    BY <2>1, WithoutFacts DEF Counted
  <2>3. ToSet(files) \subseteq Prefix BY <2>1, FilesCount
  <2> QED BY <2>2, <2>3 DEF Stocked, Entries
<1> HIDE DEF n
<1>2. n \in Nat /\ MaxBytes \in Nat /\ DOMAIN Counted = 1..n BY <1>1, LimitsNat DEF n
<1>3. /\ Excess \in 0..n
      /\ n - Excess <= MaxBytes
  BY <1>2 DEF Excess, n
<1>4. t \in Seq(Prefix) /\ Len(t) = Excess /\ \A k \in 1..Excess : t[k] = Counted[k]
  <2>1. \A k \in 1..Excess : Counted[k] \in Prefix BY <1>1, <1>2, <1>3
  <2>2. Excess \in Nat /\ 1 \in Int BY <1>2, <1>3
  <2>3. /\ t \in Seq(Prefix)
        /\ Len(t) = IF 1 <= Excess THEN Excess - 1 + 1 ELSE 0
        /\ \A k \in 1..(Excess - 1 + 1) : t[k] = Counted[1 + k - 1]
    BY <2>1, <2>2, SubSeqProperties
  <2>4. \A k \in Nat : 1 + k - 1 = k OBVIOUS
  <2> HIDE DEF t
  <2> QED BY <2>2, <2>3, <2>4
<1>5. Victims = ToSet(t) BY DEF Victims
<1> HIDE DEF t
<1>6. Once(t)
  <2>1. DOMAIN t = 1..Excess BY <1>4
  <2>2. \A k \in 1..Excess : k \in 1..n BY <1>2, <1>3
  <2> QED BY <1>1, <1>2, <1>4, <2>1, <2>2 DEF Once
<1>7. Victims \subseteq Stocked \cap Entries
  <2>1. DOMAIN t = 1..Excess /\ \A k \in 1..Excess : k \in 1..n BY <1>2, <1>3, <1>4
  <2>2. \A k \in 1..n : Counted[k] \in ToSet(Counted) BY <1>2 DEF ToSet
  <2> QED BY <1>1, <1>4, <1>5, <2>1, <2>2 DEF ToSet
<1>8. Cardinality(Victims) = Excess BY <1>4, <1>5, <1>6, FilesCount
<1>9. Cardinality(Stocked \cap Entries) = n /\ IsFiniteSet(Stocked \cap Entries)
  BY <1>1, FilesCount DEF n
<1>10. Cardinality((Stocked \cap Entries) \ Victims) = n - Excess BY <1>7, <1>8, <1>9, Sizes
<1>11. (Stocked \ Victims) \cap Entries = (Stocked \cap Entries) \ Victims OBVIOUS
<1>12. ASSUME Excess = 0 PROVE Victims = {}
  <2>1. DOMAIN t = 1..Excess BY <1>4
  <2> QED BY <1>5, <1>12, <2>1 DEF ToSet
<1> QED BY <1>3, <1>7, <1>10, <1>11, <1>12

(* The directory stays within its limit, whoever is killed.                *)
LEMMA WithinKeeps ==
  ASSUME NEW me, Worker = {me}, SnapInv, SnapNext PROVE Within'
<1>1. SnapTyped /\ me \in Worker /\ NotedBy(me) /\ WithinBy(me) /\ kills \in Nat /\ MaxBytes \in Nat
  BY LimitsNat DEF SnapInv, Noted, SnapTyped, Within
<1> SUFFICES WithinBy(me)' BY DEF Within
<1> USE <1>1
<1>2. IsFiniteSet(Stocked) BY FilesCount DEF SnapTyped, Stocked
<1>3. /\ Cardinality(Stocked) \in Nat /\ Cardinality(Stocked \ Entries) \in Nat
      /\ Cardinality(Stocked) <= MaxBytes + kills + 1
      /\ wk[me].pc \notin {"written", "list", "budget"} => Cardinality(Stocked) <= MaxBytes + kills
      /\ wk[me].pc \notin {"written", "list"} => Cardinality(Stocked \ Entries) <= kills
  <2>1. Cardinality(Stocked) \in Nat /\ Cardinality(Stocked \ Entries) \in Nat BY <1>2, Sizes
  <2> QED BY <2>1 DEF WithinBy, Stray
\* A step that keeps the files, or removes some, and unlists none that is there.
<1>4. ASSUME Stocked' \subseteq Stocked, Stocked' \ Entries' \subseteq Stocked \ Entries, kills' = kills,
             wk[me].pc \notin {"written", "list", "budget"},
             wk'[me].pc \notin {"written", "list", "budget"}
      PROVE  WithinBy(me)'
  <2>1. IsFiniteSet(Stocked \ Entries) BY <1>2, Sizes
  <2>2. Cardinality(Stocked') \in Nat /\ Cardinality(Stocked') <= Cardinality(Stocked) BY <1>2, <1>4, Sizes
  <2>3. Cardinality(Stocked' \ Entries') \in Nat
        /\ Cardinality(Stocked' \ Entries') <= Cardinality(Stocked \ Entries)
    BY <1>4, <2>1, Sizes
  <2>4. Cardinality(Stocked') <= MaxBytes + kills' /\ Cardinality(Stocked' \ Entries') <= kills'
    BY <1>3, <1>4, <2>2, <2>3
  <2> QED BY <1>4, <2>4 DEF WithinBy, Stray
<1>5. ASSUME NEW d \in Prefix, SpoilFile(d) PROVE WithinBy(me)'
  <2>1. UNCHANGED <<wk, kills, Stocked, Entries, Own(me)>> BY <1>5 DEF SpoilFile, Stocked, Entries, Own
  <2> QED BY <2>1 DEF WithinBy, Stray
<1>6. ASSUME NEW r \in Requests, Fetch(me, r) PROVE WithinBy(me)'
  <2>1. wk'[me].pc = "scan" /\ wk[me].pc = "rest" /\ Stays BY <1>6, SnapViews DEF Fetch
  <2> QED BY <1>4, <2>1 DEF Stays, Stocked, Entries
<1>7. CASE Skip(me) \/ Missed(me) \/ NotStored(me) \/ StoreBegin(me)
  <2>1. Stays /\ wk[me].pc \in {"scan", "serve"} /\ wk'[me].pc \in {"scan", "serve", "rest", "write"}
    BY <1>7, SnapViews DEF Goes
  <2> QED BY <1>4, <2>1 DEF Stays, Stocked, Entries
<1>8. CASE Reuse(me)
  <2>1. Goes(me, "scan", "serve") /\ Stocked' = Stocked /\ Entries' = Entries /\ kills' = kills
    BY <1>8, SnapViews, SnapSets DEF Entries
  <2> QED BY <1>4, <2>1 DEF Goes
<1>9. CASE Discard(me)
  <2>1. Goes(me, "scan", "rewrite") /\ Stocked' \subseteq Stocked /\ Entries' = Entries /\ kills' = kills
    BY <1>9, SnapViews, SnapSets DEF Entries
  <2> QED BY <1>4, <2>1 DEF Goes
<1>10. CASE Rewrite(me)
  <2>1. /\ Goes(me, "rewrite", "scan") /\ Stocked' = Stocked /\ kills' = kills
        /\ Entries' = ToSet(wk[me].seen) \ {Candidate(me)}
    BY <1>10, SnapViews, SnapSets DEF Stocked
  <2>2. Entries \subseteq ToSet(wk[me].seen) /\ Candidate(me) \notin Stocked BY <2>1 DEF NotedBy, Goes
  <2> QED BY <1>4, <2>1, <2>2 DEF Goes
<1>11. CASE Write(me)
  <2>1. /\ Goes(me, "write", "written") /\ Stocked' = Stocked \cup {Own(me)} /\ Own(me)' = Own(me)
        /\ Entries' = Entries /\ kills' = kills
    BY <1>11, SnapViews, SnapSets DEF Goes, Own, Entries
  <2>2. Cardinality(Stocked') <= Cardinality(Stocked) + 1 /\ Cardinality(Stocked') \in Nat
    <3>1. IsFiniteSet(Stocked') /\ Cardinality(Stocked') <= Cardinality(Stocked) + 1 BY <1>2, <2>1, Sizes
    <3> QED BY <3>1, FS_CardinalityType
  <2>3. (Stocked' \ {Own(me)}) \ Entries \subseteq Stocked \ Entries BY <2>1
  <2>4. /\ Cardinality((Stocked' \ {Own(me)}) \ Entries) \in Nat
        /\ Cardinality((Stocked' \ {Own(me)}) \ Entries) <= Cardinality(Stocked \ Entries)
    <3>1. IsFiniteSet(Stocked \ Entries) BY <1>2, Sizes
    <3> QED BY <2>3, <3>1, Sizes
  <2>5. Cardinality(Stocked') <= MaxBytes + kills + 1
        /\ Cardinality((Stocked' \ {Own(me)}) \ Entries) <= kills
    BY <1>3, <2>1, <2>2, <2>4 DEF Goes
  <2> QED BY <2>1, <2>5 DEF WithinBy, Stray, Goes
<1>12. CASE Written(me)
  <2>1. /\ Goes(me, "written", "list") /\ UNCHANGED <<index, files, spoiled, kills>>
        /\ Own(me)' = Own(me)
    BY <1>12, SnapViews DEF NotedBy, Own, Goes
  <2> QED BY <2>1 DEF WithinBy, Stray, Goes, Stocked, Entries
<1>13. CASE List(me)
  <2>1. /\ Goes(me, "list", "budget") /\ Stocked' = Stocked /\ kills' = kills
        /\ Entries' = ToSet(wk[me].seen) \cup {Own(me)}
    BY <1>13, SnapViews, SnapSets DEF Stocked
  <2>2. ToSet(wk[me].seen) = Entries BY <2>1 DEF NotedBy, Goes, Entries
  <2>3. Stocked' \ Entries' = (Stocked \ {Own(me)}) \ Entries BY <2>1, <2>2
  <2>4. Cardinality(Stocked' \ Entries') <= kills' BY <2>1, <2>3 DEF WithinBy, Stray, Goes
  <2> QED BY <1>3, <2>1, <2>4 DEF WithinBy, Stray, Goes
<1>14. CASE Budget(me)
  <2> DEFINE left == Stocked \ Victims
  <2>1. /\ wk[me].pc = "budget" /\ wk'[me].pc \in {"rest", "evicted"} /\ kills' = kills
        /\ Stocked' = left /\ Entries' = Entries
    BY <1>14, SnapViews, SnapSets DEF Entries
  <2>2. Victims \subseteq Stocked \cap Entries /\ Cardinality(left \cap Entries) <= MaxBytes BY VictimsFit
  <2>3. left \ Entries = Stocked \ Entries BY <2>2
  <2>4. /\ IsFiniteSet(left) /\ Cardinality(left) \in Nat /\ Cardinality(left \cap Entries) \in Nat
        /\ Cardinality(left \ (left \cap Entries)) = Cardinality(left) - Cardinality(left \cap Entries)
    <3>1. IsFiniteSet(left) BY <1>2, Sizes
    <3> HIDE DEF left
    <3> QED BY <3>1, Sizes
  <2>5. left \ (left \cap Entries) = Stocked \ Entries BY <2>3
  <2>6. Cardinality(Stocked \ Entries) <= kills BY <1>3, <2>1
  <2> HIDE DEF left
  <2>7. Cardinality(left) <= MaxBytes + kills
    <3>1. Cardinality(Stocked \ Entries) = Cardinality(left) - Cardinality(left \cap Entries)
      BY <2>4, <2>5
    <3>2. Cardinality(left) \in Nat /\ Cardinality(left \cap Entries) \in Nat BY <2>4
    <3>3. Cardinality(left \cap Entries) <= MaxBytes BY <2>2
    <3> QED BY <1>1, <2>6, <3>1, <3>2, <3>3
  <2> QED BY <2>1, <2>3, <2>6, <2>7 DEF WithinBy, Stray
<1>15. CASE Evicted(me)
  <2>1. /\ wk[me].pc = "evicted" /\ wk'[me].pc = "rest" /\ Stocked' = Stocked /\ kills' = kills
        /\ Entries' = ToSet(wk[me].seen)
    BY <1>15, SnapViews DEF Stocked, Entries
  <2>2. Stocked \cap Entries \subseteq ToSet(wk[me].seen) BY <2>1 DEF NotedBy
  <2> QED BY <1>4, <2>1, <2>2
<1>16. CASE ClearSnapshots(me)
  <2>1. wk[me].pc = "rest" /\ wk' = wk /\ kills' = kills /\ Entries' = {} /\ Stocked' = {}
    BY <1>16, SnapViews, SnapSets
  <2> QED BY <1>4, <2>1
<1>17. CASE KillWorker(me)
  <2>1. wk'[me].pc = "rest" /\ kills' = kills + 1 /\ Stocked' = Stocked /\ Entries' = Entries
    BY <1>17, SnapViews DEF Stocked, Entries
  <2>2. Cardinality(Stocked \ Entries) <= kills + 1
    <3>1. CASE wk[me].pc \notin {"written", "list"} BY <1>3, <3>1
    <3>2. CASE wk[me].pc \in {"written", "list"}
      <4> DEFINE others == (Stocked \ {Own(me)}) \ Entries
      <4>1. IsFiniteSet(others) /\ Cardinality(others) \in Nat BY <1>2, Sizes
      <4>2. Cardinality(others) <= kills BY <3>2 DEF WithinBy, Stray
      <4>3. Stocked \ Entries \subseteq others \cup {Own(me)} OBVIOUS
      <4> HIDE DEF others
      <4>4. IsFiniteSet(others \cup {Own(me)}) /\ Cardinality(others \cup {Own(me)}) <= Cardinality(others) + 1
        BY <4>1, Sizes
      <4>5. Cardinality(others \cup {Own(me)}) \in Nat
            /\ Cardinality(Stocked \ Entries) <= Cardinality(others \cup {Own(me)})
        BY <4>3, <4>4, Sizes
      <4> QED BY <1>3, <4>1, <4>2, <4>4, <4>5
    <3> QED BY <3>1, <3>2
  <2> QED BY <1>3, <2>1, <2>2 DEF WithinBy, Stray
<1> QED BY <1>5, <1>6, <1>7, <1>8, <1>9, <1>10, <1>11, <1>12, <1>13, <1>14, <1>15, <1>16, <1>17
        DEF SnapNext

(* The invariant of the snapshots, and what it says of the properties.     *)
LEMMA SnapInitHolds == SnapInit => SnapTyped /\ Noted /\ Ghostless /\ Within
<1> SUFFICES ASSUME SnapInit PROVE SnapTyped /\ Noted /\ Ghostless /\ Within OBVIOUS
<1>1. <<>> \in Seq(Prefix) /\ ToSet(<<>>) = {} /\ Once(<<>>) /\ <<>> \in Seq(Prefix) BY EmptySeq DEF ToSet, Once
<1>2. AtRest \in Workings /\ AtWork(AtRest) /\ AtRest.pc = "rest" BY <1>1 DEF AtRest, Workings, AtWork
<1>3. SnapTyped BY <1>1, <1>2 DEF SnapInit, SnapTyped
<1>4. \A x \in Worker : wk[x].pc = "rest" BY <1>2 DEF SnapInit
<1>5. Noted BY <1>4 DEF Noted, NotedBy
<1>6. Entries = {} /\ Stocked = {} BY <1>1 DEF SnapInit, Entries, Stocked
<1>7. Ghostless BY <1>4, <1>6 DEF Ghostless, GhostlessBy, FewBad, Fresh, SnapInit
<1>8. Cardinality({}) = 0 /\ MaxBytes \in Nat BY FS_EmptySet, LimitsNat
<1>9. Within BY <1>4, <1>6, <1>8 DEF Within, WithinBy, Stray, SnapInit
<1> QED BY <1>3, <1>5, <1>7, <1>9

(* What the invariant says of the properties.                              *)
LEMMA SnapPromises ==
  /\ SnapTyped => SnapTypeOK
  /\ \A me : Worker = {me} /\ SnapInv => NoGhostEntry /\ SnapshotsBounded
<1>1. SnapTyped => SnapTypeOK BY FilesCount DEF SnapTyped, SnapTypeOK, Workings
<1>2. ASSUME NEW me, Worker = {me}, SnapInv PROVE NoGhostEntry /\ SnapshotsBounded
  <2>1. me \in Worker /\ SnapTyped /\ WithinBy(me) /\ wk[me] \in Workings
    BY <1>2, OneSteps DEF SnapInv, Within
  <2>2. NoGhostEntry
    BY <1>2, <2>1 DEF SnapInv, Ghostless, GhostlessBy, NoGhostEntry, IndexNamesFiles, AllAtRest, Entries, Stocked
  <2>3. Len(files) = Cardinality(Stocked) /\ Cardinality(Stocked) \in Nat
    BY <2>1, FilesCount DEF SnapTyped, Stocked
  <2>4. kills \in Nat /\ MaxBytes \in Nat BY <2>1, LimitsNat DEF SnapTyped
  <2>5. SnapshotsBounded BY <1>2, <2>1, <2>3, <2>4 DEF WithinBy, SnapshotsBounded, AllAtRest
  <2> QED BY <2>2, <2>5
<1> QED BY <1>1, <1>2
-----------------------------------------------------------------------------
(* The invariant of the reuse in mlx-vlm.                                  *)
Texts == Seq(Token)
Turns == [pc : {"idle", "run"}, prompt : Texts, gen : Texts, live : Texts, own : BOOLEAN]
Snaps == {s \in [ids : Texts, data : Texts, sound : BOOLEAN] : Len(s.data) = Len(s.ids)}
Memos == {s \in [ids : Texts, data : Texts] : Len(s.data) = Len(s.ids)}
ReuseTyped ==
  /\ window \in Windows
  /\ ids \in Texts \cup {None} /\ held \in Texts \cup {None} /\ pending \in Prompts \cup {None}
  /\ memo \in Memos \cup {None}
  /\ disk \in Seq(Snaps) /\ persisted \in Nat /\ written \in 0..WriteTokens
  /\ turn \in Turns /\ lost \in BOOLEAN /\ turns \in 0..MaxTurns /\ mishaps \in 0..MaxMishaps
  /\ turn.pc = "run" => turn.prompt \in Prompts /\ pending = turn.prompt

(* A retained cache is never shorter than its label.                       *)
Measured ==
  /\ turn.pc = "run" => Len(turn.live) = Len(turn.prompt) + Len(turn.gen)
  /\ turn.pc = "idle" /\ ids # None /\ held # None => Len(ids) <= Len(held)

(* Between requests the label is a prefix of what it labels; during one    *)
(* that reuses the retained cache, that cache is the one it computes on.   *)
Tied == turn.pc = "run" /\ turn.own => held = turn.live
Labelled ==
  turn.pc = "idle" /\ ids # None /\ held # None => Take(held, Len(ids)) = ids
TrueSnaps == {s \in Snaps : s.data = s.ids}
TrueMemo == memo # None => memo.data = memo.ids
TrueDisk == disk \in Seq(TrueSnaps)
ReuseInv == ReuseTyped /\ Measured /\ Tied /\ (~lost => GeneratesFromPrompt /\ Labelled /\ TrueMemo /\ TrueDisk)

(* The first tokens of a text.                                             *)
LEMMA TakeFacts ==
  ASSUME NEW T, NEW s \in Seq(T), NEW n \in 0..Len(s)
  PROVE  /\ Len(s) \in Nat /\ n \in Nat
         /\ Take(s, n) \in Seq(T) /\ Len(Take(s, n)) = n /\ \A k \in 1..n : Take(s, n)[k] = s[k]
<1>1. Len(s) \in Nat /\ n \in Nat /\ n <= Len(s) OBVIOUS
<1>2. 1 \in Int /\ n \in Int /\ \A k \in 1..n : s[k] \in T BY <1>1
<1>3. /\ SubSeq(s, 1, n) \in Seq(T) /\ Len(SubSeq(s, 1, n)) = IF 1 <= n THEN n - 1 + 1 ELSE 0
      /\ \A k \in 1..(n - 1 + 1) : SubSeq(s, 1, n)[k] = s[1 + k - 1]
  BY <1>2, SubSeqProperties
<1>4. n - 1 + 1 = n /\ \A k \in 1..n : 1 + k - 1 = k BY <1>1
<1> QED BY <1>1, <1>3, <1>4 DEF Take

(* What two texts share is the longest prefix of both.                     *)
LEMMA SharedFacts ==
  ASSUME NEW T, NEW s \in Seq(T), NEW t \in Seq(T)
  PROVE  /\ Shared(s, t) \in 0..Len(t) /\ Shared(s, t) \in 0..Len(s)
         /\ Take(s, Shared(s, t)) = Take(t, Shared(s, t))
<1> DEFINE Is(n) == /\ n <= Len(s) /\ Take(s, n) = Take(t, n)
                    /\ n < Len(s) /\ n < Len(t) => s[n + 1] # t[n + 1]
           B == {n \in 0..Len(t) : n <= Len(s) /\ (n = Len(s) \/ n = Len(t) \/ s[n + 1] # t[n + 1])}
<1>1. Len(s) \in Nat /\ Len(t) \in Nat OBVIOUS
<1>2. B \subseteq Nat /\ B # {}
  <2>1. CASE Len(s) <= Len(t)
    <3>1. Len(s) \in B BY <1>1, <2>1
    <3> QED BY <1>1, <3>1
  <2>2. CASE Len(t) <= Len(s)
    <3>1. Len(t) \in B BY <1>1, <2>2
    <3> QED BY <1>1, <3>1
  <2> QED BY <1>1, <2>1, <2>2
<1>3. PICK n \in B : \A k \in B : n <= k BY <1>2, LeastOf
<1>4. n \in 0..Len(t) /\ n \in 0..Len(s) /\ (n < Len(s) /\ n < Len(t) => s[n + 1] # t[n + 1])
  BY <1>1, <1>3
<1>5. ASSUME NEW k \in 1..n PROVE s[k] = t[k]
  <2>1. k - 1 \in 0..Len(t) /\ k - 1 < n /\ k - 1 # Len(s) /\ k - 1 # Len(t) /\ k - 1 <= Len(s)
    BY <1>1, <1>4
  <2>2. k - 1 \notin B
    <3>1. ~(n <= k - 1) BY <1>4, <2>1
    <3> HIDE DEF B
    <3> QED BY <1>3, <3>1
  <2>3. s[(k - 1) + 1] = t[(k - 1) + 1] BY <2>1, <2>2
  <2>4. (k - 1) + 1 = k BY <1>4
  <2> QED BY <2>3, <2>4
<1>6. Take(s, n) = Take(t, n)
  <2>1. /\ Take(s, n) \in Seq(T) /\ Len(Take(s, n)) = n /\ \A k \in 1..n : Take(s, n)[k] = s[k]
    BY <1>4, TakeFacts
  <2>2. /\ Take(t, n) \in Seq(T) /\ Len(Take(t, n)) = n /\ \A k \in 1..n : Take(t, n)[k] = t[k]
    BY <1>4, TakeFacts
  <2>3. \A k \in 1..Len(Take(s, n)) : Take(s, n)[k] = Take(t, n)[k] BY <1>5, <2>1, <2>2
  <2> QED BY <2>1, <2>2, <2>3, SeqEqual
<1>7. Is(n) /\ n \in 0..Len(t) BY <1>1, <1>4, <1>6
<1>8. \E m \in 0..Len(t) : Is(m) BY <1>7
<1>9. Shared(s, t) = CHOOSE m \in 0..Len(t) : Is(m) BY DEF Shared
<1>10. Shared(s, t) \in 0..Len(t) /\ Is(Shared(s, t)) BY <1>8, <1>9
<1> QED BY <1>1, <1>10

(* A cache that stands for the first tokens of a prompt, and the rest.     *)
LEMMA Continued ==
  ASSUME NEW T, NEW p \in Seq(T), NEW n \in 0..Len(p)
  PROVE  /\ Take(p, n) \o SubSeq(p, n + 1, Len(p)) = p
         /\ SubSeq(p, n + 1, Len(p)) \in Seq(T)
<1>1. Len(p) \in Nat /\ n \in Nat /\ n <= Len(p) OBVIOUS
<1>2. 1 \in 1..(Len(p) + 1) /\ n \in (1 - 1)..Len(p) /\ Len(p) \in n..Len(p) BY <1>1
<1>3. SubSeq(p, 1, n) \o SubSeq(p, n + 1, Len(p)) = SubSeq(p, 1, Len(p)) BY <1>2, ConcatAdjacentSubSeq
<1>4. SubSeq(p, 1, Len(p)) = p BY SubSeqFull
<1>5. \A k \in (n + 1)..Len(p) : p[k] \in T BY <1>1
<1>6. SubSeq(p, n + 1, Len(p)) \in Seq(T) BY <1>1, <1>5, SubSeqProperties
<1> QED BY <1>3, <1>4, <1>6 DEF Take

(* A shorter prefix of a labelled cache is that of its label.              *)
LEMMA Shorter ==
  ASSUME NEW T, NEW s \in Seq(T), NEW h \in Seq(T), Len(s) <= Len(h), Take(h, Len(s)) = s,
         NEW n \in 0..Len(s)
  PROVE  n \in 0..Len(h) /\ Take(h, n) = Take(s, n)
<1>1. Len(s) \in Nat /\ Len(h) \in Nat /\ n \in 0..Len(h) /\ Len(s) \in 0..Len(h) OBVIOUS
<1>2. \A k \in 1..Len(s) : s[k] = h[k]
  <2>1. \A k \in 1..Len(s) : Take(h, Len(s))[k] = h[k] BY <1>1, TakeFacts
  <2> QED BY <2>1
<1>3. /\ Take(s, n) \in Seq(T) /\ Len(Take(s, n)) = n /\ \A k \in 1..n : Take(s, n)[k] = s[k]
  BY TakeFacts
<1>4. /\ Take(h, n) \in Seq(T) /\ Len(Take(h, n)) = n /\ \A k \in 1..n : Take(h, n)[k] = h[k]
  BY <1>1, TakeFacts
<1>5. \A k \in 1..n : k \in 1..Len(s) BY <1>1
<1>6. \A k \in 1..Len(Take(h, n)) : Take(h, n)[k] = Take(s, n)[k] BY <1>2, <1>3, <1>4, <1>5
<1> QED BY <1>1, <1>3, <1>4, <1>6, SeqEqual

(* The start of a text.                                                    *)
LEMMA Begins ==
  ASSUME NEW T, NEW s \in Seq(T), NEW u \in Seq(T)
  PROVE  /\ s \o u \in Seq(T) /\ Len(s \o u) = Len(s) + Len(u)
         /\ Len(s) <= Len(s \o u) /\ Take(s \o u, Len(s)) = s
         /\ Len(s \o u) = Len(s) => s \o u = s
<1>1. Len(s) \in Nat /\ Len(u) \in Nat OBVIOUS
<1>2. /\ s \o u \in Seq(T) /\ Len(s \o u) = Len(s) + Len(u)
      /\ \A i \in 1..Len(s) + Len(u) : (s \o u)[i] = IF i <= Len(s) THEN s[i] ELSE u[i - Len(s)]
  BY ConcatProperties
<1> DEFINE c == s \o u
<1>3. c \in Seq(T) /\ Len(s) \in 0..Len(c) BY <1>1, <1>2
<1>4. \A k \in 1..Len(s) : c[k] = s[k] BY <1>1, <1>2
<1> HIDE DEF c
<1>5. /\ Take(c, Len(s)) \in Seq(T) /\ Len(Take(c, Len(s))) = Len(s)
      /\ \A k \in 1..Len(s) : Take(c, Len(s))[k] = c[k]
  BY <1>3, TakeFacts
<1>6. Take(c, Len(s)) = s
  <2>1. \A k \in 1..Len(Take(c, Len(s))) : Take(c, Len(s))[k] = s[k] BY <1>4, <1>5
  <2> QED BY <1>5, <2>1, SeqEqual
<1>7. ASSUME Len(c) = Len(s) PROVE c = s
  <2>1. \A k \in 1..Len(c) : c[k] = s[k] BY <1>4, <1>7
  <2> QED BY <1>3, <1>7, <2>1, SeqEqual
<1> QED BY <1>1, <1>2, <1>6, <1>7 DEF c

(* What the steps do to the snapshots on disk: whatever set they are in,   *)
(* those that stay are in it.                                              *)
LEMMA DiskFacts ==
  ASSUME NEW T, NEW d \in Seq(T)
  PROVE  /\ \A k \in DOMAIN d : d[k] \in T /\ RemoveAt(d, k) \in Seq(T)
         /\ d # <<>> => Evict(d) \in Seq(T)
<1>1. Len(d) \in Nat /\ DOMAIN d = 1..Len(d) /\ \A k \in 1..Len(d) : d[k] \in T OBVIOUS
<1>2. ASSUME NEW i \in Int, i >= 1, NEW j \in Int, j <= Len(d) PROVE SubSeq(d, i, j) \in Seq(T)
  <2>1. \A k \in i..j : d[k] \in T BY <1>1, <1>2
  <2> QED BY <2>1, SubSeqProperties
<1>3. ASSUME NEW k \in DOMAIN d PROVE d[k] \in T /\ RemoveAt(d, k) \in Seq(T)
  <2>1. k \in Int /\ k >= 1 /\ k <= Len(d) /\ d[k] \in T BY <1>1
  <2>2. SubSeq(d, 1, k - 1) \in Seq(T) BY <1>1, <1>2, <2>1
  <2>3. SubSeq(d, k + 1, Len(d)) \in Seq(T) BY <1>1, <1>2, <2>1
  <2>4. SubSeq(d, 1, k - 1) \o SubSeq(d, k + 1, Len(d)) \in Seq(T) BY <2>2, <2>3, ConcatProperties
  <2> QED BY <2>1, <2>4 DEF RemoveAt
<1>4. ASSUME d # <<>> PROVE Evict(d) \in Seq(T)
  <2> DEFINE Small(k) == Tokens(After(d, k)) <= DiskTokens
             B == {k \in 0..(Len(d) - 1) : Small(k) \/ k = Len(d) - 1}
             Is(k) == (Small(k) \/ k = Len(d) - 1) /\ (k > 0 => ~Small(k - 1))
  <2>1. Len(d) - 1 \in Nat
    <3>1. Len(d) # 0 BY <1>4
    <3> QED BY <1>1, <3>1
  <2> HIDE DEF Small
  <2>2. B \subseteq Nat /\ B # {}
    <3>1. Len(d) - 1 \in B BY <2>1
    <3> QED BY <3>1
  <2>3. \E i \in B : \A j \in B : i <= j BY <2>2, LeastOf
  <2>4. \E i \in 0..(Len(d) - 1) : Is(i)
    <3>1. PICK i \in B : \A j \in B : i <= j BY <2>3
    <3>2. i > 0 => i - 1 \notin B BY <2>1, <3>1
    <3>3. i > 0 => i - 1 \in 0..(Len(d) - 1) BY <2>1, <3>1
    <3> QED BY <3>1, <3>2, <3>3
  <2>5. PICK m \in 0..(Len(d) - 1) : Evict(d) = After(d, m)
    <3>1. Evict(d) = After(d, CHOOSE i \in 0..(Len(d) - 1) : Is(i)) BY DEF Evict, Small
    <3> HIDE DEF Is
    <3> QED BY <2>4, <3>1
  <2>6. After(d, m) \in Seq(T)
    <3>1. m \in Nat /\ Len(d) \in Nat BY <1>1, <2>1, <2>5
    <3>2. m + 1 \in Int /\ m + 1 >= 1 BY <3>1
    <3>3. Len(d) \in Int /\ Len(d) <= Len(d) BY <3>1
    <3>4. SubSeq(d, m + 1, Len(d)) \in Seq(T) BY <1>2, <3>2, <3>3
    <3> QED BY <3>4 DEF After
  <2> QED BY <2>5, <2>6
<1> QED BY <1>3, <1>4

(* The snapshot on disk that is tried is one that fits the prompt.         *)
LEMMA LongestFits ==
  ASSUME ReuseTyped, NEW p \in Texts, OnDisk(p) # {}
  PROVE  Longest(p) \in DOMAIN disk /\ Fits(disk[Longest(p)], p)
<1> DEFINE B == {Len(p) - Len(disk[j].ids) : j \in OnDisk(p)}
<1>1. disk \in Seq(Snaps) /\ Len(p) \in Nat BY DEF ReuseTyped, Texts
<1>2. ASSUME NEW j \in OnDisk(p)
      PROVE  j \in DOMAIN disk /\ Fits(disk[j], p) /\ Len(disk[j].ids) \in Nat /\ Len(disk[j].ids) < Len(p)
  <2>1. j \in DOMAIN disk /\ Fits(disk[j], p) BY DEF OnDisk
  <2>2. disk[j] \in Snaps BY <1>1, <2>1, DiskFacts
  <2>3. disk[j].ids \in Texts BY <2>2 DEF Snaps
  <2> QED BY <2>1, <2>3 DEF Fits, ProperPrefix, Texts
<1>3. B \subseteq Nat /\ B # {} BY <1>1, <1>2
<1>4. PICK n \in B : \A m \in B : n <= m BY <1>3, LeastOf
<1>5. PICK k \in OnDisk(p) : n = Len(p) - Len(disk[k].ids) BY <1>4
<1>6. \A j \in OnDisk(p) : Len(disk[j].ids) <= Len(disk[k].ids)
  <2> SUFFICES ASSUME NEW j \in OnDisk(p) PROVE Len(disk[j].ids) <= Len(disk[k].ids) OBVIOUS
  <2>1. Len(p) - Len(disk[j].ids) \in B OBVIOUS
  <2> HIDE DEF B
  <2>2. Len(p) - Len(disk[k].ids) <= Len(p) - Len(disk[j].ids) BY <1>4, <1>5, <2>1
  <2> QED BY <1>1, <1>2, <2>2
<1>7. Longest(p) \in OnDisk(p) BY <1>6 DEF Longest
<1> QED BY <1>2, <1>7

(* The turn that a request starts with, from n tokens of a cache.          *)
LEMMA StartFacts ==
  ASSUME NEW p \in Prompts, NEW n \in 0..Len(p), NEW cache, cache \in Texts \/ n = 0, Start(p, n, cache)
  PROVE  /\ p \in Texts /\ Len(p) \in Nat
         /\ turn' \in Turns /\ turn'.pc = "run" /\ turn'.prompt = p /\ turn'.gen = <<>>
         /\ turn'.own => 0 < n /\ n < Len(p)
         /\ (turn'.own => cache = Take(p, n)) => turn'.live = turn'.prompt \o turn'.gen
         /\ (turn'.own => Len(cache) = n) => Len(turn'.live) = Len(turn'.prompt) + Len(turn'.gen)
<1>1. p \in Texts /\ Len(p) \in Nat /\ <<>> \in Texts
  <2>1. p \in Texts /\ <<>> \in Texts BY PromptsSeq, EmptySeq DEF Texts
  <2> QED BY <2>1 DEF Texts
<1>2. p \o <<>> = p /\ Len(<<>>) = 0 BY <1>1, ConcatEmptySeq DEF Texts
<1>3. CASE 0 < n /\ n < Len(p)
  <2> DEFINE rest == SubSeq(p, n + 1, Len(p))
  <2>1. /\ turn'.pc = "run" /\ turn'.prompt = p /\ turn'.gen = <<>> /\ turn'.own
        /\ turn' = [pc |-> "run", prompt |-> p, gen |-> <<>>, live |-> cache \o rest, own |-> TRUE]
    BY <1>3 DEF Start
  <2>2. rest \in Texts /\ Take(p, n) \o rest = p BY <1>1, Continued DEF Texts
  <2>3. cache \in Texts BY <1>3
  <2> HIDE DEF rest
  <2>4. cache \o rest \in Texts /\ Len(cache \o rest) = Len(cache) + Len(rest)
    BY <2>2, <2>3, ConcatProperties DEF Texts
  <2>7. Len(rest) = Len(p) - n /\ Len(cache) \in Nat
    <3>1. Take(p, n) \in Texts /\ Len(Take(p, n)) = n BY <1>1, TakeFacts DEF Texts
    <3>2. Len(rest) \in Nat BY <2>2 DEF Texts
    <3>6. Len(Take(p, n) \o rest) = Len(Take(p, n)) + Len(rest)
      <4> DEFINE q == Take(p, n)
      <4>1. q \in Texts BY <3>1
      <4> HIDE DEF q
      <4>2. Len(q \o rest) = Len(q) + Len(rest) BY <2>2, <4>1, Begins DEF Texts
      <4> QED BY <4>2 DEF q
    <3>3. Len(cache) \in Nat BY <2>3 DEF Texts
    <3>4. Len(p) = n + Len(rest) BY <2>2, <3>1, <3>6
    <3>5. n \in Nat BY <1>1
    <3> QED BY <1>1, <3>2, <3>3, <3>4, <3>5
  <2>5. turn' \in Turns BY <1>1, <2>1, <2>4 DEF Turns
  <2>6. turn'.live = cache \o rest BY <2>1
  <2>8. Len(cache) = n => Len(turn'.live) = Len(p) + 0 BY <1>1, <2>4, <2>6, <2>7
  <2>9. cache = Take(p, n) => turn'.live = p BY <2>2, <2>6
  <2> QED BY <1>1, <1>2, <1>3, <2>1, <2>5, <2>8, <2>9
<1>4. CASE ~(0 < n /\ n < Len(p))
  <2>1. turn' = [pc |-> "run", prompt |-> p, gen |-> <<>>, live |-> p, own |-> FALSE]
    BY <1>4 DEF Start
  <2>2. turn' \in Turns BY <1>1, <2>1 DEF Turns
  <2>3. turn'.pc = "run" /\ turn'.prompt = p /\ turn'.gen = <<>> /\ turn'.live = p /\ ~turn'.own BY <2>1
  <2>4. Len(p) = Len(p) + Len(<<>>) BY <1>1, <1>2
  <2>5. Len(turn'.live) = Len(turn'.prompt) + Len(turn'.gen) BY <2>3, <2>4
  <2>6. turn'.live = turn'.prompt \o turn'.gen BY <1>2, <2>3
  <2> QED BY <1>1, <2>2, <2>3, <2>5, <2>6
<1> QED BY <1>3, <1>4

(* What a request starts from is its own prompt.                           *)
LEMMA StartsKeep ==
  ASSUME ReuseInv, NEW p \in Prompts,
         ColdStart(p) \/ Continue(p) \/ Trim(p) \/ Restore(p) \/ Refuse(p), UNCHANGED window
  PROVE  ReuseInv'
<1>1. /\ ReuseTyped /\ p \in Texts /\ Len(p) \in Nat /\ turns \in Nat /\ MaxTurns \in Nat
      /\ turn.pc = "idle" /\ turns' \in 0..MaxTurns /\ pending' = p /\ UNCHANGED <<lost, mishaps>>
  <2>1. p \in Texts BY PromptsSeq DEF Texts
  <2>2. Len(p) \in Nat BY <2>1 DEF Texts
  <2>3. Observe(p) BY DEF ColdStart, Continue, Trim, Restore, Refuse
  <2>4. ReuseTyped /\ turns \in Nat /\ MaxTurns \in Nat BY SizesNat DEF ReuseInv, ReuseTyped
  <2>5. turn.pc = "idle" /\ turns < MaxTurns /\ turns' = turns + 1 /\ pending' = p /\ UNCHANGED <<lost, mishaps>>
    BY <2>3 DEF Observe
  <2>6. turns' \in 0..MaxTurns BY <2>4, <2>5
  <2> QED BY <2>1, <2>2, <2>4, <2>5, <2>6
\* What is left to show of each way to start.
<1>2. ASSUME NEW n \in 0..Len(p), NEW cache, cache \in Texts \/ n = 0, Start(p, n, cache),
             ids' \in Texts \cup {None}, UNCHANGED stored,
             turn'.own => held' = turn'.live, ~turn'.own => held' \in Texts \cup {None},
             0 < n /\ n < Len(p) => Len(cache) = n /\ (~lost => cache = Take(p, n))
      PROVE  ReuseInv'
  <2>1. /\ turn' \in Turns /\ turn'.pc = "run" /\ turn'.prompt = p /\ turn'.gen = <<>>
        /\ turn'.own => 0 < n /\ n < Len(p)
        /\ (turn'.own => cache = Take(p, n)) => turn'.live = turn'.prompt \o turn'.gen
        /\ (turn'.own => Len(cache) = n) => Len(turn'.live) = Len(turn'.prompt) + Len(turn'.gen)
    BY <1>2, StartFacts
  <2>2. held' \in Texts \cup {None} BY <1>2, <2>1 DEF Turns
  <2>3. ReuseTyped' BY <1>1, <1>2, <2>1, <2>2 DEF ReuseTyped, stored
  <2>4. Tied' BY <1>2 DEF Tied
  <2>5. ~lost' => GeneratesFromPrompt' BY <1>1, <1>2, <2>1 DEF GeneratesFromPrompt
  <2>6. Labelled' /\ Measured' BY <1>2, <2>1 DEF Labelled, Measured
  <2>7. ~lost' => TrueMemo' /\ TrueDisk'
    BY <1>1, <1>2 DEF ReuseInv, TrueMemo, TrueDisk, stored
  <2> QED BY <2>3, <2>4, <2>5, <2>6, <2>7 DEF ReuseInv
<1>3. CASE ColdStart(p)
  <2>1. Start(p, 0, <<>>) /\ UNCHANGED <<ids, held, stored>> BY <1>3 DEF ColdStart
  <2>2. 0 \in 0..Len(p) BY <1>1
  <2>3. ~turn'.own BY <2>1 DEF Start
  <2> QED BY <1>1, <1>2, <2>1, <2>2, <2>3 DEF ReuseTyped
\* Where the label and the prompt part.
<1>4. ASSUME ~Cold(p)
      PROVE  /\ ids \in Texts /\ held \in Texts /\ Natural(p) \in 0..Len(p) /\ Natural(p) \in 0..Len(ids)
             /\ Take(ids, Natural(p)) = Take(p, Natural(p)) /\ Len(ids) \in Nat /\ Len(held) \in Nat
             /\ Len(ids) <= Len(held) /\ Natural(p) \in 0..Len(held)
             /\ ~lost => Take(held, Natural(p)) = Take(p, Natural(p))
  <2>1. held # None /\ ids # None BY <1>4 DEF Cold, Emptied, Natural
  <2>2. ids \in Texts /\ held \in Texts BY <1>1, <2>1 DEF ReuseTyped
  <2>3. Natural(p) = Shared(ids, p) BY <2>1 DEF Natural
  <2>4. /\ Natural(p) \in 0..Len(p) /\ Natural(p) \in 0..Len(ids)
        /\ Take(ids, Natural(p)) = Take(p, Natural(p))
    BY <1>1, <2>2, <2>3, SharedFacts DEF Texts
  <2>5. Len(ids) \in Nat /\ Len(held) \in Nat BY <2>2 DEF Texts
  <2>6. Len(ids) <= Len(held) /\ (~lost => Take(held, Len(ids)) = ids)
    BY <1>1, <2>1 DEF ReuseInv, Labelled, Measured
  <2>7. ~lost => Take(held, Natural(p)) = Take(p, Natural(p))
    BY <2>2, <2>4, <2>6, Shorter DEF Texts
  <2>8. Natural(p) \in 0..Len(held) BY <2>4, <2>5, <2>6
  <2> QED BY <2>2, <2>4, <2>5, <2>6, <2>7, <2>8
<1>5. CASE Continue(p)
  <2> DEFINE n == Natural(p)
  <2>1. /\ ~Cold(p) /\ n = Len(ids) /\ Len(held) <= n /\ Start(p, n, held)
        /\ held' = (IF turn'.own THEN turn'.live ELSE held) /\ UNCHANGED <<ids, stored>>
    BY <1>5 DEF Continue, Continues, Kept
  <2>2. n \in 0..Len(p) /\ held \in Texts /\ ids \in Texts BY <1>4, <2>1
  <2>3. Len(held) = n
    <3>1. Len(ids) <= Len(held) /\ Len(ids) \in Nat /\ Len(held) \in Nat BY <1>4, <2>1
    <3> HIDE DEF n
    <3> QED BY <2>1, <3>1
  <2>4. ~lost => held = Take(p, n)
    <3>1. ~lost => Take(held, n) = Take(p, n) BY <1>4, <2>1
    <3>2. Take(held, Len(held)) = held BY <2>2, SubSeqFull DEF Take, Texts
    <3> HIDE DEF n
    <3> QED BY <2>3, <3>1, <3>2
  <2> HIDE DEF n
  <2> QED BY <1>2, <2>1, <2>2, <2>3, <2>4
<1>6. CASE Trim(p)
  <2> DEFINE n == Natural(p)
             cache == Take(held, n)
  <2>1. /\ ~Cold(p) /\ Start(p, n, cache)
        /\ held' = (IF turn'.own THEN turn'.live ELSE held) /\ UNCHANGED <<ids, stored>>
    BY <1>6 DEF Trim, RollsBack, Kept
  <2>2. n \in 0..Len(p) /\ held \in Texts /\ ids \in Texts BY <1>4, <2>1
  <2>3. ~lost => cache = Take(p, n) BY <1>4, <2>1
  <2>4. cache \in Texts /\ Len(cache) = n
    <3>1. n \in 0..Len(held) BY <1>4, <2>1
    <3> HIDE DEF n
    <3> QED BY <2>2, <3>1, TakeFacts DEF Texts
  <2> HIDE DEF n, cache
  <2> QED BY <1>2, <2>1, <2>2, <2>3, <2>4
<1>7. CASE Restore(p)
  <2>1. ASSUME NEW s, s.ids \in Texts, s.data \in Texts, Len(s.data) = Len(s.ids),
               ~lost => s.data = s.ids, Fits(s, p), Adopt(s, p)
        PROVE  ReuseInv'
    <3> DEFINE n == Len(s.ids)
               cache == s.data
    <3>1. /\ Start(p, n, cache) /\ held' = turn'.live /\ ids' = s.ids
          /\ n < Len(p) /\ Take(p, n) = s.ids
      BY <2>1 DEF Adopt, Fits, ProperPrefix
    <3>2. n \in 0..Len(p) BY <1>1, <2>1, <3>1 DEF Texts
    <3>3. UNCHANGED stored BY <1>7 DEF Restore
    <3>4. /\ cache \in Texts /\ Len(cache) = n /\ (~lost => cache = Take(p, n))
          /\ ids' \in Texts
      BY <2>1, <3>1
    <3> HIDE DEF n, cache
    <3>5. turn'.live \in Texts BY <3>1, <3>2, <3>4, StartFacts DEF Turns
    <3> QED BY <1>2, <3>1, <3>2, <3>3, <3>4, <3>5
  <2>2. CASE InMemory(p) /\ Adopt(memo, p)
    <3>1. memo # None /\ memo \in Memos /\ Fits(memo, p) BY <1>1, <2>2 DEF InMemory, ReuseTyped
    <3>2. memo.ids \in Texts /\ memo.data \in Texts /\ Len(memo.data) = Len(memo.ids)
      BY <3>1 DEF Memos
    <3>3. ~lost => memo.data = memo.ids BY <3>1 DEF ReuseInv, TrueMemo
    <3> QED BY <2>1, <2>2, <3>1, <3>2, <3>3
  <2>3. CASE OnDisk(p) # {} /\ Adopt(disk[Longest(p)], p)
    <3> DEFINE s == disk[Longest(p)]
    <3>1. Longest(p) \in DOMAIN disk /\ Fits(s, p) BY <1>1, <2>3, LongestFits
    <3>2. disk \in Seq(Snaps) /\ (~lost => disk \in Seq(TrueSnaps)) BY <1>1 DEF ReuseInv, ReuseTyped, TrueDisk
    <3>3. s \in Snaps /\ (~lost => s \in TrueSnaps) BY <3>1, <3>2, DiskFacts
    <3>4. s.ids \in Texts /\ s.data \in Texts /\ Len(s.data) = Len(s.ids) /\ (~lost => s.data = s.ids)
      BY <3>3 DEF Snaps, TrueSnaps
    <3>5. Adopt(s, p) BY <2>3
    <3> HIDE DEF s
    <3> QED BY <2>1, <3>1, <3>4, <3>5
  <2> QED BY <1>7, <2>2, <2>3 DEF Restore
<1>8. CASE Refuse(p)
  <2>1. Start(p, 0, <<>>) /\ held' = <<>> /\ ids' = None /\ UNCHANGED stored BY <1>8 DEF Refuse
  <2>2. 0 \in 0..Len(p) /\ <<>> \in Texts BY <1>1, EmptySeq DEF Texts
  <2>3. ~turn'.own BY <2>1 DEF Start
  <2> QED BY <1>2, <2>1, <2>2, <2>3
<1> QED BY <1>3, <1>5, <1>6, <1>7, <1>8

(* One more token at the end of a reply.                                   *)
LEMMA OneMore ==
  ASSUME NEW s \in Texts, NEW u \in Texts, NEW x \in Token
  PROVE  /\ Append(u, x) \in Texts /\ Len(Append(u, x)) = Len(u) + 1
         /\ Append(s \o u, x) = s \o Append(u, x)
<1>1. <<x>> \in Seq(Token) /\ s \o u \in Seq(Token) BY ConcatProperties DEF Texts
<1>2. Append(u, x) = u \o <<x>> BY AppendIsConcat DEF Texts
<1>3. Append(s \o u, x) = (s \o u) \o <<x>> BY <1>1, AppendIsConcat
<1>4. (s \o u) \o <<x>> = s \o (u \o <<x>>) BY <1>1, ConcatAssociative DEF Texts
<1>5. Append(u, x) \in Texts /\ Len(Append(u, x)) = Len(u) + 1 BY DEF Texts
<1> QED BY <1>2, <1>3, <1>4, <1>5

(* The record of a request between two tokens, and when there is none.     *)
LEMMA TurnFacts ==
  ASSUME ReuseTyped
  PROVE  /\ turn \in Turns /\ turn.prompt \in Texts /\ turn.gen \in Texts /\ turn.live \in Texts
         /\ turn.own \in BOOLEAN /\ turn.pc \in {"idle", "run"}
         /\ NoTurn \in Turns /\ NoTurn.pc = "idle"
         /\ Prompts \subseteq Texts
         /\ Ahead \subseteq Texts
<1>1. <<>> \in Texts BY EmptySeq DEF Texts
<1>2. NoTurn \in Turns /\ NoTurn.pc = "idle" BY <1>1 DEF NoTurn, Turns
<1>3. \A t \in Token : <<t>> \in Texts BY DEF Texts
<1>4. Prompts \subseteq Texts BY PromptsSeq DEF Texts
<1>5. Ahead \subseteq Texts BY <1>1, <1>3 DEF Ahead
<1> QED BY <1>2, <1>4, <1>5 DEF ReuseTyped, Turns

(* Where no request runs and nothing that is kept changes its tokens.      *)
LEMMA Emptying ==
  ASSUME ReuseInv, turn' = turn \/ turn' = NoTurn, ids' = ids \/ ids' = None, held' = held \/ held' = None,
         turn'.pc = "idle", ids' = None \/ (ids' = ids /\ held' = held /\ turn.pc = "idle"),
         pending' \in Prompts \cup {None}, memo' = memo \/ memo' = None,
         \A T \in {Snaps, TrueSnaps} : disk \in Seq(T) => disk' \in Seq(T),
         persisted' \in Nat, written' \in 0..WriteTokens, lost' = lost,
         turns' = turns, mishaps' \in 0..MaxMishaps, window' = window
  PROVE  ReuseInv'
<1>1. ReuseTyped BY DEF ReuseInv
<1>2. turn' \in Turns /\ disk' \in Seq(Snaps) BY <1>1, TurnFacts DEF ReuseTyped
<1>3. ReuseTyped' BY <1>1, <1>2 DEF ReuseTyped
<1>4. Measured' BY DEF ReuseInv, Measured
<1>5. Tied' BY DEF Tied
<1>6. ASSUME ~lost PROVE GeneratesFromPrompt' /\ Labelled' /\ TrueMemo' /\ TrueDisk'
  <2>1. Labelled /\ TrueMemo /\ TrueDisk BY <1>6 DEF ReuseInv
  <2>2. Labelled' BY <2>1 DEF Labelled
  <2>3. TrueMemo' BY <2>1 DEF TrueMemo
  <2>4. TrueDisk' BY <2>1 DEF TrueDisk
  <2> QED BY <2>2, <2>3, <2>4 DEF GeneratesFromPrompt
<1> QED BY <1>3, <1>4, <1>5, <1>6 DEF ReuseInv

(* The clear requests, a reload, an interruption for memory, and the disk. *)
LEMMA EmptiesKeep ==
  ASSUME ReuseInv, UNCHANGED window,
         \/ \E p \in Prompts : DropSnapshot(p)
         \/ Pressed \/ ClearMemory \/ ClearDisk \/ Reload
  PROVE  ReuseInv'
<1>1. ReuseTyped /\ persisted \in Nat /\ written \in 0..WriteTokens /\ mishaps \in 0..MaxMishaps
      /\ pending \in Prompts \cup {None} /\ MaxMishaps \in Nat /\ WriteTokens \in Nat /\ NoTurn.pc = "idle"
  BY SizesNat, TurnFacts DEF ReuseInv, ReuseTyped
<1>2. mishaps < MaxMishaps /\ mishaps' = mishaps + 1 => mishaps' \in 0..MaxMishaps BY <1>1
<1>3. \A T : <<>> \in Seq(T) BY EmptySeq
<1>4. 0 \in 0..WriteTokens /\ 0 \in Nat BY <1>1
<1>5. ASSUME NEW p \in Prompts, DropSnapshot(p) PROVE ReuseInv'
  <2>1. OnDisk(p) # {} /\ disk' = RemoveAt(disk, Longest(p)) /\ turn.pc = "idle"
        /\ UNCHANGED <<retained, memo, persisted, written, turn, lost, turns, mishaps>>
    BY <1>5 DEF DropSnapshot
  <2>2. Longest(p) \in DOMAIN disk BY <1>1, <2>1, LongestFits, TurnFacts
  <2>3. \A T \in {Snaps, TrueSnaps} : disk \in Seq(T) => disk' \in Seq(T) BY <2>1, <2>2, DiskFacts
  <2> QED BY <1>1, <2>1, <2>3, Emptying DEF retained
<1>6. CASE Pressed BY <1>1, <1>2, <1>6, Emptying DEF Pressed, ResetState
<1>7. CASE ClearMemory BY <1>1, <1>7, Emptying DEF ClearMemory, ResetState
<1>8. CASE ClearDisk BY <1>1, <1>3, <1>4, <1>8, Emptying DEF ClearDisk, retained
<1>9. CASE Reload BY <1>1, <1>2, <1>4, <1>9, Emptying DEF Reload, ResetState
<1> QED BY <1>5, <1>6, <1>7, <1>8, <1>9

(* A snapshot on disk that rots still holds what it is named after.        *)
LEMMA SpoilKeeps ==
  ASSUME ReuseInv, UNCHANGED window, NEW k \in DOMAIN disk, Spoil(k) PROVE ReuseInv'
<1>1. ReuseTyped /\ mishaps \in 0..MaxMishaps /\ MaxMishaps \in Nat BY SizesNat DEF ReuseInv, ReuseTyped
<1>2. mishaps' \in 0..MaxMishaps BY <1>1 DEF Spoil
<1>3. ASSUME NEW T \in {Snaps, TrueSnaps}, disk \in Seq(T) PROVE disk' \in Seq(T)
  <2>1. Len(disk) \in Nat /\ DOMAIN disk = 1..Len(disk) /\ \A j \in 1..Len(disk) : disk[j] \in T BY <1>3
  <2>2. ASSUME NEW s \in T PROVE [s EXCEPT !.sound = FALSE] \in T
    <3>1. s \in Snaps /\ (T = TrueSnaps => s.data = s.ids) BY <2>2 DEF TrueSnaps
    <3> DEFINE u == [s EXCEPT !.sound = FALSE]
    <3>2. u \in [ids : Texts, data : Texts, sound : BOOLEAN] /\ u.ids = s.ids /\ u.data = s.data
      BY <3>1 DEF Snaps
    <3> HIDE DEF u
    <3>3. u \in Snaps BY <3>1, <3>2 DEF Snaps
    <3>4. T = TrueSnaps => u \in TrueSnaps BY <3>1, <3>2, <3>3 DEF TrueSnaps
    <3>5. u \in T BY <3>3, <3>4
    <3> QED BY <3>5 DEF u
  <2>3. disk' = [j \in 1..Len(disk) |-> IF j = k THEN [disk[j] EXCEPT !.sound = FALSE] ELSE disk[j]]
    BY <2>1 DEF Spoil
  <2>4. disk' \in [1..Len(disk) -> T] BY <2>1, <2>2, <2>3
  <2> QED BY <2>1, <2>4
<1>4. UNCHANGED <<ids, held, pending, memo, persisted, written, turn, lost, turns>> BY DEF Spoil, retained
<1>5. disk' \in Seq(Snaps) BY <1>1, <1>3 DEF ReuseTyped
<1>6. ReuseTyped' BY <1>1, <1>2, <1>4, <1>5 DEF ReuseTyped
<1>7. Measured' /\ Tied' BY <1>4 DEF ReuseInv, Measured, Tied
<1>8. ASSUME ~lost PROVE GeneratesFromPrompt' /\ Labelled' /\ TrueMemo' /\ TrueDisk'
  <2>1. GeneratesFromPrompt /\ Labelled /\ TrueMemo /\ TrueDisk BY <1>8 DEF ReuseInv
  <2>2. TrueDisk' BY <1>3, <2>1 DEF TrueDisk
  <2> QED BY <1>4, <2>1, <2>2 DEF GeneratesFromPrompt, Labelled, TrueMemo
<1> QED BY <1>4, <1>6, <1>7, <1>8 DEF ReuseInv

(* A token, and a start that is made again from nothing.                   *)
LEMMA TurnKeeps ==
  ASSUME ReuseInv, UNCHANGED window, Retry \/ \E t \in Token : Advance(t) PROVE ReuseInv'
<1>1. /\ ReuseTyped /\ mishaps \in 0..MaxMishaps /\ MaxMishaps \in Nat /\ Measured /\ Tied
      /\ turn.pc = "run" => turn.prompt \in Prompts /\ pending = turn.prompt
  BY SizesNat DEF ReuseInv, ReuseTyped
<1>2. CASE Retry
  <2>1. /\ turn.pc = "run" /\ turn.gen = <<>> /\ mishaps < MaxMishaps /\ mishaps' = mishaps + 1
        /\ ids' = None /\ held' = None /\ pending' = turn.prompt
        /\ turn' = [turn EXCEPT !.live = turn.prompt, !.own = FALSE]
        /\ UNCHANGED <<stored, lost, turns>>
    BY <1>2 DEF Retry, ResetState
  <2>2. turn' = [pc |-> "run", prompt |-> turn.prompt, gen |-> <<>>, live |-> turn.prompt, own |-> FALSE]
    BY <1>1, <2>1, TurnFacts DEF Turns
  <2>3. /\ turn'.pc = "run" /\ turn'.prompt = turn.prompt /\ turn'.gen = <<>> /\ turn'.live = turn.prompt
        /\ ~turn'.own
    BY <2>2
  <2>4. turn' \in Turns BY <1>1, <2>1, <2>2, TurnFacts DEF Turns
  <2>5. turn.prompt \o <<>> = turn.prompt /\ Len(turn.prompt) = Len(turn.prompt) + Len(<<>>)
    BY <1>1, TurnFacts, ConcatEmptySeq, EmptySeq DEF Texts
  <2>6. mishaps' \in 0..MaxMishaps BY <1>1, <2>1
  <2>7. ReuseTyped' BY <1>1, <2>1, <2>3, <2>4, <2>6 DEF ReuseTyped, stored
  <2>8. Measured' /\ Tied' BY <2>3, <2>5 DEF Measured, Tied
  <2>9. ~lost' => GeneratesFromPrompt' /\ Labelled' /\ TrueMemo' /\ TrueDisk'
    BY <2>1, <2>3, <2>5 DEF ReuseInv, GeneratesFromPrompt, Labelled, TrueMemo, TrueDisk, stored
  <2> QED BY <2>7, <2>8, <2>9 DEF ReuseInv
<1>3. ASSUME NEW t \in Token, Advance(t) PROVE ReuseInv'
  <2>1. /\ turn.pc = "run"
        /\ turn' = [turn EXCEPT !.gen = Append(turn.gen, t), !.live = Append(turn.live, t)]
        /\ held' = IF turn.own THEN turn'.live ELSE held
        /\ UNCHANGED <<ids, pending, stored, lost, turns, mishaps>>
    BY <1>3 DEF Advance
  <2>2. turn' = [pc |-> "run", prompt |-> turn.prompt, gen |-> Append(turn.gen, t),
                 live |-> Append(turn.live, t), own |-> turn.own]
    BY <1>1, <2>1, TurnFacts DEF Turns
  <2>3. /\ turn'.pc = "run" /\ turn'.prompt = turn.prompt /\ turn'.gen = Append(turn.gen, t)
        /\ turn'.live = Append(turn.live, t) /\ turn'.own = turn.own
    BY <2>2
  <2>4. /\ turn.prompt \in Texts /\ turn.gen \in Texts /\ turn.live \in Texts /\ turn.own \in BOOLEAN
    BY <1>1, TurnFacts
  <2>5. /\ Append(turn.gen, t) \in Texts /\ Len(Append(turn.gen, t)) = Len(turn.gen) + 1
        /\ Append(turn.prompt \o turn.gen, t) = turn.prompt \o Append(turn.gen, t) BY <2>4, OneMore, Zenon
  <2>6. Append(turn.live, t) \in Texts /\ Len(Append(turn.live, t)) = Len(turn.live) + 1
    BY <2>4, OneMore, Zenon
  <2>7. turn' \in Turns BY <2>2, <2>4, <2>5, <2>6 DEF Turns
  <2>8. held' \in Texts \cup {None} BY <1>1, <2>1, <2>3, <2>6 DEF ReuseTyped
  <2>9. ReuseTyped' BY <1>1, <2>1, <2>3, <2>7, <2>8 DEF ReuseTyped, stored
  <2>10. Measured'
    <3>1. Len(turn.live) = Len(turn.prompt) + Len(turn.gen) BY <1>1, <2>1 DEF Measured
    <3>2. Len(turn.prompt) \in Nat /\ Len(turn.gen) \in Nat BY <2>4 DEF Texts
    <3>4. Len(turn'.live) = Len(turn.live) + 1 /\ Len(turn'.gen) = Len(turn.gen) + 1
          /\ Len(turn'.prompt) = Len(turn.prompt)
      BY <2>3, <2>5, <2>6
    <3>6. \A m, n \in Nat : (m + n) + 1 = m + (n + 1) OBVIOUS
    <3>5. (Len(turn.prompt) + Len(turn.gen)) + 1 = Len(turn.prompt) + (Len(turn.gen) + 1)
      BY <3>2, <3>6, Zenon
    <3>3. Len(turn'.live) = Len(turn'.prompt) + Len(turn'.gen) BY <3>1, <3>4, <3>5
    <3> QED BY <2>3, <3>3 DEF Measured
  <2>11. Tied' BY <2>1, <2>3 DEF Tied
  <2>12. ~lost' => GeneratesFromPrompt' /\ Labelled' /\ TrueMemo' /\ TrueDisk'
    BY <2>1, <2>3, <2>5 DEF ReuseInv, GeneratesFromPrompt, Labelled, TrueMemo, TrueDisk, stored
  <2> QED BY <2>9, <2>10, <2>11, <2>12 DEF ReuseInv
<1> QED BY <1>2, <1>3

(* The end of a reply: what is kept of it, on disk too.                    *)
LEMMA PersistFacts ==
  ASSUME ReuseTyped, NEW s \in Texts, NEW data \in Texts, Len(data) = Len(s), Persist(s, data)
  PROVE  /\ disk' \in Seq(Snaps) /\ persisted' \in Nat /\ written' \in 0..WriteTokens
         /\ data = s /\ disk \in Seq(TrueSnaps) => disk' \in Seq(TrueSnaps)
<1>1. disk \in Seq(Snaps) /\ persisted \in Nat /\ written \in 0..WriteTokens /\ WriteTokens \in Nat
      /\ Len(s) \in Nat
  BY SizesNat DEF ReuseTyped, Texts
<1>2. CASE ~ShouldPersist(s) \/ ~Affordable(s) BY <1>1, <1>2 DEF Persist
<1>3. CASE ShouldPersist(s) /\ Affordable(s)
  <2> DEFINE rest == IF Same(s) = {} THEN disk ELSE RemoveAt(disk, CHOOSE k \in Same(s) : TRUE)
             it == [ids |-> s, data |-> data, sound |-> TRUE]
  <2>1. /\ disk' = Evict(Append(rest, it))
        /\ persisted' = Len(s) /\ written' = written + Len(s) /\ written + Len(s) <= WriteTokens
    BY <1>3 DEF Persist, Affordable
  <2>2. ASSUME NEW T, disk \in Seq(T), it \in T PROVE disk' \in Seq(T)
    <3>1. rest \in Seq(T)
      <4>1. CASE Same(s) = {} BY <2>2, <4>1
      <4>2. CASE Same(s) # {}
        <5>1. (CHOOSE k \in Same(s) : TRUE) \in DOMAIN disk BY <4>2 DEF Same
        <5>2. RemoveAt(disk, CHOOSE k \in Same(s) : TRUE) \in Seq(T) BY <2>2, <5>1, DiskFacts
        <5> QED BY <4>2, <5>2
      <4> QED BY <4>1, <4>2
    <3> HIDE DEF rest, it
    <3>2. Append(rest, it) \in Seq(T) /\ Append(rest, it) # <<>> BY <2>2, <3>1, AppendProperties
    <3>3. Evict(Append(rest, it)) \in Seq(T) BY <3>2, DiskFacts
    <3> QED BY <2>1, <3>3
  <2>3. it \in Snaps /\ it.data = data /\ it.ids = s BY DEF Snaps
  <2>4. data = s => it \in TrueSnaps BY <2>3 DEF TrueSnaps
  <2> HIDE DEF rest, it
  <2>5. disk' \in Seq(Snaps) BY <1>1, <2>2, <2>3
  <2>6. data = s /\ disk \in Seq(TrueSnaps) => disk' \in Seq(TrueSnaps) BY <2>2, <2>4
  <2>7. persisted' \in Nat /\ written' \in 0..WriteTokens BY <1>1, <2>1
  <2> QED BY <2>5, <2>6, <2>7
<1> QED BY <1>2, <1>3

(* A reply that ends labels the cache it used.                             *)
LEMMA CompleteKeeps ==
  ASSUME ReuseInv, UNCHANGED window, NEW x \in Ahead, Complete(x) PROVE ReuseInv'
<1> DEFINE s == turn.prompt \o turn.gen
           data == turn.live \o x
<1>1. /\ turn.pc = "run" /\ ids' = s /\ held' = data
      /\ IF ~Checkpoints \/ Len(data) # Len(s) THEN UNCHANGED stored ELSE Remember(s, data)
      /\ turn' = NoTurn /\ UNCHANGED <<pending, lost, turns, mishaps>>
  BY DEF Complete
<1>2. ReuseTyped /\ Measured /\ (~lost => turn.live = s /\ TrueMemo /\ TrueDisk)
  BY <1>1 DEF ReuseInv, GeneratesFromPrompt
<1>3. /\ turn.prompt \in Texts /\ turn.gen \in Texts /\ turn.live \in Texts /\ x \in Texts
      /\ turn' \in Turns /\ turn'.pc = "idle"
  BY <1>1, <1>2, TurnFacts
<1>4. s \in Texts /\ Len(s) = Len(turn.prompt) + Len(turn.gen) BY <1>3, Begins DEF Texts
<1>5. /\ data \in Texts /\ Len(turn.live) <= Len(data) /\ Take(data, Len(turn.live)) = turn.live
      /\ Len(data) = Len(turn.live) => data = turn.live
  BY <1>3, Begins DEF Texts
<1>6. Len(s) = Len(turn.live) BY <1>1, <1>2, <1>4 DEF Measured
<1> HIDE DEF s, data
<1>7. ~lost => Take(data, Len(s)) = s /\ (Len(data) = Len(s) => data = s) BY <1>2, <1>5, <1>6
<1>8. /\ memo' \in Memos \cup {None} /\ disk' \in Seq(Snaps) /\ persisted' \in Nat /\ written' \in 0..WriteTokens
      /\ ~lost => TrueMemo' /\ TrueDisk'
  <2>1. CASE UNCHANGED stored
    BY <1>2, <2>1 DEF stored, ReuseTyped, TrueMemo, TrueDisk
  <2>2. CASE Len(data) = Len(s) /\ memo' = None /\ UNCHANGED <<disk, persisted, written>>
    BY <1>2, <2>2 DEF ReuseTyped, TrueMemo, TrueDisk
  <2>3. CASE Len(data) = Len(s) /\ memo' = [ids |-> s, data |-> data] /\ Persist(s, data)
    <3>1. /\ disk' \in Seq(Snaps) /\ persisted' \in Nat /\ written' \in 0..WriteTokens
          /\ data = s /\ disk \in Seq(TrueSnaps) => disk' \in Seq(TrueSnaps)
      BY <1>2, <1>4, <1>5, <2>3, PersistFacts
    <3>2. memo'.ids = s /\ memo'.data = data /\ memo' \in Memos BY <1>4, <1>5, <2>3 DEF Memos
    <3> QED BY <1>2, <1>7, <2>3, <3>1, <3>2 DEF TrueMemo, TrueDisk
  <2> QED BY <1>1, <2>1, <2>2, <2>3 DEF Remember
<1>9. ReuseTyped' BY <1>1, <1>2, <1>3, <1>4, <1>5, <1>8 DEF ReuseTyped
<1>10. Measured' /\ Tied' BY <1>1, <1>3, <1>5, <1>6 DEF Measured, Tied
<1>11. ~lost' => GeneratesFromPrompt' /\ Labelled' BY <1>1, <1>3, <1>7 DEF GeneratesFromPrompt, Labelled
<1> QED BY <1>1, <1>8, <1>9, <1>10, <1>11 DEF ReuseInv

(* An interruption: the label that is put on the retained cache is its own *)
(* when the request used it, or the loss is on record.                     *)
LEMMA SettleKeeps ==
  ASSUME ReuseInv, UNCHANGED window, NEW x \in Ahead, Settle(x) PROVE ReuseInv'
<1> DEFINE after == IF turn.own THEN held \o x ELSE held
           proved == pending # None /\ held # None /\ Len(after) = Len(pending) + Len(turn.gen)
<1>1. /\ turn.pc = "run" /\ mishaps < MaxMishaps /\ mishaps' = mishaps + 1
      /\ IF proved THEN /\ ids' = pending \o turn.gen /\ held' = after
                        /\ lost' = (lost \/ ~turn.own)
                   ELSE ids' = None /\ held' = None /\ lost' = lost
      /\ pending' = None /\ turn' = NoTurn /\ UNCHANGED <<stored, turns>>
  BY DEF Settle, ResetState
<1>2. ReuseTyped /\ Measured /\ Tied /\ lost \in BOOLEAN /\ mishaps \in 0..MaxMishaps /\ MaxMishaps \in Nat
      /\ (~lost => turn.live = turn.prompt \o turn.gen /\ TrueMemo /\ TrueDisk)
  BY <1>1, SizesNat DEF ReuseInv, GeneratesFromPrompt, ReuseTyped
<1>3. /\ turn.prompt \in Texts /\ turn.gen \in Texts /\ turn.live \in Texts /\ x \in Texts
      /\ turn.own \in BOOLEAN /\ turn' \in Turns /\ turn'.pc = "idle" /\ pending = turn.prompt
  BY <1>1, <1>2, TurnFacts DEF ReuseTyped
<1>4. mishaps' \in 0..MaxMishaps BY <1>1, <1>2
<1>5. ASSUME lost' => lost \in BOOLEAN, lost' \in BOOLEAN, ~lost' => ~lost, ids' \in Texts \cup {None},
             held' \in Texts \cup {None},
             ids' # None /\ held' # None =>
               Len(ids') <= Len(held') /\ (~lost' => Take(held', Len(ids')) = ids')
      PROVE  ReuseInv'
  <2>1. ReuseTyped' BY <1>1, <1>2, <1>3, <1>4, <1>5 DEF ReuseTyped, stored
  <2>2. Measured' /\ Tied' BY <1>3, <1>5 DEF Measured, Tied
  <2>3. ~lost' => GeneratesFromPrompt' /\ Labelled' BY <1>3, <1>5 DEF GeneratesFromPrompt, Labelled
  <2>4. ~lost' => TrueMemo' /\ TrueDisk' BY <1>1, <1>2, <1>5 DEF TrueMemo, TrueDisk, stored
  <2> QED BY <2>1, <2>2, <2>3, <2>4 DEF ReuseInv
<1>6. CASE ~proved BY <1>1, <1>2, <1>5, <1>6
<1>7. CASE proved
  <2> DEFINE s == turn.prompt \o turn.gen
  <2>1. /\ ids' = s /\ held' = after /\ lost' = (lost \/ ~turn.own)
        /\ held # None /\ Len(after) = Len(turn.prompt) + Len(turn.gen)
    BY <1>1, <1>3, <1>7
  <2>2. s \in Texts /\ Len(s) = Len(turn.prompt) + Len(turn.gen) /\ Len(s) \in Nat
    <3>1. s \in Texts /\ Len(s) = Len(turn.prompt) + Len(turn.gen) BY <1>3, Begins DEF Texts
    <3>2. Len(turn.prompt) \in Nat /\ Len(turn.gen) \in Nat BY <1>3 DEF Texts
    <3>4. \A m, n \in Nat : m + n \in Nat OBVIOUS
    <3>3. Len(turn.prompt) + Len(turn.gen) \in Nat BY <3>2, <3>4, Zenon
    <3> HIDE DEF s
    <3> QED BY <3>1, <3>3
  <2>3. held \in Texts BY <1>2, <2>1 DEF ReuseTyped
  <2>4. after \in Texts
    <3>1. turn.own => held \o x \in Texts BY <1>3, <2>3, Begins DEF Texts
    <3> QED BY <2>3, <3>1
  <2>5. ASSUME ~lost' PROVE Take(after, Len(s)) = s
    <3>1. turn.own /\ ~lost BY <2>1, <2>5
    <3>2. held = s BY <1>1, <1>2, <3>1 DEF Tied
    <3>3. after = s \o x BY <3>1, <3>2
    <3> HIDE DEF s, after
    <3>4. Take(s \o x, Len(s)) = s BY <1>3, <2>2, Begins DEF Texts
    <3> QED BY <3>3, <3>4
  <2> HIDE DEF s, after
  <2>6. Len(s) <= Len(after) BY <2>1, <2>2
  <2> QED BY <1>2, <1>3, <1>5, <2>1, <2>2, <2>4, <2>5, <2>6
<1> QED BY <1>6, <1>7

(* The invariant of the reuse holds at the start and through its steps.    *)
LEMMA ReuseInitHolds == ReuseInit => ReuseInv
<1> SUFFICES ASSUME ReuseInit PROVE ReuseInv OBVIOUS
<1>1. <<>> \in Texts /\ (\A T : <<>> \in Seq(T)) BY EmptySeq DEF Texts
<1>2. NoTurn \in Turns /\ NoTurn.pc = "idle" BY <1>1 DEF NoTurn, Turns
<1>3. 0 \in 0..WriteTokens /\ 0 \in 0..MaxTurns /\ 0 \in 0..MaxMishaps BY SizesNat
<1>4. ReuseTyped BY <1>1, <1>2, <1>3 DEF ReuseInit, ReuseTyped
<1>5. Measured /\ Tied BY <1>2 DEF ReuseInit, Measured, Tied
<1>6. GeneratesFromPrompt /\ Labelled /\ TrueMemo /\ TrueDisk
  BY <1>1, <1>2 DEF ReuseInit, GeneratesFromPrompt, Labelled, TrueMemo, TrueDisk
<1> QED BY <1>4, <1>5, <1>6 DEF ReuseInv

(* Every step keeps the invariant.                                         *)
LEMMA ReuseNextHolds == ReuseInv /\ [ReuseNext]_reuseVars => ReuseInv'
<1>1. ASSUME ReuseInv, ReuseNext PROVE ReuseInv'
  <2>1. UNCHANGED window /\ ReuseStep BY <1>1 DEF ReuseNext
  <2> QED BY <1>1, <2>1, StartsKeep, EmptiesKeep, SpoilKeeps, TurnKeeps, CompleteKeeps, SettleKeeps
          DEF ReuseStep
<1>2. ASSUME ReuseInv, UNCHANGED reuseVars PROVE ReuseInv'
  BY <1>2 DEF ReuseInv, ReuseTyped, Measured, Tied, GeneratesFromPrompt, Labelled, TrueMemo, TrueDisk,
     reuseVars, retained, stored
<1> QED BY <1>1, <1>2

(* What the invariant says of the properties.                              *)
LEMMA ReusePromises == ReuseInv => ReuseTypeOK /\ LabelsTrue
<1> SUFFICES ASSUME ReuseInv PROVE ReuseTypeOK /\ LabelsTrue OBVIOUS
<1>1. ReuseTyped /\ (~lost => GeneratesFromPrompt /\ TrueMemo /\ TrueDisk) BY DEF ReuseInv
<1>2. \A k \in DOMAIN disk : disk[k] \in Snaps /\ (~lost => disk[k] \in TrueSnaps)
  BY <1>1, DiskFacts DEF ReuseTyped, TrueDisk
<1>3. ReuseTypeOK BY <1>1, <1>2 DEF ReuseTyped, ReuseTypeOK, Texts, Turns, Snaps, Memos
<1>4. LabelsTrue BY <1>1, <1>2 DEF LabelsTrue, TrueMemo, TrueSnaps
<1> QED BY <1>3, <1>4
-----------------------------------------------------------------------------
(* The three caches together.                                              *)
CachesInv == KVInv /\ SnapTyped /\ ReuseInv

(* The invariants of the three caches hold together.                       *)
LEMMA CachesHold ==
  /\ Init => CachesInv
  /\ CachesInv /\ [Next]_<<kind, kvVars, snapVars, reuseVars>> => CachesInv'
<1>1. Init => CachesInv BY KVInitHolds, SnapInitHolds, ReuseInitHolds DEF Init, CachesInv
<1>2. ASSUME CachesInv, [Next]_<<kind, kvVars, snapVars, reuseVars>> PROVE CachesInv'
  <2>1. [KVNext]_kvVars /\ [SnapNext]_snapVars /\ [ReuseNext]_reuseVars BY <1>2 DEF Next
  <2>2. KVInv' /\ ReuseInv' BY <1>2, <2>1, KVNextHolds, ReuseNextHolds DEF CachesInv
  <2>3. SnapTyped'
    <3>1. CASE SnapNext BY <1>2, <3>1, SnapTypedKeeps DEF CachesInv
    <3>2. CASE UNCHANGED snapVars BY <1>2, <3>2 DEF CachesInv, SnapTyped, snapVars
    <3> QED BY <2>1, <3>1, <3>2
  <2> QED BY <2>2, <2>3 DEF CachesInv
<1> QED BY <1>1, <1>2

(* The disk of a worker that is alone with its directory.                  *)
LEMMA SnapHolds ==
  ASSUME NEW me, Worker = {me}
  PROVE  SnapInv /\ [SnapNext]_snapVars => SnapInv'
<1>1. ASSUME SnapInv, SnapNext PROVE SnapInv'
  BY <1>1, SnapTypedKeeps, NotedKeeps, GhostlessKeeps, WithinKeeps DEF SnapInv
<1>2. ASSUME SnapInv, UNCHANGED snapVars PROVE SnapInv'
  BY <1>2 DEF SnapInv, SnapTyped, Noted, NotedBy, Ghostless, GhostlessBy, FewBad, Fresh, Within, WithinBy,
     Stray, Entries, Stocked, Candidate, Own, snapVars
<1> QED BY <1>1, <1>2

(* Type correctness, for any prompts, workers, budgets and bounds.         *)
THEOREM TypeCorrect == Spec => []TypeOK
<1>1. CachesInv => TypeOK BY KVPromises, SnapPromises, ReusePromises DEF CachesInv, TypeOK
<1> QED BY <1>1, CachesHold, PTL DEF Spec

(* The SSD tier of the paged cache serves a request the first blocks of    *)
(* its own prompt, whole ones, as many as it asked for or enough of them.  *)
THEOREM ServedFromSound == Spec => []ServedSound
<1>1. CachesInv => ServedSound BY KVPromises DEF CachesInv
<1> QED BY <1>1, CachesHold, PTL DEF Spec

(* Every restore that fails has cost a fault of the disk or a removal of   *)
(* its tree: what was quarantined is not met again.                        *)
THEOREM FailuresArePaid == Spec => []FailuresPaid
<1>1. CachesInv => FailuresPaid BY KVPromises DEF CachesInv
<1> QED BY <1>1, CachesHold, PTL DEF Spec

(* As long as no cache was relabelled by a request that did not use it, a  *)
(* reply of mlx-vlm continues its own prompt, and every snapshot holds     *)
(* the tokens it is named after.                                           *)
THEOREM LabelsAreTrue == Spec => []LabelsTrue
<1>1. CachesInv => LabelsTrue BY ReusePromises DEF CachesInv
<1> QED BY <1>1, CachesHold, PTL DEF Spec

(* A worker that is alone with its directory keeps both tiers of disk      *)
(* within their budgets, and an index that lists what is there.            *)
THEOREM DiskIsKept == ASSUME NEW me, Worker = {me} PROVE Spec => []DiskKept
<1> DEFINE Inv == KVInv /\ SnapInv
<1>1. Init => Inv BY KVInitHolds, SnapInitHolds DEF Init, SnapInv
<1>2. Inv /\ [Next]_<<kind, kvVars, snapVars, reuseVars>> => Inv'
  <2> SUFFICES ASSUME Inv, [Next]_<<kind, kvVars, snapVars, reuseVars>> PROVE Inv' OBVIOUS
  <2>1. [KVNext]_kvVars /\ [SnapNext]_snapVars BY DEF Next
  <2> QED BY <2>1, KVNextHolds, SnapHolds
<1>3. Inv => DiskKept BY KVPromises, SnapPromises DEF DiskKept
<1> QED BY <1>1, <1>2, <1>3, PTL DEF Spec
=============================================================================
