---------------------------- MODULE PromptProofs -----------------------------
(***************************************************************************)
(* Proofs about a request (PromptPlan, composed with its reply by          *)
(* MCReplies), for every value of the constants.  The types first; then    *)
(* what a prompt still owes to the client's conversation (Kept), which     *)
(* every replacement of a part of it keeps, and the steps of the handler   *)
(* and of the planner as such replacements.                                *)
(***************************************************************************)
EXTENDS RepliesProofs

-----------------------------------------------------------------------------
(* The messages of a prompt.                                               *)
Word == STRING \cup {"system", "tool", "plain", "none", "replaced", "extended"}
MsgSet == [role : Word, text : Word, image : BOOLEAN, calls : BOOLEAN, list : BOOLEAN, size : Nat, at : Nat, of : SUBSET Nat]
(* A message of the program's own, for the places in `of`.                 *)
IsNote(b, of) == b \in MsgSet /\ b.role = "system" /\ b.image = FALSE /\ b.calls = FALSE /\ b.at = 0 /\ b.of = of

(* What a note and a translated message are.                               *)
LEMMA NoteIs ==
  ASSUME NEW size \in Nat, NEW of \in SUBSET Nat
  PROVE  IsNote(Note(size, of), of) /\ Note(size, of).size = size /\ Note(size, of).text = "plain"
<1> DEFINE m == Message("system", "plain", FALSE, FALSE, FALSE)
<1>1. m \in MsgSet /\ m.role = "system" /\ m.text = "plain" /\ m.image = FALSE /\ m.calls = FALSE /\ m.at = 0
  <2>1. PICK e : e = {} OBVIOUS
  <2>2. m = [role |-> "system", text |-> "plain", image |-> FALSE, calls |-> FALSE, list |-> FALSE, size |-> 2, at |-> 0, of |-> e]
    BY <2>1 DEF Message
  <2>3. e \in SUBSET Nat BY <2>1
  <2> HIDE DEF m
  <2>4. "system" \in Word /\ "plain" \in Word BY DEF Word
  <2>5. m \in MsgSet BY <2>2, <2>3, <2>4 DEF MsgSet
  <2> QED BY <2>2, <2>5
<1>2. Note(size, of) = [[m EXCEPT !.size = size] EXCEPT !.of = of]
  <2>1. Note(size, of) = [m EXCEPT !.size = size, !.of = of] BY DEF Note
  <2> HIDE DEF m
  <2> QED BY <1>1, <2>1 DEF MsgSet
<1> HIDE DEF m
<1>3. PICK d : d = [m EXCEPT !.size = size] OBVIOUS
<1>4. d \in MsgSet /\ d.role = "system" /\ d.text = "plain" /\ d.image = FALSE /\ d.calls = FALSE /\ d.at = 0 /\ d.size = size
  BY <1>1, <1>3 DEF MsgSet
<1>5. PICK e : e = [d EXCEPT !.of = of] OBVIOUS
<1>6. e \in MsgSet /\ e.role = "system" /\ e.text = "plain" /\ e.image = FALSE /\ e.calls = FALSE /\ e.at = 0
      /\ e.size = size /\ e.of = of
  BY <1>4, <1>5 DEF MsgSet
<1> QED BY <1>2, <1>3, <1>5, <1>6 DEF IsNote

(* Messages with their places.                                             *)
LEMMA NumberedIs ==
  ASSUME NEW ms \in Seq(MsgSet)
  PROVE  /\ Numbered(ms) \in Seq(MsgSet) /\ Len(Numbered(ms)) = Len(ms)
         /\ \A i \in 1..Len(ms) :
              /\ Numbered(ms)[i].at = i /\ Numbered(ms)[i].role = ms[i].role /\ Numbered(ms)[i].text = ms[i].text
              /\ Numbered(ms)[i].image = ms[i].image /\ Numbered(ms)[i].calls = ms[i].calls
              /\ Numbered(ms)[i].list = ms[i].list /\ Numbered(ms)[i].of = ms[i].of
<1> DEFINE n == Len(ms)
           s == Numbered(ms)
<1>1. n \in Nat /\ DOMAIN ms = 1..n /\ \A i \in 1..n : ms[i] \in MsgSet OBVIOUS
<1>2. s = [i \in 1..n |-> [ms[i] EXCEPT !.at = i]] BY <1>1 DEF Numbered
<1> HIDE DEF s, n
<1>3. ASSUME NEW i \in 1..n
      PROVE  /\ s[i] \in MsgSet
             /\ s[i].at = i /\ s[i].role = ms[i].role /\ s[i].text = ms[i].text
             /\ s[i].image = ms[i].image /\ s[i].calls = ms[i].calls /\ s[i].list = ms[i].list /\ s[i].of = ms[i].of
  <2>1. PICK m : m = ms[i] OBVIOUS
  <2>2. m \in MsgSet /\ i \in Nat BY <1>1, <1>3, <2>1
  <2>3. s[i] = [m EXCEPT !.at = i] BY <1>2, <1>3, <2>1
  <2> QED BY <2>1, <2>2, <2>3 DEF MsgSet
<1>4. s \in [1..n -> MsgSet] BY <1>2, <1>3
<1>5. s \in Seq(MsgSet) /\ Len(s) = n BY <1>1, <1>4, SeqFrom
<1> QED BY <1>3, <1>5 DEF s, n

(* The images of messages put together.                                    *)
LEMMA ImagesJoin ==
  ASSUME NEW x \in Seq(MsgSet), NEW y \in Seq(MsgSet)
  PROVE  ImagesIn(x \o y) = ImagesIn(x) + ImagesIn(y) /\ ImagesIn(x) \in Nat /\ ImagesIn(y) \in Nat
<1> DEFINE p == Len(x)
           q == Len(y)
           z == x \o y
           A == {i \in 1..p : x[i].image}
           B == {i \in 1..q : y[i].image}
           C == {i \in 1..(p + q) : z[i].image}
           D == {i + p : i \in B}
<1>1. p \in Nat /\ q \in Nat /\ DOMAIN x = 1..p /\ DOMAIN y = 1..q OBVIOUS
<1>2. z \in Seq(MsgSet) /\ Len(z) = p + q /\ \A i \in 1..(p + q) : z[i] = IF i <= p THEN x[i] ELSE y[i - p]
  BY ConcatProperties
<1>3. DOMAIN z = 1..(p + q)
  <2> HIDE DEF z, p, q
  <2> QED BY <1>2
<1>4. ImagesIn(x) = Cardinality(A) /\ ImagesIn(y) = Cardinality(B) /\ ImagesIn(z) = Cardinality(C)
  BY <1>1, <1>3 DEF ImagesIn
<1> HIDE DEF z, p, q
<1>5. IsFiniteSet(A) /\ IsFiniteSet(B)
  <2>1. 1 \in Int /\ p \in Int /\ q \in Int BY <1>1
  <2>2. IsFiniteSet(1..p) /\ IsFiniteSet(1..q) BY <2>1, FS_Interval, Zenon
  <2>3. A \subseteq 1..p /\ B \subseteq 1..q OBVIOUS
  <2> HIDE DEF A, B
  <2> QED BY <2>2, <2>3, FS_Subset
<1>6. C = A \cup D
  <2>1. ASSUME NEW i \in C PROVE i \in A \cup D
    <3>1. i \in 1..(p + q) /\ z[i].image OBVIOUS
    <3>2. CASE i <= p
      <4>1. i \in 1..p /\ z[i] = x[i] BY <1>1, <1>2, <3>1, <3>2
      <4> QED BY <3>1, <4>1
    <3>3. CASE ~(i <= p)
      <4>1. i - p \in 1..q /\ z[i] = y[i - p] /\ i = (i - p) + p BY <1>1, <1>2, <3>1, <3>3
      <4> QED BY <3>1, <4>1
    <3> QED BY <3>2, <3>3
  <2>2. ASSUME NEW i \in A PROVE i \in C
    <3>1. i \in 1..(p + q) /\ i <= p BY <1>1
    <3> QED BY <1>2, <3>1
  <2>3. ASSUME NEW i \in D PROVE i \in C
    <3>1. PICK j \in B : i = j + p OBVIOUS
    <3>2. i \in 1..(p + q) /\ ~(i <= p) /\ i - p = j BY <1>1, <3>1
    <3> QED BY <1>2, <3>1, <3>2
  <2> QED BY <2>1, <2>2, <2>3
<1>7. A \cap D = {}
  <2> SUFFICES ASSUME NEW i \in A, i \in D PROVE FALSE OBVIOUS
  <2>1. PICK j \in B : i = j + p OBVIOUS
  <2> QED BY <1>1, <2>1
<1>8. IsFiniteSet(D) /\ Cardinality(D) = Cardinality(B)
  <2> DEFINE f == [i \in B |-> i + p]
  <2>1. f \in [B -> D] OBVIOUS
  <2>2. \A i, j \in B : f[i] = f[j] => i = j BY <1>1
  <2>3. \A d \in D : \E i \in B : f[i] = d OBVIOUS
  <2> HIDE DEF f, B, D
  <2>4. f \in Injection(B, D)
    <3>1. DOMAIN f = B BY <2>1
    <3> QED BY <2>1, <2>2, <3>1 DEF Injection, IsInjective
  <2>5. f \in Surjection(B, D) BY <2>1, <2>3 DEF Surjection
  <2> QED BY <1>5, <2>4, <2>5, FS_Surjection
<1>9. Cardinality(A) \in Nat /\ Cardinality(B) \in Nat
  <2> HIDE DEF A, B
  <2> QED BY <1>5, FS_CardinalityType
<1>10. Cardinality(C) = Cardinality(A) + Cardinality(B)
  <2> HIDE DEF A, B, C, D
  <2>1. Cardinality(A \cup D) = Cardinality(A) + Cardinality(D) - Cardinality(A \cap D) BY <1>5, <1>8, FS_Union
  <2>2. Cardinality(A \cap D) = 0 BY <1>7, FS_EmptySet
  <2> QED BY <1>6, <1>8, <1>9, <2>1, <2>2
<1> QED BY <1>4, <1>9, <1>10 DEF z

(* Messages without any have none.                                         *)
LEMMA NoImages ==
  ASSUME NEW ms, \A i \in DOMAIN ms : ms[i].image = FALSE
  PROVE  ImagesIn(ms) = 0
<1>1. {i \in DOMAIN ms : ms[i].image} = {} OBVIOUS
<1> QED BY <1>1, FS_EmptySet DEF ImagesIn

(* Sizes add up to a number.                                               *)
LEMMA TotalNat ==
  ASSUME NEW ms \in Seq(MsgSet)
  PROVE  Total(ms) \in Nat
<1> DEFINE n == Len(ms)
           D == DOMAIN ms
           g == [i \in 1..n |-> ms[i].size]
           Is(it) == it = [s \in SUBSET D |-> IF s = {} THEN 0 ELSE it[s \ {Max(s)}] + ms[Max(s)].size]
           it == CHOOSE it : Is(it)
           step == [i \in 1..n |-> [v \in Nat |-> v + g[i]]]
<1>1. n \in Nat /\ D = 1..n /\ g \in [1..n -> Nat] /\ \A i \in 1..n : g[i] = ms[i].size
  <2>1. n \in Nat /\ D = 1..n /\ \A i \in 1..n : ms[i] \in MsgSet OBVIOUS
  <2>2. \A m \in MsgSet : m.size \in Nat BY DEF MsgSet
  <2> QED BY <2>1, <2>2
<1>2. Total(ms) = it[D] BY DEF Total, FoldLeft, MapThenFoldSet
<1>3. \A i \in 1..n : \A v \in Nat : step[i][v] = v + g[i] OBVIOUS
<1> HIDE DEF step, n, g
<1>4. PICK V, b : V = Nat /\ b = 0 OBVIOUS
<1>5. StepsIn(step, 1..n, V) /\ b \in V
  <2>1. ASSUME NEW i \in 1..n, NEW v \in Nat PROVE step[i][v] \in Nat
    <3>1. PICK d : d = g[i] OBVIOUS
    <3>2. d \in Nat BY <1>1, <3>1
    <3>3. step[i][v] = v + d BY <1>3, <3>1
    <3> QED BY <3>2, <3>3
  <2> QED BY <1>4, <2>1 DEF StepsIn
<1>6. \E k : Is(k)
  <2>1. PICK k : MaxFold(k, n, b, V, step) BY <1>1, <1>5, FoldFunctionExists
  <2>2. \A s \in SUBSET D : k[s] = IF s = {} THEN 0 ELSE k[s \ {Max(s)}] + ms[Max(s)].size
    <3> TAKE s \in SUBSET D
    <3>0. s \in SUBSET (1..n) BY <1>1
    <3>1. CASE s = {} BY <1>4, <2>1, <3>0, <3>1 DEF MaxFold
    <3>2. CASE s # {}
      <4>1. Max(s) \in 1..n BY <1>1, <3>0, <3>2, MaxFacts
      <4>2. k[s \ {Max(s)}] \in Nat BY <1>4, <2>1, <3>0 DEF MaxFold
      <4>3. k[s] = step[Max(s)][k[s \ {Max(s)}]] BY <2>1, <3>0, <3>2 DEF MaxFold
      <4> QED BY <1>1, <1>3, <3>2, <4>1, <4>2, <4>3
    <3> QED BY <3>1, <3>2
  <2>3. k = [s \in SUBSET D |-> k[s]] BY <1>1, <2>1 DEF MaxFold
  <2>4. Is(k) BY <2>2, <2>3
  <2> QED BY <2>4
<1>7. Is(it) BY <1>6
<1> HIDE DEF it
<1>8. \A s \in SUBSET (1..n) : it[s] = IF s = {} THEN b ELSE it[s \ {Max(s)}] + g[Max(s)]
  <2> TAKE s \in SUBSET (1..n)
  <2>1. it[s] = IF s = {} THEN 0 ELSE it[s \ {Max(s)}] + ms[Max(s)].size BY <1>1, <1>7
  <2>2. CASE s = {} BY <1>4, <2>1, <2>2
  <2>3. CASE s # {}
    <3>1. Max(s) \in 1..n BY <1>1, <2>3, MaxFacts
    <3> QED BY <1>1, <2>1, <2>3, <3>1
  <2> QED BY <2>2, <2>3
<1>9. Folds(it, n, b, V, step)
  <2>1. it[{}] = b BY <1>8
  <2>2. ASSUME NEW s \in SUBSET (1..n), s # {}, it[s \ {Max(s)}] \in V
        PROVE  it[s] = step[Max(s)][it[s \ {Max(s)}]]
    <3>1. Max(s) \in 1..n BY <1>1, <2>2, MaxFacts
    <3> QED BY <1>3, <1>4, <1>8, <2>2, <3>1
  <2> QED BY <2>1, <2>2 DEF Folds
<1>10. PICK f : Through(f, n, b, V, step) /\ it[1..n] = f[n]
  <2> HIDE DEF D
  <2> QED BY <1>1, <1>5, <1>9, FoldGoesThrough
<1>11. f[n] \in Nat BY <1>1, <1>4, <1>10 DEF Through
<1> QED BY <1>1, <1>2, <1>10, <1>11
-----------------------------------------------------------------------------
(* A prompt of three parts, the middle one about to be replaced.           *)
Joined(W, x, r, y) ==
  /\ x \in Seq(MsgSet) /\ r \in Seq(MsgSet) /\ y \in Seq(MsgSet) /\ W \in Seq(MsgSet)
  /\ Len(W) = Len(x) + Len(r) + Len(y)
  /\ \A i \in 1..Len(x) : W[i] = x[i]
  /\ \A i \in 1..Len(r) : W[Len(x) + i] = r[i]
  /\ \A i \in 1..Len(y) : W[Len(x) + Len(r) + i] = y[i]

(* Parts joined are such a prompt.                                         *)
LEMMA JoinsAre ==
  ASSUME NEW x \in Seq(MsgSet), NEW r \in Seq(MsgSet), NEW y \in Seq(MsgSet)
  PROVE  Joined((x \o r) \o y, x, r, y)
<1>1. \A v1, v2 \in Seq(MsgSet) :
        /\ v1 \o v2 \in Seq(MsgSet) /\ Len(v1 \o v2) = Len(v1) + Len(v2)
        /\ \A i \in 1..(Len(v1) + Len(v2)) : (v1 \o v2)[i] = IF i <= Len(v1) THEN v1[i] ELSE v2[i - Len(v1)]
  BY ConcatProperties
<1>2. PICK u : u = x \o r OBVIOUS
<1>3. PICK w : w = u \o y OBVIOUS
<1>4. Len(x) \in Nat /\ Len(r) \in Nat /\ Len(y) \in Nat OBVIOUS
<1>5. /\ u \in Seq(MsgSet) /\ Len(u) = Len(x) + Len(r)
      /\ \A i \in 1..(Len(x) + Len(r)) : u[i] = IF i <= Len(x) THEN x[i] ELSE r[i - Len(x)]
  BY <1>1, <1>2
<1>6. /\ w \in Seq(MsgSet) /\ Len(w) = Len(u) + Len(y)
      /\ \A i \in 1..(Len(u) + Len(y)) : w[i] = IF i <= Len(u) THEN u[i] ELSE y[i - Len(u)]
  BY <1>1, <1>3, <1>5
<1>7. ASSUME NEW i \in 1..Len(x) PROVE w[i] = x[i]
  <2>1. i \in 1..(Len(x) + Len(r)) /\ i \in 1..(Len(u) + Len(y)) /\ i <= Len(u) /\ i <= Len(x) BY <1>4, <1>5
  <2> QED BY <1>5, <1>6, <2>1
<1>8. ASSUME NEW i \in 1..Len(r) PROVE w[Len(x) + i] = r[i]
  <2>1. PICK j : j = Len(x) + i OBVIOUS
  <2>2. j \in 1..(Len(x) + Len(r)) /\ j \in 1..(Len(u) + Len(y)) /\ j <= Len(u) /\ ~(j <= Len(x)) /\ j - Len(x) = i
    BY <1>4, <1>5, <2>1
  <2> QED BY <1>5, <1>6, <2>1, <2>2
<1>9. ASSUME NEW i \in 1..Len(y) PROVE w[Len(x) + Len(r) + i] = y[i]
  <2>1. PICK j : j = Len(x) + Len(r) + i OBVIOUS
  <2>2. j \in 1..(Len(u) + Len(y)) /\ ~(j <= Len(u)) /\ j - Len(u) = i BY <1>4, <1>5, <2>1
  <2> QED BY <1>6, <2>1, <2>2
<1> QED BY <1>2, <1>3, <1>5, <1>6, <1>7, <1>8, <1>9 DEF Joined

(* Where a message of such a prompt is.                                    *)
LEMMA JoinedAt ==
  ASSUME NEW W, NEW x, NEW r, NEW y, Joined(W, x, r, y), NEW i \in 1..Len(W)
  PROVE  \/ i \in 1..Len(x) /\ W[i] = x[i]
         \/ \E k \in 1..Len(r) : i = Len(x) + k /\ W[i] = r[k]
         \/ \E k \in 1..Len(y) : i = Len(x) + Len(r) + k /\ W[i] = y[k]
<1>1. Len(x) \in Nat /\ Len(r) \in Nat /\ Len(y) \in Nat /\ Len(W) = Len(x) + Len(r) + Len(y) BY DEF Joined
<1>2. CASE i <= Len(x)
  <2>1. i \in 1..Len(x) BY <1>1, <1>2
  <2> QED BY <2>1 DEF Joined
<1>3. CASE ~(i <= Len(x)) /\ i <= Len(x) + Len(r)
  <2>1. PICK k : k = i - Len(x) OBVIOUS
  <2>2. k \in 1..Len(r) /\ i = Len(x) + k BY <1>1, <1>3, <2>1
  <2> QED BY <2>2 DEF Joined
<1>4. CASE ~(i <= Len(x) + Len(r))
  <2>1. PICK k : k = i - Len(x) - Len(r) OBVIOUS
  <2>2. k \in 1..Len(y) /\ i = Len(x) + Len(r) + k BY <1>1, <1>4, <2>1
  <2> QED BY <2>2 DEF Joined
<1> QED BY <1>1, <1>2, <1>3, <1>4

(* The client's messages are in order.                                     *)
Apart(W) == \A i, j \in 1..Len(W) : i < j /\ W[j].at > 0 => W[i].at < W[j].at
(* What may take the place of others: nothing, or a note.                  *)
Instead(n, of) == n = <<>> \/ \E b : n = <<b>> /\ IsNote(b, of)

(* Order survives a replacement.                                           *)
LEMMA CutApart ==
  ASSUME NEW W, NEW V, NEW x, NEW r, NEW y, NEW n, NEW of, Joined(W, x, r, y), Joined(V, x, n, y), Instead(n, of), Apart(W)
  PROVE  Apart(V)
<1> SUFFICES ASSUME NEW i \in 1..Len(V), NEW j \in 1..Len(V), i < j, V[j].at > 0 PROVE V[i].at < V[j].at BY DEF Apart
<1>1. Len(x) \in Nat /\ Len(r) \in Nat /\ Len(y) \in Nat /\ Len(n) \in Nat
      /\ Len(W) = Len(x) + Len(r) + Len(y) /\ Len(V) = Len(x) + Len(n) + Len(y)
  BY DEF Joined
<1>2. \A k \in 1..Len(n) : n[k].at = 0
  <2>1. CASE n = <<>>
    <3>1. Len(n) = 0 BY <2>1
    <3> QED BY <3>1
  <2>2. ASSUME NEW b, n = <<b>>, IsNote(b, of) PROVE \A k \in 1..Len(n) : n[k].at = 0
    <3>1. Len(n) = 1 /\ n[1] = b BY <2>2
    <3> QED BY <2>2, <3>1 DEF IsNote
  <2> QED BY <2>1, <2>2 DEF Instead
<1>3. CASE j \in 1..Len(x) /\ V[j] = x[j]
  <2>1. i \in 1..Len(x) /\ i \in 1..Len(W) /\ j \in 1..Len(W) BY <1>1, <1>3
  <2>2. W[i] = x[i] /\ W[j] = x[j] /\ V[i] = x[i] BY <1>3, <2>1 DEF Joined
  <2> QED BY <1>3, <2>1, <2>2 DEF Apart
<1>4. ASSUME NEW k \in 1..Len(n), V[j] = n[k] PROVE FALSE BY <1>2, <1>4
<1>5. ASSUME NEW k \in 1..Len(y), j = Len(x) + Len(n) + k, V[j] = y[k] PROVE V[i].at < V[j].at
  <2>1. PICK q : q = Len(x) + Len(r) + k OBVIOUS
  <2>2. q \in 1..Len(W) /\ W[q] = y[k]
    <3>1. W[q] = y[k] BY <1>5, <2>1 DEF Joined
    <3> QED BY <1>1, <2>1, <3>1
  <2>3. CASE i \in 1..Len(x) /\ V[i] = x[i]
    <3>1. i \in 1..Len(W) /\ i < q BY <1>1, <2>1, <2>3
    <3>2. W[i] = x[i] BY <2>3 DEF Joined
    <3> QED BY <1>5, <2>2, <2>3, <3>1, <3>2 DEF Apart
  <2>4. ASSUME NEW p \in 1..Len(n), V[i] = n[p] PROVE V[i].at < V[j].at BY <1>2, <2>4
  <2>5. ASSUME NEW p \in 1..Len(y), i = Len(x) + Len(n) + p, V[i] = y[p] PROVE V[i].at < V[j].at
    <3>1. PICK h : h = Len(x) + Len(r) + p OBVIOUS
    <3>2. W[h] = y[p] BY <2>5, <3>1 DEF Joined
    <3>3. h \in 1..Len(W) /\ h < q BY <1>1, <1>5, <2>1, <2>5, <3>1
    <3> QED BY <1>5, <2>2, <2>5, <3>2, <3>3 DEF Apart
  <2> QED BY <2>3, <2>4, <2>5, JoinedAt
<1> QED BY <1>3, <1>4, <1>5, JoinedAt

(* Places of messages.                                                     *)
LEMMA PlacesAre ==
  ASSUME NEW W \in Seq(MsgSet)
  PROVE  /\ \A a : a \in PlacesOf(W) <=> a # 0 /\ \E i \in 1..Len(W) : W[i].at = a
         /\ PlacesOf(W) \in SUBSET Nat
<1>1. DOMAIN W = 1..Len(W) /\ \A i \in 1..Len(W) : W[i] \in MsgSet OBVIOUS
<1>2. \A a : a \in PlacesOf(W) <=> a # 0 /\ \E i \in 1..Len(W) : W[i].at = a BY <1>1 DEF PlacesOf
<1>3. \A m \in MsgSet : m.at \in Nat BY DEF MsgSet
<1> QED BY <1>1, <1>2, <1>3

(* A replacement takes the places of what it replaces, and no other.       *)
LEMMA CutPlaces ==
  ASSUME NEW W, NEW V, NEW x, NEW r, NEW y, NEW n, NEW of, Joined(W, x, r, y), Joined(V, x, n, y), Instead(n, of), Apart(W)
  PROVE  PlacesOf(V) = PlacesOf(W) \ PlacesOf(r) /\ PlacesOf(r) \subseteq PlacesOf(W)
<1>1. Len(x) \in Nat /\ Len(r) \in Nat /\ Len(y) \in Nat /\ Len(n) \in Nat
      /\ Len(W) = Len(x) + Len(r) + Len(y) /\ Len(V) = Len(x) + Len(n) + Len(y)
      /\ W \in Seq(MsgSet) /\ V \in Seq(MsgSet) /\ r \in Seq(MsgSet)
  BY DEF Joined
<1>2. \A k \in 1..Len(n) : n[k].at = 0
  <2>1. CASE n = <<>>
    <3>1. Len(n) = 0 BY <2>1
    <3> QED BY <3>1
  <2>2. ASSUME NEW b, n = <<b>>, IsNote(b, of) PROVE \A k \in 1..Len(n) : n[k].at = 0
    <3>1. Len(n) = 1 /\ n[1] = b BY <2>2
    <3> QED BY <2>2, <3>1 DEF IsNote
  <2> QED BY <2>1, <2>2 DEF Instead
<1>3. /\ \A a : a \in PlacesOf(W) <=> a # 0 /\ \E i \in 1..Len(W) : W[i].at = a
      /\ \A a : a \in PlacesOf(V) <=> a # 0 /\ \E i \in 1..Len(V) : V[i].at = a
      /\ \A a : a \in PlacesOf(r) <=> a # 0 /\ \E i \in 1..Len(r) : r[i].at = a
      /\ PlacesOf(W) \in SUBSET Nat
  BY <1>1, PlacesAre
<1>4. ASSUME NEW a \in PlacesOf(V) PROVE a \in PlacesOf(W) /\ a \notin PlacesOf(r)
  <2>1. PICK i \in 1..Len(V) : V[i].at = a /\ a # 0 BY <1>3, <1>4
  <2>2. PICK q \in 1..Len(W) : W[q].at = a /\ (q <= Len(x) \/ q > Len(x) + Len(r))
    <3>1. CASE i \in 1..Len(x) /\ V[i] = x[i]
      <4>1. i \in 1..Len(W) /\ i <= Len(x) BY <1>1, <3>1
      <4>2. W[i] = x[i] BY <3>1 DEF Joined
      <4> QED BY <2>1, <3>1, <4>1, <4>2
    <3>2. ASSUME NEW k \in 1..Len(n), V[i] = n[k] PROVE FALSE BY <1>2, <2>1, <3>2
    <3>3. ASSUME NEW k \in 1..Len(y), V[i] = y[k]
          PROVE \E q \in 1..Len(W) : W[q].at = a /\ (q <= Len(x) \/ q > Len(x) + Len(r))
      <4>1. PICK q : q = Len(x) + Len(r) + k OBVIOUS
      <4>2. q \in 1..Len(W) /\ q > Len(x) + Len(r) BY <1>1, <4>1
      <4>3. W[q] = y[k] BY <4>1 DEF Joined
      <4> QED BY <2>1, <3>3, <4>2, <4>3
    <3> QED BY <3>1, <3>2, <3>3, JoinedAt
  <2>3. a \in PlacesOf(W) BY <1>3, <2>1, <2>2
  <2>4. a \notin PlacesOf(r)
    <3> SUFFICES ASSUME a \in PlacesOf(r) PROVE FALSE OBVIOUS
    <3>1. PICK k \in 1..Len(r) : r[k].at = a BY <1>3
    <3>2. PICK p : p = Len(x) + k OBVIOUS
    <3>3. p \in 1..Len(W) /\ (p < q \/ q < p) BY <1>1, <2>2, <3>2
    <3>4. W[p].at = a
      <4>1. W[p] = r[k] BY <3>2 DEF Joined
      <4> QED BY <3>1, <4>1
    <3>5. a \in Nat /\ a > 0 BY <1>3, <2>1, <2>3
    <3> QED BY <2>2, <3>3, <3>4, <3>5 DEF Apart
  <2> QED BY <2>3, <2>4
<1>5. ASSUME NEW a \in PlacesOf(W), a \notin PlacesOf(r) PROVE a \in PlacesOf(V)
  <2>1. PICK i \in 1..Len(W) : W[i].at = a /\ a # 0 BY <1>3, <1>5
  <2>2. CASE i \in 1..Len(x) /\ W[i] = x[i]
    <3>1. i \in 1..Len(V) BY <1>1, <2>2
    <3>2. V[i] = x[i] BY <2>2 DEF Joined
    <3> QED BY <1>3, <2>1, <2>2, <3>1, <3>2
  <2>3. ASSUME NEW k \in 1..Len(r), W[i] = r[k] PROVE FALSE BY <1>3, <1>5, <2>1, <2>3
  <2>4. ASSUME NEW k \in 1..Len(y), W[i] = y[k] PROVE a \in PlacesOf(V)
    <3>1. PICK q : q = Len(x) + Len(n) + k OBVIOUS
    <3>2. q \in 1..Len(V) BY <1>1, <3>1
    <3>3. V[q] = y[k] BY <3>1 DEF Joined
    <3> QED BY <1>3, <2>1, <2>4, <3>2, <3>3
  <2> QED BY <2>2, <2>3, <2>4, JoinedAt
<1>6. ASSUME NEW a \in PlacesOf(r) PROVE a \in PlacesOf(W)
  <2>1. PICK k \in 1..Len(r) : r[k].at = a /\ a # 0 BY <1>3, <1>6
  <2>2. PICK p : p = Len(x) + k OBVIOUS
  <2>3. p \in 1..Len(W) BY <1>1, <2>2
  <2>4. W[p] = r[k] BY <2>2 DEF Joined
  <2> QED BY <1>3, <2>1, <2>3, <2>4
<1> QED BY <1>4, <1>5, <1>6
-----------------------------------------------------------------------------
(* What the translation of a conversation makes of it.                     *)
(* A message of a client, before anything is left out.                     *)
PlainOne(m) == m \in MsgSet /\ m.of = {} /\ (m.calls => m.role = "assistant")
PlainSet == {m \in MsgSet : PlainOne(m)}
Prepared(P, n) ==
  /\ P \in Seq(MsgSet) /\ Apart(P) /\ \A i \in 1..Len(P) : PlainOne(P[i])
  /\ n = ImagesIn(P) \/ \E i \in 1..Len(P) : P[i].text = "replaced"

(* A message is what it is made of.                                        *)
LEMMA MessageIs ==
  ASSUME NEW role \in Word, NEW words \in Word, NEW image \in BOOLEAN, NEW calls \in BOOLEAN, NEW list \in BOOLEAN
  PROVE  /\ Message(role, words, image, calls, list) \in MsgSet
         /\ Message(role, words, image, calls, list).role = role
         /\ Message(role, words, image, calls, list).image = image
         /\ Message(role, words, image, calls, list).calls = calls
         /\ Message(role, words, image, calls, list).of = {}
<1> DEFINE m == Message(role, words, image, calls, list)
<1>1. PICK e : e = {} OBVIOUS
<1>2. PICK z : z = IF words = "short" THEN 1 ELSE 2 OBVIOUS
<1>3. z \in Nat BY <1>2
<1>4. m = [role |-> role, text |-> words, image |-> image, calls |-> calls, list |-> list, size |-> z, at |-> 0, of |-> e]
  BY <1>1, <1>2 DEF Message
<1> HIDE DEF m
<1>5. e \in SUBSET Nat BY <1>1
<1>6. m \in MsgSet BY <1>3, <1>4, <1>5 DEF MsgSet
<1>7. m.role = role /\ m.text = words /\ m.image = image /\ m.calls = calls /\ m.at = 0 /\ m.of = {} BY <1>1, <1>4
<1> QED BY <1>6, <1>7 DEF m

(* Numbering puts a client's messages in order.                            *)
LEMMA NumberedPrepared ==
  ASSUME NEW ms \in Seq(MsgSet), \A i \in 1..Len(ms) : PlainOne(ms[i])
  PROVE  Prepared(Numbered(ms), ImagesIn(Numbered(ms)))
<1> DEFINE s == Numbered(ms)
<1>1. /\ s \in Seq(MsgSet) /\ Len(s) = Len(ms)
      /\ \A i \in 1..Len(ms) :
           /\ s[i].at = i /\ s[i].role = ms[i].role /\ s[i].text = ms[i].text
           /\ s[i].image = ms[i].image /\ s[i].calls = ms[i].calls
           /\ s[i].list = ms[i].list /\ s[i].of = ms[i].of
  BY NumberedIs
<1> HIDE DEF s
<1>2. Apart(s)
  <2>1. Len(ms) \in Nat OBVIOUS
  <2> QED BY <1>1, <2>1 DEF Apart
<1>3. \A i \in 1..Len(s) : PlainOne(s[i])
  <2> TAKE i \in 1..Len(s)
  <2>1. s[i] \in MsgSet BY <1>1
  <2>2. s[i].of = ms[i].of /\ s[i].calls = ms[i].calls /\ s[i].role = ms[i].role BY <1>1
  <2>3. PlainOne(ms[i]) BY <1>1
  <2> QED BY <2>1, <2>2, <2>3 DEF PlainOne
<1>4. Prepared(s, ImagesIn(s)) BY <1>1, <1>2, <1>3 DEF Prepared
<1> QED BY <1>4 DEF s

(* The format's instruction in front.                                      *)
LEMMA FormatPrepared ==
  ASSUME NEW ms \in Seq(MsgSet), ms # <<>>, Prepared(ms, ImagesIn(ms)), \A i \in 1..Len(ms) : ms[i].image => ms[i].list
  PROVE  Prepared(WithFormat(ms), ImagesIn(ms))
<1>1. Len(ms) \in Nat /\ Len(ms) >= 1 /\ 1 \in 1..Len(ms) OBVIOUS
<1>2. PICK h, rest : h = ms[1] /\ rest = Tail(ms) OBVIOUS
<1>3. h \in MsgSet /\ rest \in Seq(MsgSet) /\ Len(rest) = Len(ms) - 1 /\ \A i \in 1..Len(rest) : rest[i] = ms[i + 1]
  BY <1>1, <1>2
<1>4. PlainOne(h) /\ Apart(ms) /\ \A i \in 1..Len(ms) : PlainOne(ms[i]) BY <1>1, <1>2 DEF Prepared
<1>5. \A v1, v2 \in Seq(MsgSet) :
        /\ v1 \o v2 \in Seq(MsgSet) /\ Len(v1 \o v2) = Len(v1) + Len(v2)
        /\ \A i \in 1..(Len(v1) + Len(v2)) : (v1 \o v2)[i] = IF i <= Len(v1) THEN v1[i] ELSE v2[i - Len(v1)]
  BY ConcatProperties
<1>6. CASE h.role = "system"
  <2>1. PICK d, b : d = (IF h.list THEN "replaced" ELSE "extended")
                    /\ b = [h EXCEPT !.text = d, !.list = FALSE, !.image = FALSE]
    OBVIOUS
  <2>2. d \in Word BY <2>1 DEF Word
  <2>3. b \in MsgSet /\ b.text = d /\ b.image = FALSE /\ b.role = h.role /\ b.calls = h.calls /\ b.at = h.at /\ b.of = h.of
    BY <1>3, <2>1, <2>2 DEF MsgSet
  <2>4. PICK w : w = <<b>> \o rest OBVIOUS
  <2>5. WithFormat(ms) = w BY <1>2, <1>6, <2>1, <2>4 DEF WithFormat
  <2>6. <<b>> \in Seq(MsgSet) /\ Len(<<b>>) = 1 /\ <<b>>[1] = b BY <2>3, OneIsSeq
  <2>7. w \in Seq(MsgSet) /\ Len(w) = Len(ms) /\ w[1] = b /\ \A i \in 2..Len(ms) : w[i] = ms[i]
    <3>1. /\ w \in Seq(MsgSet) /\ Len(w) = 1 + Len(rest)
          /\ \A i \in 1..(1 + Len(rest)) : w[i] = IF i <= 1 THEN <<b>>[i] ELSE rest[i - 1]
      BY <1>3, <1>5, <2>4, <2>6
    <3>2. \A i \in 2..Len(ms) : i - 1 \in 1..Len(rest) /\ i \in 1..(1 + Len(rest)) /\ rest[i - 1] = ms[i] BY <1>1, <1>3
    <3> QED BY <1>1, <1>3, <2>6, <3>1, <3>2
  <2>8. \A i \in 1..Len(ms) : w[i].at = ms[i].at
    <3> TAKE i \in 1..Len(ms)
    <3>1. i = 1 \/ i \in 2..Len(ms) BY <1>1
    <3> QED BY <1>2, <2>3, <2>7, <3>1
  <2>9. Apart(w) BY <1>4, <2>7, <2>8 DEF Apart
  <2>10. \A i \in 1..Len(w) : PlainOne(w[i])
    <3> TAKE i \in 1..Len(w)
    <3>1. i = 1 \/ i \in 2..Len(ms) BY <1>1, <2>7
    <3>2. PlainOne(b) BY <1>4, <2>3 DEF PlainOne
    <3> QED BY <1>4, <2>7, <3>1, <3>2
  <2>11. ImagesIn(ms) = ImagesIn(w) \/ \E i \in 1..Len(w) : w[i].text = "replaced"
    <3>1. CASE h.list
      <4>1. w[1].text = "replaced" BY <2>1, <2>3, <2>7, <3>1
      <4> QED BY <1>1, <2>7, <4>1
    <3>2. CASE ~h.list
      <4>1. ~h.image BY <1>1, <1>2, <3>2
      <4>2. {i \in 1..Len(ms) : w[i].image} = {i \in 1..Len(ms) : ms[i].image}
        <5>1. ASSUME NEW i \in 1..Len(ms) PROVE w[i].image <=> ms[i].image
          <6>1. i = 1 \/ i \in 2..Len(ms) BY <1>1
          <6>2. h.image = FALSE BY <1>3, <4>1 DEF MsgSet
          <6> QED BY <1>2, <2>3, <2>7, <6>1, <6>2
        <5> QED BY <5>1
      <4>3. DOMAIN w = 1..Len(ms) /\ DOMAIN ms = 1..Len(ms) BY <2>7
      <4> QED BY <4>2, <4>3 DEF ImagesIn
    <3> QED BY <3>1, <3>2
  <2> QED BY <2>5, <2>7, <2>9, <2>10, <2>11 DEF Prepared
<1>7. CASE h.role # "system"
  <2>1. PICK e : e = {} OBVIOUS
  <2>2. PICK b : b = Note(1, e) OBVIOUS
  <2>3. IsNote(b, e)
    <3>1. e \in SUBSET Nat /\ 1 \in Nat BY <2>1
    <3> QED BY <2>2, <3>1, NoteIs
  <2>4. b \in MsgSet /\ b.image = FALSE /\ b.calls = FALSE /\ b.at = 0 /\ b.of = {} BY <2>1, <2>3 DEF IsNote
  <2>5. PICK w : w = <<b>> \o ms OBVIOUS
  <2>6. WithFormat(ms) = w BY <1>2, <1>7, <2>1, <2>2, <2>5 DEF WithFormat
  <2>7. <<b>> \in Seq(MsgSet) /\ Len(<<b>>) = 1 /\ <<b>>[1] = b BY <2>4, OneIsSeq
  <2>8. /\ w \in Seq(MsgSet) /\ Len(w) = 1 + Len(ms)
        /\ \A i \in 1..(1 + Len(ms)) : w[i] = IF i <= 1 THEN <<b>>[i] ELSE ms[i - 1]
    BY <1>5, <2>5, <2>7
  <2>9. w[1] = b /\ \A i \in 2..Len(w) : i - 1 \in 1..Len(ms) /\ w[i] = ms[i - 1] BY <1>1, <2>7, <2>8
  <2>10. Apart(w)
    <3> SUFFICES ASSUME NEW i \in 1..Len(w), NEW j \in 1..Len(w), i < j, w[j].at > 0 PROVE w[i].at < w[j].at BY DEF Apart
    <3>1. j \in 2..Len(w) /\ (i = 1 \/ i \in 2..Len(w)) BY <1>1, <2>8
    <3>2. CASE i = 1 BY <2>4, <2>9, <3>2
    <3>3. CASE i \in 2..Len(w)
      <4>1. PICK p, q : p = i - 1 /\ q = j - 1 OBVIOUS
      <4>2. p \in 1..Len(ms) /\ q \in 1..Len(ms) /\ p < q BY <1>1, <2>8, <3>1, <3>3, <4>1
      <4>3. w[i] = ms[p] /\ w[j] = ms[q] BY <2>9, <3>1, <3>3, <4>1
      <4> QED BY <1>4, <4>2, <4>3 DEF Apart
    <3> QED BY <3>1, <3>2, <3>3
  <2>11. \A i \in 1..Len(w) : PlainOne(w[i])
    <3> TAKE i \in 1..Len(w)
    <3>1. i = 1 \/ i \in 2..Len(w) BY <1>1, <2>8
    <3>2. PlainOne(b) BY <2>4 DEF PlainOne
    <3>3. i \in 2..Len(w) => PlainOne(ms[i - 1]) BY <1>4, <2>9
    <3> QED BY <2>9, <3>1, <3>2, <3>3
  <2>12. ImagesIn(ms) = ImagesIn(w)
    <3>1. \A v1, v2 \in Seq(MsgSet) : ImagesIn(v1 \o v2) = ImagesIn(v1) + ImagesIn(v2) /\ ImagesIn(v1) \in Nat /\ ImagesIn(v2) \in Nat
      BY ImagesJoin
    <3>2. PICK o : o = <<b>> OBVIOUS
    <3>3. ImagesIn(o) = 0
      <4>1. \A i \in DOMAIN o : o[i].image = FALSE BY <2>4, <2>7, <3>2
      <4> QED BY <4>1, NoImages
    <3>4. ImagesIn(w) = ImagesIn(o) + ImagesIn(ms) /\ ImagesIn(ms) \in Nat BY <2>5, <2>7, <3>1, <3>2
    <3> QED BY <3>3, <3>4
  <2> QED BY <2>6, <2>8, <2>10, <2>11, <2>12 DEF Prepared
<1> QED BY <1>6, <1>7
-----------------------------------------------------------------------------
(* The two translations.                                                   *)
SaidSet == [route : {"openai"}, talk : ChatTalks, format : BOOLEAN]
           \cup [route : {"anthropic"}, talk : MessageTalks, format : {FALSE}]

(* A conversation of an OpenAI client.                                     *)
LEMMA ChatTyped ==
  ASSUME NEW talk \in ChatTalks
  PROVE  /\ talk \in Seq(MsgSet) /\ talk # <<>>
         /\ \A i \in 1..Len(talk) : (talk[i].image => talk[i].list) /\ talk[i].of = {}
<1> DEFINE S == [role : STRING, text : STRING, image : BOOLEAN, calls : BOOLEAN, list : BOOLEAN,
                 size : Nat, at : {0}, of : {{}}]
           n == Len(talk)
<1>1. talk \in Seq(S) /\ talk # <<>> /\ \A i \in DOMAIN talk : talk[i].image => talk[i].list BY TalksShaped
<1>2. \A m \in S : m \in MsgSet /\ m.of = {}
  <2>1. {} \in SUBSET Nat /\ 0 \in Nat /\ STRING \subseteq Word BY DEF Word
  <2> QED BY <2>1 DEF MsgSet
<1> HIDE DEF S
<1>3. n \in Nat /\ DOMAIN talk = 1..n /\ \A i \in 1..n : talk[i] \in S BY <1>1
<1>4. talk \in [1..n -> MsgSet]
  <2>1. talk = [i \in 1..n |-> talk[i]] BY <1>1, <1>3
  <2> QED BY <1>2, <1>3, <2>1
<1>5. talk \in Seq(MsgSet)
  <2> HIDE DEF n
  <2> QED BY <1>3, <1>4, SeqFrom
<1> QED BY <1>1, <1>2, <1>3, <1>5

(* What chat() makes of it.                                                *)
LEMMA ChatPrepared ==
  ASSUME NEW talk \in ChatTalks, NEW ms, ms = Numbered(talk), ~\E i \in DOMAIN ms : Malformed(ms[i])
  PROVE  Prepared(ms, ImagesIn(ms)) /\ Prepared(WithFormat(ms), ImagesIn(ms)) /\ ImagesIn(ms) \in Nat
<1>1. /\ talk \in Seq(MsgSet) /\ talk # <<>>
      /\ \A i \in 1..Len(talk) : (talk[i].image => talk[i].list) /\ talk[i].of = {}
  BY ChatTyped
<1>2. /\ ms \in Seq(MsgSet) /\ Len(ms) = Len(talk)
      /\ \A i \in 1..Len(talk) :
           /\ ms[i].at = i /\ ms[i].role = talk[i].role /\ ms[i].text = talk[i].text
           /\ ms[i].image = talk[i].image /\ ms[i].calls = talk[i].calls
           /\ ms[i].list = talk[i].list /\ ms[i].of = talk[i].of
  BY <1>1, NumberedIs
<1>3. Len(talk) \in Nat /\ DOMAIN ms = 1..Len(talk) /\ Len(talk) # 0 BY <1>1, <1>2
<1>4. \A i \in 1..Len(talk) : PlainOne(talk[i])
  <2> TAKE i \in 1..Len(talk)
  <2>1. talk[i] \in MsgSet BY <1>1
  <2>2. ~Malformed(ms[i]) BY <1>3
  <2>3. ms[i].calls => ms[i].role = "assistant" BY <2>2 DEF Malformed
  <2> QED BY <1>1, <1>2, <2>1, <2>3 DEF PlainOne
<1>5. Prepared(ms, ImagesIn(ms)) BY <1>1, <1>4, NumberedPrepared
<1>6. ms # <<>> /\ \A i \in 1..Len(ms) : ms[i].image => ms[i].list BY <1>1, <1>2, <1>3
<1>7. Prepared(WithFormat(ms), ImagesIn(ms)) BY <1>2, <1>5, <1>6, FormatPrepared
<1>8. ImagesIn(ms) \in Nat BY <1>2, ImagesJoin
<1> QED BY <1>5, <1>7, <1>8

(* What a turn of an Anthropic client becomes.                             *)
LEMMA TranslatedIs ==
  ASSUME NEW turn, turn.role \in STRING, turn.blocks \in Seq(STRING), ~Unsupported(turn)
  PROVE  Translated(turn) \in Seq(PlainSet)
<1> DEFINE has == ToSet(turn.blocks)
           words == IF "text" \in has THEN "plain" ELSE "none"
           K == {k \in DOMAIN turn.blocks : turn.blocks[k] = "tool_result"}
           results == Cardinality(K)
           ends == CASE "tool_use" \in has -> <<Message(turn.role, words, "image" \in has, TRUE, "image" \in has)>>
                     [] "tool_use" \notin has /\ has \cap {"text", "image"} # {} ->
                          <<Message(turn.role, words, "image" \in has, FALSE, "image" \in has)>>
                     [] OTHER -> <<>>
           f == [k \in 1..results |-> Message("tool", "plain", FALSE, FALSE, FALSE)]
<1>1. Translated(turn) = f \o ends BY DEF Translated
<1>2. results \in Nat
  <2>1. PICK n : n = Len(turn.blocks) OBVIOUS
  <2>2. n \in Nat /\ DOMAIN turn.blocks = 1..n BY <2>1
  <2>3. 1 \in Int /\ n \in Int BY <2>2
  <2>4. IsFiniteSet(1..n) BY <2>3, FS_Interval, Zenon
  <2>5. K \subseteq 1..n BY <2>2
  <2> HIDE DEF K
  <2>6. IsFiniteSet(K) BY <2>4, <2>5, FS_Subset
  <2> QED BY <2>6, FS_CardinalityType
<1>3. PICK role : role = turn.role OBVIOUS
<1>4. role \in Word /\ words \in Word BY <1>3 DEF Word
<1>5. "tool" \in Word /\ "plain" \in Word BY DEF Word
<1>6. \A r1, w1 \in Word : \A i1, c1, l1 \in BOOLEAN :
         /\ Message(r1, w1, i1, c1, l1) \in MsgSet /\ Message(r1, w1, i1, c1, l1).role = r1
         /\ Message(r1, w1, i1, c1, l1).image = i1 /\ Message(r1, w1, i1, c1, l1).calls = c1
         /\ Message(r1, w1, i1, c1, l1).of = {}
  BY MessageIs
<1>7. Message("tool", "plain", FALSE, FALSE, FALSE) \in PlainSet
  <2>1. PICK m : m = Message("tool", "plain", FALSE, FALSE, FALSE) OBVIOUS
  <2>2. m \in MsgSet /\ m.calls = FALSE /\ m.of = {} BY <1>5, <1>6, <2>1
  <2> QED BY <2>1, <2>2 DEF PlainSet, PlainOne
<1>8. f \in Seq(PlainSet)
  <2>1. f \in [1..results -> PlainSet] BY <1>7
  <2> HIDE DEF f, results
  <2> QED BY <1>2, <2>1, SeqFrom
<1>9. "tool_use" \in has => role = "assistant"
  <2> SUFFICES ASSUME "tool_use" \in has PROVE role = "assistant" OBVIOUS
  <2>1. PICK k \in DOMAIN turn.blocks : turn.blocks[k] = "tool_use" BY DEF ToSet
  <2> QED BY <1>3, <2>1 DEF Unsupported
<1>10. PICK image : image = ("image" \in has) OBVIOUS
<1>11. image \in BOOLEAN BY <1>10
<1>12. ends \in Seq(PlainSet)
  <2>1. CASE "tool_use" \in has
    <3>1. PICK c1, w1 : c1 = TRUE /\ w1 = words OBVIOUS
    <3>2. PICK m : m = Message(role, w1, image, c1, image) OBVIOUS
    <3>3. ends = <<m>> BY <1>3, <1>10, <2>1, <3>1, <3>2
    <3> HIDE DEF words, has, ends
    <3>4. c1 \in BOOLEAN /\ w1 \in Word /\ role \in Word BY <1>4, <3>1
    <3>5. m \in MsgSet /\ m.role = role /\ m.calls = c1 /\ m.of = {} BY <1>6, <1>11, <3>2, <3>4
    <3>6. m \in PlainSet BY <1>9, <2>1, <3>5 DEF PlainSet, PlainOne
    <3> QED BY <3>3, <3>6, OneIsSeq
  <2>2. CASE "tool_use" \notin has /\ has \cap {"text", "image"} # {}
    <3>1. PICK c1, w1 : c1 = FALSE /\ w1 = words OBVIOUS
    <3>2. PICK m : m = Message(role, w1, image, c1, image) OBVIOUS
    <3>3. ends = <<m>> BY <1>3, <1>10, <2>2, <3>1, <3>2
    <3> HIDE DEF words, has, ends
    <3>4. c1 \in BOOLEAN /\ w1 \in Word /\ role \in Word BY <1>4, <3>1
    <3>5. m \in MsgSet /\ m.role = role /\ m.calls = c1 /\ m.of = {} BY <1>6, <1>11, <3>2, <3>4
    <3>6. m \in PlainSet BY <3>1, <3>5 DEF PlainSet, PlainOne
    <3> QED BY <3>3, <3>6, OneIsSeq
  <2>3. CASE "tool_use" \notin has /\ ~(has \cap {"text", "image"} # {})
    <3>1. ends = <<>> BY <2>3
    <3>2. <<>> \in Seq(PlainSet) OBVIOUS
    <3> HIDE DEF ends
    <3> QED BY <3>1, <3>2
  <2> QED BY <2>1, <2>2, <2>3
<1> HIDE DEF f, ends
<1> QED BY <1>1, <1>8, <1>12

(* What messages() makes of a conversation.                                *)
LEMMA TalkPrepared ==
  ASSUME NEW talk \in MessageTalks, NEW ms, ms = Numbered(Converted(talk)), ~\E k \in DOMAIN talk : Unsupported(talk[k])
  PROVE  Prepared(ms, ImagesIn(ms)) /\ ImagesIn(ms) \in Nat
<1> DEFINE n == Len(talk)
           s == [k \in DOMAIN talk |-> Translated(talk[k])]
<1>2. talk \in Seq([role : STRING, blocks : Seq(STRING)]) BY TalksShaped
<1>1. PICK T : T = [role : STRING, blocks : Seq(STRING)] OBVIOUS
<1>3. talk \in Seq(T) BY <1>1, <1>2
<1>4. n \in Nat /\ DOMAIN talk = 1..n /\ \A k \in 1..n : talk[k] \in T BY <1>3
<1>5. ASSUME NEW k \in 1..n PROVE Translated(talk[k]) \in Seq(PlainSet)
  <2>1. PICK turn : turn = talk[k] OBVIOUS
  <2>2. turn.role \in STRING /\ turn.blocks \in Seq(STRING) BY <1>1, <1>4, <2>1
  <2>3. ~Unsupported(turn) BY <1>4, <2>1
  <2> QED BY <2>1, <2>2, <2>3, TranslatedIs
<1>6. s \in [1..n -> Seq(PlainSet)] BY <1>4, <1>5
<1>7. Converted(talk) = FlattenSeq(s) BY DEF Converted
<1> HIDE DEF s, n
<1>8. s \in Seq(Seq(PlainSet)) BY <1>4, <1>6, SeqFrom
<1>9. PICK c : c = Converted(talk) OBVIOUS
<1>10. c \in Seq(PlainSet) BY <1>7, <1>8, <1>9, FlattenFacts
<1>11. c \in Seq(MsgSet) /\ \A i \in 1..Len(c) : PlainOne(c[i])
  <2>1. Len(c) \in Nat /\ \A i \in 1..Len(c) : c[i] \in PlainSet BY <1>10
  <2>2. c = [i \in 1..Len(c) |-> c[i]] BY <1>10
  <2>3. \A i \in 1..Len(c) : PlainOne(c[i]) /\ c[i] \in MsgSet BY <2>1 DEF PlainSet
  <2>4. c \in [1..Len(c) -> MsgSet] BY <2>2, <2>3
  <2> QED BY <2>1, <2>3, <2>4, SeqFrom
<1>12. ms = Numbered(c) BY <1>9
<1>13. Prepared(ms, ImagesIn(ms)) BY <1>11, <1>12, NumberedPrepared
<1>14. ms \in Seq(MsgSet) BY <1>13 DEF Prepared
<1>15. ImagesIn(ms) \in Nat BY <1>14, ImagesJoin
<1> QED BY <1>13, <1>15
-----------------------------------------------------------------------------
(* The parts a prompt is cut into, the labels of the planner, its notes,   *)
(* and the block of passages.                                              *)
NoteSet == [of : SUBSET Nat, size : Nat, read : BOOLEAN]
MarkedSet == [message : MsgSet, label : {"exact", "cold", "latent"}]

(* A part of a sequence.                                                   *)
LEMMA PartIs ==
  ASSUME NEW T, NEW s \in Seq(T), NEW a \in Nat, NEW b \in Nat, a <= b, b <= Len(s)
  PROVE  /\ SubSeq(s, a + 1, b) \in Seq(T) /\ Len(SubSeq(s, a + 1, b)) = b - a
         /\ \A i \in 1..(b - a) : SubSeq(s, a + 1, b)[i] = s[a + i]
<1>1. Len(s) \in Nat /\ \A i \in 1..Len(s) : s[i] \in T OBVIOUS
<1>2. SubSeq(s, a + 1, b) \in Seq(T) /\ Len(SubSeq(s, a + 1, b)) = b - a BY <1>1
<1>3. \A i \in 1..(b - a) : SubSeq(s, a + 1, b)[i] = s[a + i] BY <1>1
<1> QED BY <1>2, <1>3

(* Where the tail of a prompt that is cut begins: behind at least two      *)
(* messages, before the kept ones and the first image, and not inside of   *)
(* an exchange.                                                            *)
LEMMA TailIs ==
  ASSUME NEW W \in Seq(MsgSet), NEW keep \in Nat \ {0}, Splits(W, keep)
  PROVE  /\ HeadOf(W) \in {0, 1} /\ HeadOf(W) <= Len(W)
         /\ TailStart(W, keep) \in Nat /\ TailStart(W, keep) >= HeadOf(W) + 2 /\ TailStart(W, keep) <= Len(W) - keep
         /\ ~InExchange(W, TailStart(W, keep))
         /\ \A i \in 1..Len(W) : HeadOf(W) < i /\ i <= TailStart(W, keep) => ~W[i].image
<1> DEFINE n == Len(W)
           h == HeadOf(W)
           A == {n - keep} \cup {i - 1 : i \in {j \in h + 1..n : W[j].image}}
           l == TailLimit(W, keep)
           B == {h} \cup {t \in h + 1..l : ~InExchange(W, t)}
           t == TailStart(W, keep)
<1>1. n \in Nat /\ n - h > keep /\ t - h >= 2 BY DEF Splits
<1>2. h \in {0, 1} /\ h <= n
  <2>1. W # <<>> => n >= 1 OBVIOUS
  <2> QED BY <2>1 DEF HeadOf
<1>3. l = Min(A) /\ t = Max(B) BY DEF TailLimit, TailStart
<1> HIDE DEF n, h, l, t
<1>4. A \subseteq Nat /\ A # {}
  <2>1. n - keep \in Nat BY <1>1, <1>2
  <2>2. \A i \in h + 1..n : i - 1 \in Nat BY <1>1, <1>2
  <2> QED BY <2>1, <2>2
<1>5. l \in A /\ \A i \in A : l <= i
  <2> HIDE DEF A
  <2> QED BY <1>3, <1>4, MinFacts
<1>6. l \in Nat /\ l <= n - keep /\ \A j \in h + 1..n : W[j].image => l <= j - 1
  <2>1. n - keep \in A /\ \A j \in h + 1..n : W[j].image => j - 1 \in A OBVIOUS
  <2> HIDE DEF A
  <2> QED BY <1>4, <1>5, <2>1
<1>7. B \subseteq 0..n /\ B # {} BY <1>1, <1>2, <1>6
<1>8. t \in B
  <2> HIDE DEF B
  <2> QED BY <1>1, <1>3, <1>7, MaxFrom
<1>9. t \in h + 1..l /\ ~InExchange(W, t) BY <1>1, <1>2, <1>8
<1>10. t \in Nat /\ t >= h + 2 /\ t <= n - keep BY <1>1, <1>2, <1>6, <1>9
<1>11. ASSUME NEW i \in 1..n, h < i, i <= t PROVE ~W[i].image
  <2>1. i \in h + 1..n /\ ~(l <= i - 1) BY <1>1, <1>2, <1>6, <1>9, <1>11
  <2> QED BY <1>6, <2>1
<1> QED BY <1>2, <1>9, <1>10, <1>11 DEF n, h, t

(* The parts of such a prompt.                                             *)
LEMMA PartsAre ==
  ASSUME NEW W \in Seq(MsgSet), NEW keep \in Nat \ {0}, Splits(W, keep)
  PROVE  /\ Joined(W, Lead(W), Middle(W, keep), Rest(W, keep))
         /\ Len(Lead(W)) = HeadOf(W) /\ Len(Middle(W, keep)) = TailStart(W, keep) - HeadOf(W)
         /\ Len(Rest(W, keep)) = Len(W) - TailStart(W, keep)
<1> DEFINE n == Len(W)
           h == HeadOf(W)
           t == TailStart(W, keep)
<1>1. h \in Nat /\ t \in Nat /\ h <= t /\ t <= n /\ h <= n /\ n \in Nat BY TailIs
<1>2. Lead(W) = SubSeq(W, 1, h) /\ Middle(W, keep) = SubSeq(W, h + 1, t) /\ Rest(W, keep) = SubSeq(W, t + 1, n)
  BY DEF Lead, Middle, Rest
<1> HIDE DEF h, t, n
<1>3. n = Len(W) BY DEF n
<1>4. SubSeq(W, 1, h) \in Seq(MsgSet) /\ Len(SubSeq(W, 1, h)) = h /\ \A i \in 1..h : SubSeq(W, 1, h)[i] = W[i]
  <2>1. h \in 0..Len(W) BY <1>1, <1>3
  <2> QED BY <2>1, FirstPart
<1>5. \A a, b \in Nat : a <= b /\ b <= Len(W) =>
        /\ SubSeq(W, a + 1, b) \in Seq(MsgSet) /\ Len(SubSeq(W, a + 1, b)) = b - a
        /\ \A i \in 1..(b - a) : SubSeq(W, a + 1, b)[i] = W[a + i]
  BY PartIs
<1>6. /\ SubSeq(W, h + 1, t) \in Seq(MsgSet) /\ Len(SubSeq(W, h + 1, t)) = t - h
      /\ \A i \in 1..(t - h) : SubSeq(W, h + 1, t)[i] = W[h + i]
  BY <1>1, <1>3, <1>5
<1>7. /\ SubSeq(W, t + 1, n) \in Seq(MsgSet) /\ Len(SubSeq(W, t + 1, n)) = n - t
      /\ \A i \in 1..(n - t) : SubSeq(W, t + 1, n)[i] = W[t + i]
  BY <1>1, <1>3, <1>5
<1>8. PICK x, r, y : x = Lead(W) /\ r = Middle(W, keep) /\ y = Rest(W, keep) OBVIOUS
<1>9. /\ x \in Seq(MsgSet) /\ Len(x) = h /\ \A i \in 1..h : x[i] = W[i]
      /\ r \in Seq(MsgSet) /\ Len(r) = t - h /\ \A i \in 1..(t - h) : r[i] = W[h + i]
      /\ y \in Seq(MsgSet) /\ Len(y) = n - t /\ \A i \in 1..(n - t) : y[i] = W[t + i]
  BY <1>2, <1>4, <1>6, <1>7, <1>8
<1>10. Joined(W, x, r, y)
  <2>1. Len(W) = Len(x) + Len(r) + Len(y) /\ Len(x) + Len(r) = t BY <1>1, <1>3, <1>9
  <2> QED BY <1>9, <2>1 DEF Joined
<1> QED BY <1>8, <1>9, <1>10 DEF h, t, n

(* The planner labels each message of the middle; those that must not be   *)
(* cut are exact.                                                          *)
LEMMA LabelledIs ==
  ASSUME NEW ms \in Seq(MsgSet)
  PROVE  /\ Labelled(ms) \in Seq(MarkedSet) /\ Len(Labelled(ms)) = Len(ms)
         /\ \A i \in 1..Len(ms) : /\ Labelled(ms)[i].message = ms[i]
                                  /\ Labelled(ms)[i].label # "exact" => Latent(ms[i])
<1> DEFINE n == Len(ms)
           latent == {i \in DOMAIN ms : Latent(ms[i])}
           tuning == Presets[config.policy]
           Label(i) == IF i \notin latent THEN "exact"
                       ELSE IF i \notin Newest(tuning.recent, latent) \/ (tuning.least /\ ms[i].text = "short") THEN "cold"
                       ELSE "latent"
           s == Labelled(ms)
<1>1. n \in Nat /\ DOMAIN ms = 1..n /\ \A i \in 1..n : ms[i] \in MsgSet OBVIOUS
<1>2. s = [i \in 1..n |-> [message |-> ms[i], label |-> Label(i)]] BY <1>1 DEF Labelled
<1>3. \A i \in 1..n : Label(i) \in {"exact", "cold", "latent"} /\ (Label(i) # "exact" => Latent(ms[i])) BY <1>1
<1> HIDE DEF Label, latent, tuning, s, n
<1>4. ASSUME NEW i \in 1..n PROVE s[i] \in MarkedSet /\ s[i].message = ms[i] /\ (s[i].label # "exact" => Latent(ms[i]))
  <2>1. PICK b : b = Label(i) OBVIOUS
  <2>2. s[i] = [message |-> ms[i], label |-> b] BY <1>2, <1>4, <2>1
  <2>3. b \in {"exact", "cold", "latent"} /\ (b # "exact" => Latent(ms[i])) BY <1>3, <1>4, <2>1
  <2> QED BY <1>1, <1>4, <2>2, <2>3 DEF MarkedSet
<1>5. s \in [1..n -> MarkedSet] BY <1>2, <1>4
<1>6. s \in Seq(MarkedSet) /\ Len(s) = n BY <1>1, <1>5, SeqFrom
<1> QED BY <1>4, <1>6 DEF s, n
-----------------------------------------------------------------------------
(* The run the planner has gathered: latent messages, from the first.      *)
LEMMA RunIs ==
  ASSUME left \in Seq(MarkedSet)
  PROVE  /\ RunLength \in 0..Len(left) /\ \A i \in 1..RunLength : left[i].label = "latent"
         /\ Run \in Seq(MsgSet) /\ Len(Run) = RunLength /\ \A i \in 1..RunLength : Run[i] = left[i].message
         /\ Key \in SUBSET Nat
<1> DEFINE n == Len(left)
           S == {m \in 0..n : \A i \in 1..m : left[i].label = "latent"}
           l == RunLength
           r == Run
<1>1. n \in Nat /\ \A i \in 1..n : left[i] \in MarkedSet OBVIOUS
<1>2. l = Max(S) BY DEF RunLength
<1> HIDE DEF l, n
<1>3. 0 \in S BY <1>1
<1>4. S \subseteq 0..n /\ S # {} BY <1>3
<1>5. l \in S
  <2> HIDE DEF S
  <2> QED BY <1>1, <1>2, <1>4, MaxFrom
<1>6. l \in 0..n /\ \A i \in 1..l : left[i].label = "latent" BY <1>5
<1>7. \A v \in MarkedSet : v.message \in MsgSet BY DEF MarkedSet
<1>8. r = [i \in 1..l |-> left[i].message] BY DEF Run, l
<1> HIDE DEF r
<1>9. r \in [1..l -> MsgSet]
  <2>1. \A i \in 1..l : i \in 1..n BY <1>1, <1>6
  <2> QED BY <1>1, <1>7, <1>8, <2>1
<1>10. l \in Nat BY <1>1, <1>6
<1>11. r \in Seq(MsgSet) /\ Len(r) = l BY <1>9, <1>10, SeqFrom
<1>12. Key = PlacesOf(r) BY DEF Key, r
<1>13. PlacesOf(r) \in SUBSET Nat BY <1>11, PlacesAre
<1> QED BY <1>6, <1>8, <1>11, <1>12, <1>13 DEF n, l, r

(* Notes on disk: one for each set of places, and no more than fit.        *)
NotesKept(s) ==
  s \in Seq(NoteSet) /\ Len(s) <= MaxNotes /\ \A i, j \in 1..Len(s) : s[i].of = s[j].of => i = j

(* What a write and the pruning behind it leave.                           *)
LEMMA StoredKept ==
  ASSUME NotesKept(notes), NEW size \in Nat, Key \in SUBSET Nat, NEW s \in Stored(size)
  PROVE  NotesKept(s)
<1> DEFINE S == {f \in ToSet(notes) : f.of = Key}
           others == Without(notes, S)
<1>1. PICK b : b = [of |-> Key, size |-> size, read |-> TRUE] OBVIOUS
<1>2. b \in NoteSet /\ b.of = Key BY <1>1 DEF NoteSet
<1>3. PICK all : all = Append(others, b) OBVIOUS
<1>4. s \in Pruned(all) BY <1>1, <1>3 DEF Stored
<1>5. notes \in Seq(NoteSet) BY DEF NotesKept
<1>6. Once(notes)
  <2>1. DOMAIN notes = 1..Len(notes) BY <1>5
  <2> QED BY <2>1 DEF NotesKept, Once
<1>7. \A T : others \in Seq(NoteSet) /\ ToSet(others) = ToSet(notes) \ S /\ Once(others) BY <1>5, <1>6, WithoutFacts
<1>8. others \in Seq(NoteSet) /\ ToSet(others) = ToSet(notes) \ S /\ Once(others) BY <1>7
<1>9. ToSet(notes) = {notes[i] : i \in 1..Len(notes)} BY <1>5 DEF ToSet
<1> DEFINE m == Len(others)
<1>10. m \in Nat /\ DOMAIN others = 1..m BY <1>8
<1>11. ToSet(others) = {others[i] : i \in 1..m} BY <1>10 DEF ToSet
<1>12. ASSUME NEW i \in 1..m, NEW j \in 1..m, others[i].of = others[j].of PROVE i = j
  <2>1. others[i] \in ToSet(others) /\ others[j] \in ToSet(others) BY <1>11
  <2>2. PICK p \in 1..Len(notes), q \in 1..Len(notes) : others[i] = notes[p] /\ others[j] = notes[q] BY <1>8, <1>9, <2>1
  <2>3. p = q BY <1>12, <2>2 DEF NotesKept
  <2>4. others[i] = others[j] BY <2>2, <2>3
  <2> QED BY <1>8, <1>10, <2>4 DEF Once
<1>13. ASSUME NEW i \in 1..m PROVE others[i].of # Key
  <2>1. others[i] \in ToSet(others) BY <1>11
  <2> QED BY <1>8, <2>1
<1> HIDE DEF others, S, m
<1>14. all \in Seq(NoteSet) /\ Len(all) = m + 1 /\ all[m + 1] = b /\ \A i \in 1..m : all[i] = others[i]
  BY <1>2, <1>3, <1>8, <1>10 DEF m
<1>15. ASSUME NEW i \in 1..m + 1, NEW j \in 1..m + 1, all[i].of = all[j].of PROVE i = j
  <2>1. i \in 1..m \/ i = m + 1 BY <1>10
  <2>2. j \in 1..m \/ j = m + 1 BY <1>10
  <2> QED BY <1>2, <1>12, <1>13, <1>14, <1>15, <2>1, <2>2
<1>16. PICK e : e = Len(all) OBVIOUS
<1> DEFINE M == Max({1, e - MaxNotes + 1})
<1>17. M \in Int /\ M >= 1 /\ M >= e - MaxNotes + 1
  <2>1. MaxNotes \in Nat BY PlanBounds
  <2>2. PICK c : c = e - MaxNotes + 1 OBVIOUS
  <2>3. c \in Int BY <1>16, <1>10, <1>14, <2>1, <2>2
  <2>4. c <= 1 \/ c >= 1 BY <2>3
  <2>5. PICK D : D = {1, c} OBVIOUS
  <2>6. \E x \in D : \A y \in D : x >= y BY <2>3, <2>4, <2>5
  <2>7. Max(D) \in D /\ \A y \in D : Max(D) >= y BY <2>6, Zenon DEF Max
  <2>8. M = Max(D) BY <2>2, <2>5
  <2> HIDE DEF M
  <2> QED BY <2>2, <2>3, <2>5, <2>7, <2>8
<1>18. PICK k \in M..e : s = SubSeq(all, k, e) BY <1>16, <1>4 DEF Pruned
<1> HIDE DEF M
<1>19. PICK a : a = k - 1 OBVIOUS
<1>20. MaxNotes \in Nat BY PlanBounds
<1>21. a \in Nat /\ a <= e /\ k = a + 1 /\ e \in Nat /\ e - a <= MaxNotes /\ e = m + 1 BY <1>16, <1>10, <1>14, <1>17, <1>18, <1>19, <1>20
<1>22. \A u, v \in Nat : u <= v /\ v <= Len(all) =>
        /\ SubSeq(all, u + 1, v) \in Seq(NoteSet) /\ Len(SubSeq(all, u + 1, v)) = v - u
        /\ \A i \in 1..(v - u) : SubSeq(all, u + 1, v)[i] = all[u + i]
  BY <1>14, PartIs
<1>23. s \in Seq(NoteSet) /\ Len(s) = e - a /\ \A i \in 1..(e - a) : s[i] = all[a + i]
  <2>1. e <= Len(all) BY <1>16, <1>21
  <2>2. s = SubSeq(all, a + 1, e) BY <1>18, <1>21
  <2> QED BY <1>21, <1>22, <2>1, <2>2
<1>24. ASSUME NEW i \in 1..Len(s), NEW j \in 1..Len(s), s[i].of = s[j].of PROVE i = j
  <2>1. a + i \in 1..m + 1 /\ a + j \in 1..m + 1 /\ s[i] = all[a + i] /\ s[j] = all[a + j] BY <1>10, <1>21, <1>23
  <2>2. a + i = a + j BY <1>15, <1>24, <2>1
  <2> QED BY <1>21, <1>23, <2>2
<1> QED BY <1>21, <1>23, <1>24 DEF NotesKept
-----------------------------------------------------------------------------
(* The block of passages is a message of the program's own.                *)
LEMMA BlockIs ==
  ASSUME NEW ps \in Passages
  PROVE  IsNote(ContextBlock(ps), {})
<1>1. ps \in Seq(Nat) \ {<<>>} BY PlanBounds
<1>2. PICK m : m = Len(ps) OBVIOUS
<1>3. m \in Nat /\ m >= 1 BY <1>1, <1>2
<1> DEFINE A == {1} \cup {j \in 2..m : Used(ps, j) <= Budget}
<1>4. Taken(ps) = Max(A) BY <1>2 DEF Taken
<1>5. A \subseteq 1..m /\ A # {} BY <1>3
<1>6. PICK n : n = Taken(ps) OBVIOUS
<1>7. n \in A
  <2> HIDE DEF A
  <2> QED BY <1>3, <1>4, <1>5, <1>6, MaxFacts
<1>8. n \in 1..m BY <1>5, <1>7
<1>9. PICK q : q = SubSeq(ps, 1, n) OBVIOUS
<1>10. q \in Seq(Nat) /\ Len(q) = n
  <2>1. n \in 0..Len(ps) BY <1>2, <1>3, <1>8
  <2> QED BY <1>1, <1>9, <2>1, FirstPart
<1>11. Budget \in Nat BY PlanBounds DEF Budget
<1> HIDE DEF A
<1> DEFINE D == DOMAIN q
           g == [i \in 1..n |-> Min({q[i], Budget})]
           Is(it) == it = [s \in SUBSET D |-> IF s = {} THEN 0 ELSE it[s \ {Max(s)}] + Min({q[Max(s)], Budget}) + 2]
           it == CHOOSE it : Is(it)
           step == [i \in 1..n |-> [v \in Nat |-> v + g[i] + 2]]
<1>12. n \in Nat /\ D = 1..n /\ g \in [1..n -> Nat] /\ \A i \in 1..n : g[i] = Min({q[i], Budget})
  <2>1. n \in Nat /\ D = 1..n BY <1>8, <1>10
  <2>2. ASSUME NEW i \in 1..n PROVE Min({q[i], Budget}) \in Nat
    <3>1. PICK S : S = {q[i], Budget} OBVIOUS
    <3>2. S \subseteq Nat /\ S # {} BY <1>10, <1>11, <2>1, <2>2, <3>1
    <3>3. Min(S) \in S BY <3>2, MinFacts
    <3> QED BY <3>1, <3>2, <3>3
  <2> QED BY <2>1, <2>2
<1>13. Used(ps, n) = it[D] BY <1>9 DEF Used, FoldLeft, MapThenFoldSet
<1>14. \A i \in 1..n : \A v \in Nat : step[i][v] = v + g[i] + 2 OBVIOUS
<1> HIDE DEF step, g
<1>15. PICK V, b : V = Nat /\ b = 0 OBVIOUS
<1>16. StepsIn(step, 1..n, V) /\ b \in V
  <2>1. ASSUME NEW i \in 1..n, NEW v \in Nat PROVE step[i][v] \in Nat
    <3>1. PICK d : d = g[i] OBVIOUS
    <3>2. d \in Nat BY <1>12, <3>1
    <3>3. step[i][v] = v + d + 2 BY <1>14, <3>1
    <3> QED BY <3>2, <3>3
  <2> QED BY <1>15, <2>1 DEF StepsIn
<1>17. \E k : Is(k)
  <2>1. PICK k : MaxFold(k, n, b, V, step) BY <1>12, <1>16, FoldFunctionExists
  <2>2. \A s \in SUBSET D : k[s] = IF s = {} THEN 0 ELSE k[s \ {Max(s)}] + Min({q[Max(s)], Budget}) + 2
    <3> TAKE s \in SUBSET D
    <3>0. s \in SUBSET (1..n) BY <1>12
    <3>1. CASE s = {} BY <1>15, <2>1, <3>0, <3>1 DEF MaxFold
    <3>2. CASE s # {}
      <4>1. Max(s) \in 1..n BY <1>12, <3>0, <3>2, MaxFacts
      <4>2. k[s \ {Max(s)}] \in Nat BY <1>15, <2>1, <3>0 DEF MaxFold
      <4>3. k[s] = step[Max(s)][k[s \ {Max(s)}]] BY <2>1, <3>0, <3>2 DEF MaxFold
      <4> QED BY <1>12, <1>14, <3>2, <4>1, <4>2, <4>3
    <3> QED BY <3>1, <3>2
  <2>3. k = [s \in SUBSET D |-> k[s]] BY <1>12, <2>1 DEF MaxFold
  <2>4. Is(k) BY <2>2, <2>3
  <2> QED BY <2>4
<1>18. Is(it) BY <1>17
<1> HIDE DEF it
<1>19. \A s \in SUBSET (1..n) : it[s] = IF s = {} THEN b ELSE it[s \ {Max(s)}] + g[Max(s)] + 2
  <2> TAKE s \in SUBSET (1..n)
  <2>1. it[s] = IF s = {} THEN 0 ELSE it[s \ {Max(s)}] + Min({q[Max(s)], Budget}) + 2 BY <1>12, <1>18
  <2>2. CASE s = {} BY <1>15, <2>1, <2>2
  <2>3. CASE s # {}
    <3>1. Max(s) \in 1..n BY <1>12, <2>3, MaxFacts
    <3> QED BY <1>12, <2>1, <2>3, <3>1
  <2> QED BY <2>2, <2>3
<1>20. Folds(it, n, b, V, step)
  <2>1. it[{}] = b BY <1>19
  <2>2. ASSUME NEW s \in SUBSET (1..n), s # {}, it[s \ {Max(s)}] \in V
        PROVE  it[s] = step[Max(s)][it[s \ {Max(s)}]]
    <3>1. Max(s) \in 1..n BY <1>12, <2>2, MaxFacts
    <3>2. PICK i, v : i = Max(s) /\ v = it[s \ {Max(s)}] OBVIOUS
    <3>3. it[s] = v + g[i] + 2 BY <1>19, <2>2, <3>2
    <3>4. i \in 1..n /\ v \in Nat BY <1>15, <2>2, <3>1, <3>2
    <3>5. step[i][v] = v + g[i] + 2 BY <1>14, <3>4
    <3> QED BY <3>2, <3>3, <3>5
  <2> QED BY <2>1, <2>2 DEF Folds
<1>21. PICK f : Through(f, n, b, V, step) /\ it[1..n] = f[n]
  <2> HIDE DEF D
  <2> QED BY <1>12, <1>16, <1>20, FoldGoesThrough
<1>22. f[n] \in Nat BY <1>12, <1>15, <1>21 DEF Through
<1>23. Used(ps, n) \in Nat BY <1>12, <1>13, <1>21, <1>22
<1>24. PICK size, e : size = Header + Used(ps, n) /\ e = {} OBVIOUS
<1>25. size \in Nat BY <1>23, <1>24, PlanBounds
<1>26. ContextBlock(ps) = Note(size, e) BY <1>6, <1>24 DEF ContextBlock
<1>27. e \in SUBSET Nat BY <1>24
<1>28. IsNote(Note(size, e), e) BY <1>25, <1>27, NoteIs
<1> QED BY <1>24, <1>26, <1>28
-----------------------------------------------------------------------------
(* The shapes of a request's fields, at every step of its handler.         *)
Phases == {"idle", "images", "model", "compress", "plan", "walk", "ground", "sent", "done", "refused"}
PhaseFits(at, why) ==
  at \in Phases /\ why \in {"none", "invalid", "image", "model", "rag", "large"} /\ (why # "none" <=> at = "refused")
PlanTyped ==
  /\ config \in Configs /\ said \in SaidSet /\ asks \in 0..MaxAsks /\ images \in Nat /\ workspace \in BOOLEAN
  /\ Prepared(prepared, images) /\ PhaseFits(phase, outcome)
  /\ messages \in Seq(MsgSet) /\ left \in Seq(MarkedSet) /\ rebuilt \in Seq(MsgSet) /\ NotesKept(notes)
  /\ phase # "walk" => left = <<>> /\ rebuilt = <<>>
  /\ phase = "walk" => Splits(messages, config.keep)

(* They imply the type invariant.                                          *)
LEMMA TypedIs == PlanTyped => PlanTypeOK
<1> SUFFICES ASSUME PlanTyped PROVE PlanTypeOK OBVIOUS
<1>1. notes \in Seq(NoteSet) BY DEF PlanTyped, NotesKept
<1>2. DOMAIN notes = 1..Len(notes) BY <1>1
<1> QED BY <1>2 DEF PlanTyped, PlanTypeOK, NotesKept, PhaseFits, Phases

(* What the constants' assumptions say of a configuration.                 *)
LEMMA ConfigIs ==
  ASSUME config \in Configs
  PROVE  config.keep \in Nat \ {0} /\ config.mode \in {"off", "compress", "plan"} /\ config.persist \in BOOLEAN
         /\ config.protect \in BOOLEAN
BY ConfigsShaped

(* Nothing is asked yet.                                                   *)
LEMMA TypedBegins == PlanInit => PlanTyped
<1> SUFFICES ASSUME PlanInit PROVE PlanTyped OBVIOUS
<1>1. /\ config \in Configs /\ said \in SaidSet /\ asks = 0 /\ phase = "idle" /\ prepared = <<>> /\ messages = <<>>
      /\ images = 0 /\ workspace = FALSE /\ left = <<>> /\ rebuilt = <<>> /\ notes = <<>> /\ outcome = "none"
  BY DEF PlanInit, SaidSet
<1>2. PICK P : P = <<>> OBVIOUS
<1>3. Prepared(P, 0)
  <2>1. P \in Seq(MsgSet) /\ Len(P) = 0 /\ DOMAIN P = {} BY <1>2
  <2>2. ImagesIn(P) = 0 BY <2>1, NoImages
  <2>3. Apart(P) BY <2>1 DEF Apart
  <2> QED BY <2>1, <2>2, <2>3 DEF Prepared
<1>4. Prepared(prepared, images) BY <1>1, <1>2, <1>3
<1>5. NotesKept(notes)
  <2>1. MaxNotes \in Nat BY PlanBounds
  <2>2. notes \in Seq(NoteSet) /\ Len(notes) = 0 BY <1>1
  <2> QED BY <2>1, <2>2 DEF NotesKept
<1>6. asks \in 0..MaxAsks BY <1>1, PlanBounds
<1>7. PhaseFits(phase, outcome) BY <1>1 DEF PhaseFits, Phases
<1>8. messages \in Seq(MsgSet) /\ left \in Seq(MarkedSet) /\ rebuilt \in Seq(MsgSet) BY <1>1
<1> QED BY <1>1, <1>4, <1>5, <1>6, <1>7, <1>8 DEF PlanTyped

(* What is asked is a conversation the client's API knows.                 *)
LEMMA AskTyped ==
  ASSUME PlanTyped, Ask
  PROVE  /\ PlanTyped'
         /\ \/ phase' = "refused"
            \/ phase' = "images" /\ messages' = prepared'
<1>1. /\ config' = config /\ said' = said /\ left' = left /\ rebuilt' = rebuilt /\ notes' = notes
      /\ workspace' = FALSE /\ phase \in {"idle", "done", "refused"} /\ asks < MaxAsks /\ asks' = asks + 1
  BY DEF Ask
<1>2. asks' \in 0..MaxAsks BY <1>1, PlanBounds DEF PlanTyped
<1>3. left = <<>> /\ rebuilt = <<>> BY <1>1 DEF PlanTyped
<1>4. ASSUME Chat
      PROVE  /\ Prepared(prepared', images') /\ images' \in Nat /\ messages' \in Seq(MsgSet)
             /\ PhaseFits(phase', outcome') /\ (phase' = "refused" \/ (phase' = "images" /\ messages' = prepared'))
  <2> DEFINE ms == Numbered(said.talk)
             front == IF said.format THEN WithFormat(ms) ELSE ms
  <2>1. said.route = "openai" BY <1>4 DEF Chat
  <2>2. said.talk \in ChatTalks BY <2>1 DEF PlanTyped, SaidSet
  <2>3. CASE \E i \in DOMAIN ms : Malformed(ms[i])
    <3>1. phase' = "refused" /\ outcome' = "invalid" /\ prepared' = prepared /\ messages' = messages /\ images' = images
      BY <1>4, <2>3 DEF Chat, Refuse
    <3>2. PhaseFits(phase', outcome') BY <3>1 DEF PhaseFits, Phases
    <3>3. Prepared(prepared, images) /\ images \in Nat /\ messages \in Seq(MsgSet) BY DEF PlanTyped
    <3>4. Prepared(prepared', images') BY <3>1, <3>3
    <3>5. images' \in Nat /\ messages' \in Seq(MsgSet) BY <3>1, <3>3
    <3>6. phase' = "refused" BY <3>1
    <3> QED BY <3>2, <3>4, <3>5, <3>6
  <2>4. CASE ~\E i \in DOMAIN ms : Malformed(ms[i])
    <3>1. /\ phase' = "images" /\ messages' = front /\ prepared' = front /\ images' = ImagesIn(ms) /\ outcome' = "none"
      BY <1>4, <2>4 DEF Chat
    <3>2. PICK P : P = ms OBVIOUS
    <3>3. PICK talk \in ChatTalks : P = Numbered(talk) BY <2>2, <3>2
    <3>4. ~\E i \in DOMAIN P : Malformed(P[i]) BY <2>4, <3>2
    <3>5. Prepared(P, ImagesIn(P)) /\ Prepared(WithFormat(P), ImagesIn(P)) /\ ImagesIn(P) \in Nat
      BY <3>3, <3>4, ChatPrepared
    <3>6. messages' = prepared' /\ images' = ImagesIn(P) /\ (prepared' = P \/ prepared' = WithFormat(P)) BY <3>1, <3>2
    <3>7. Prepared(prepared', images') /\ images' \in Nat BY <3>5, <3>6
    <3>8. messages' \in Seq(MsgSet) BY <3>6, <3>7 DEF Prepared
    <3>9. PhaseFits(phase', outcome') BY <3>1 DEF PhaseFits, Phases
    <3> QED BY <3>1, <3>6, <3>7, <3>8, <3>9
  <2> QED BY <2>3, <2>4
<1>5. ASSUME Messages
      PROVE  /\ Prepared(prepared', images') /\ images' \in Nat /\ messages' \in Seq(MsgSet)
             /\ PhaseFits(phase', outcome') /\ (phase' = "refused" \/ (phase' = "images" /\ messages' = prepared'))
  <2> DEFINE ms == Numbered(Converted(said.talk))
             bad == \/ \E k \in DOMAIN said.talk : Unsupported(said.talk[k])
                    \/ \A i \in DOMAIN ms : ms[i].role \notin {"user", "assistant"}
  <2>1. said.route = "anthropic" BY <1>5 DEF Messages
  <2>2. said.talk \in MessageTalks BY <2>1 DEF PlanTyped, SaidSet
  <2>3. CASE bad
    <3>1. phase' = "refused" /\ outcome' = "invalid" /\ prepared' = prepared /\ messages' = messages /\ images' = images
      BY <1>5, <2>3 DEF Messages, Refuse
    <3>2. PhaseFits(phase', outcome') BY <3>1 DEF PhaseFits, Phases
    <3>3. Prepared(prepared, images) /\ images \in Nat /\ messages \in Seq(MsgSet) BY DEF PlanTyped
    <3>4. Prepared(prepared', images') BY <3>1, <3>3
    <3>5. images' \in Nat /\ messages' \in Seq(MsgSet) BY <3>1, <3>3
    <3>6. phase' = "refused" BY <3>1
    <3> QED BY <3>2, <3>4, <3>5, <3>6
  <2>4. CASE ~bad
    <3>1. /\ phase' = "images" /\ messages' = ms /\ prepared' = ms /\ images' = ImagesIn(ms) /\ outcome' = "none"
      BY <1>5, <2>4 DEF Messages
    <3>2. PICK P : P = ms OBVIOUS
    <3>3. PICK talk \in MessageTalks : talk = said.talk BY <2>2
    <3>4. P = Numbered(Converted(talk)) /\ ~\E k \in DOMAIN talk : Unsupported(talk[k]) BY <2>4, <3>2, <3>3
    <3>5. Prepared(P, ImagesIn(P)) /\ ImagesIn(P) \in Nat BY <3>4, TalkPrepared
    <3>6. messages' = P /\ prepared' = P /\ images' = ImagesIn(P) BY <3>1, <3>2
    <3>7. Prepared(prepared', images') /\ images' \in Nat BY <3>5, <3>6
    <3>8. messages' \in Seq(MsgSet) BY <3>6, <3>7 DEF Prepared
    <3>9. PhaseFits(phase', outcome') BY <3>1 DEF PhaseFits, Phases
    <3> QED BY <3>1, <3>6, <3>7, <3>8, <3>9
  <2> QED BY <2>3, <2>4
<1>6. /\ Prepared(prepared', images') /\ images' \in Nat /\ messages' \in Seq(MsgSet)
      /\ PhaseFits(phase', outcome') /\ (phase' = "refused" \/ (phase' = "images" /\ messages' = prepared'))
  BY <1>4, <1>5 DEF Ask
<1>7. /\ config' \in Configs /\ said' \in SaidSet /\ left' = <<>> /\ rebuilt' = <<>> /\ NotesKept(notes')
      /\ workspace' \in BOOLEAN /\ left' \in Seq(MarkedSet) /\ rebuilt' \in Seq(MsgSet)
  BY <1>1, <1>3 DEF PlanTyped
<1>8. PlanTyped' BY <1>2, <1>6, <1>7 DEF PlanTyped
<1> QED BY <1>6, <1>8
-----------------------------------------------------------------------------
(* Every step keeps the shapes of a request's fields.                      *)
(* What a step that leaves the conversation alone has to show.             *)
LEMMA TypedFrom ==
  ASSUME PlanTyped, config' = config, said' = said, asks' = asks, prepared' = prepared, images' = images,
         workspace' \in BOOLEAN, PhaseFits(phase', outcome'), messages' \in Seq(MsgSet), left' \in Seq(MarkedSet),
         rebuilt' \in Seq(MsgSet), NotesKept(notes'), phase' # "walk" => left' = <<>> /\ rebuilt' = <<>>,
         phase' = "walk" => Splits(messages', config.keep)
  PROVE  PlanTyped'
<1>1. config' \in Configs /\ said' \in SaidSet /\ asks' \in 0..MaxAsks /\ images' \in Nat BY DEF PlanTyped
<1>2. Prepared(prepared', images') BY DEF PlanTyped
<1>3. phase' = "walk" => Splits(messages', config'.keep) OBVIOUS
<1> QED BY <1>1, <1>2, <1>3 DEF PlanTyped

(* The fields a step of the request's handler leaves alone.                *)
Framed5 == config' = config /\ said' = said /\ asks' = asks /\ prepared' = prepared /\ images' = images

(* The planner places messages.                                            *)
LEMMA PlaceTyped ==
  ASSUME left \in Seq(MarkedSet), rebuilt \in Seq(MsgSet), NEW ms \in Seq(MsgSet), NEW n \in 0..Len(left), Place(ms, n)
  PROVE  /\ left' \in Seq(MarkedSet) /\ Len(left') = Len(left) - n /\ \A i \in 1..(Len(left) - n) : left'[i] = left[n + i]
         /\ rebuilt' = rebuilt \o ms /\ rebuilt' \in Seq(MsgSet) /\ phase' = phase
<1>1. rebuilt' = rebuilt \o ms /\ left' = SubSeq(left, n + 1, Len(left)) /\ phase' = phase BY DEF Place
<1>2. Len(left) \in Nat /\ n \in Nat /\ n <= Len(left) /\ Len(left) <= Len(left) OBVIOUS
<1>3. \A u, v \in Nat : u <= v /\ v <= Len(left) =>
        /\ SubSeq(left, u + 1, v) \in Seq(MarkedSet) /\ Len(SubSeq(left, u + 1, v)) = v - u
        /\ \A i \in 1..(v - u) : SubSeq(left, u + 1, v)[i] = left[u + i]
  BY PartIs
<1>4. /\ SubSeq(left, n + 1, Len(left)) \in Seq(MarkedSet) /\ Len(SubSeq(left, n + 1, Len(left))) = Len(left) - n
      /\ \A i \in 1..(Len(left) - n) : SubSeq(left, n + 1, Len(left))[i] = left[n + i]
  BY <1>2, <1>3
<1>5. left' \in Seq(MarkedSet) /\ Len(left') = Len(left) - n /\ \A i \in 1..(Len(left) - n) : left'[i] = left[n + i]
  BY <1>1, <1>4
<1>6. rebuilt' \in Seq(MsgSet)
  <2>1. rebuilt \o ms \in Seq(MsgSet) OBVIOUS
  <2> QED BY <1>1, <2>1
<1> QED BY <1>1, <1>5, <1>6

(* What the planner places for its first message or its run, and the notes *)
(* then.                                                                   *)
Walked(r, n) ==
  \/ /\ left[1].label = "exact" /\ n = 1 /\ r = <<left[1].message>>
  \/ /\ left[1].label = "cold" /\ n = 1 /\ r = <<>>
  \/ /\ RunLength > 0 /\ n = RunLength /\ r = Run
  \/ /\ RunLength > 0 /\ n = RunLength /\ \E b : r = <<b>> /\ IsNote(b, Key)
Walk == PlaceExact \/ DropCold \/ NoteHit \/ NoteWritten \/ NoteEmpty

(* Each of these steps places so, and changes nothing else but the notes.  *)
LEMMA WalkPlaces ==
  ASSUME PlanTyped, Walk
  PROVE  /\ phase = "walk" /\ left # <<>> /\ Framed5 /\ messages' = messages /\ workspace' = workspace /\ outcome' = outcome
         /\ \E r \in Seq(MsgSet) : \E n \in 1..Len(left) : Place(r, n) /\ Walked(r, n)
         /\ NotesKept(notes')
<1>0. left \in Seq(MarkedSet) /\ rebuilt \in Seq(MsgSet) /\ NotesKept(notes) BY DEF PlanTyped
<1>1. Len(left) \in Nat /\ (left # <<>> => Len(left) >= 1) /\ \A i \in 1..Len(left) : left[i] \in MarkedSet BY <1>0
<1>2. \A v \in MarkedSet : v.message \in MsgSet BY DEF MarkedSet
<1>3. /\ RunLength \in 0..Len(left) /\ Run \in Seq(MsgSet) /\ Key \in SUBSET Nat BY <1>0, RunIs
<1>4. RunLength > 0 => RunLength \in 1..Len(left) /\ left # <<>> BY <1>1, <1>3
<1> DEFINE Goal == \E r \in Seq(MsgSet) : \E n \in 1..Len(left) : Place(r, n) /\ Walked(r, n)
           Held4 == Framed5 /\ messages' = messages /\ workspace' = workspace /\ outcome' = outcome
<1>5. CASE PlaceExact
  <2>1. phase = "walk" /\ left # <<>> /\ left[1].label = "exact" /\ Place(<<left[1].message>>, 1) /\ Held4 /\ notes' = notes
    BY <1>5 DEF PlaceExact, walkFrame, askFrame, Framed5
  <2>2. PICK r : r = <<left[1].message>> OBVIOUS
  <2>3. r \in Seq(MsgSet)
    <3>1. left[1] \in MarkedSet BY <1>1, <2>1
    <3>2. left[1].message \in MsgSet BY <1>2, <3>1
    <3> QED BY <2>2, <3>2, OneIsSeq
  <2>4. 1 \in 1..Len(left) BY <1>1, <2>1
  <2>5. Place(r, 1) /\ Walked(r, 1) BY <2>1, <2>2 DEF Walked
  <2>6. Goal BY <2>3, <2>4, <2>5
  <2> HIDE DEF Goal
  <2>7. NotesKept(notes') BY <1>0, <2>1
  <2> QED BY <2>1, <2>6, <2>7 DEF Goal
<1>6. CASE DropCold
  <2>1. phase = "walk" /\ left # <<>> /\ left[1].label = "cold" /\ Place(<<>>, 1) /\ Held4 /\ notes' = notes
    BY <1>6 DEF DropCold, walkFrame, askFrame, Framed5
  <2>2. PICK r : r = <<>> OBVIOUS
  <2>3. r \in Seq(MsgSet) BY <2>2
  <2>4. 1 \in 1..Len(left) BY <1>1, <2>1
  <2>5. Place(r, 1) /\ Walked(r, 1) BY <2>1, <2>2 DEF Walked
  <2>6. Goal BY <2>3, <2>4, <2>5
  <2> HIDE DEF Goal
  <2>7. NotesKept(notes') BY <1>0, <2>1
  <2> QED BY <2>1, <2>6, <2>7 DEF Goal
<1>7. ASSUME NEW size \in Nat, Place(<<Note(size, Key)>>, RunLength), RunLength > 0
      PROVE  Goal
  <2>1. PICK b, of : b = Note(size, of) /\ of = Key OBVIOUS
  <2>2. IsNote(b, of) BY <1>3, <2>1, NoteIs
  <2>3. PICK r : r = <<b>> OBVIOUS
  <2>4. r \in Seq(MsgSet)
    <3>1. b \in MsgSet BY <2>2 DEF IsNote
    <3> QED BY <2>3, <3>1, OneIsSeq
  <2>5. PICK n : n = RunLength OBVIOUS
  <2>6. Place(r, n) BY <1>7, <2>1, <2>3, <2>5
  <2>7. Walked(r, n) BY <1>7, <2>1, <2>2, <2>3, <2>5 DEF Walked
  <2>8. n \in 1..Len(left) BY <1>4, <1>7, <2>5
  <2> QED BY <2>4, <2>6, <2>7, <2>8
<1>8. CASE NoteHit
  <2>1. phase = "walk" /\ RunLength > 0 /\ Held4 /\ notes' = notes
    BY <1>8 DEF NoteHit, walkFrame, askFrame, Framed5
  <2>2. PICK i \in Readable : Place(<<Note(notes[i].size, Key)>>, RunLength) BY <1>8 DEF NoteHit
  <2>3. PICK size : size = notes[i].size OBVIOUS
  <2>4. size \in Nat
    <3>1. notes \in Seq(NoteSet) /\ i \in DOMAIN notes BY <1>0 DEF NotesKept, Readable
    <3>2. notes[i] \in NoteSet BY <3>1
    <3> QED BY <2>3, <3>2 DEF NoteSet
  <2>5. Place(<<Note(size, Key)>>, RunLength) BY <2>2, <2>3
  <2>6. Goal BY <1>7, <2>1, <2>4, <2>5
  <2> HIDE DEF Goal
  <2>7. NotesKept(notes') BY <1>0, <2>1
  <2> QED BY <1>4, <2>1, <2>6, <2>7 DEF Goal
<1>9. CASE NoteWritten
  <2>1. phase = "walk" /\ RunLength > 0 /\ Held4
    BY <1>9 DEF NoteWritten, walkFrame, askFrame, Framed5
  <2>2. PICK note \in Summaries(Key) :
          Place(<<note>>, RunLength) /\ notes' \in IF config.persist THEN Stored(note.size) \cup {notes} ELSE {notes}
    BY <1>9 DEF NoteWritten
  <2>3. PICK size \in NoteSizes : note = Note(size, Key) BY DEF Summaries
  <2>4. size \in Nat BY <2>3, PlanBounds
  <2>5. Place(<<Note(size, Key)>>, RunLength) BY <2>2, <2>3
  <2>6. Goal BY <1>7, <2>1, <2>4, <2>5
  <2>7. note.size \in Nat
    <3>1. PICK of : of = Key OBVIOUS
    <3>2. Note(size, of).size = size BY <1>3, <2>4, <3>1, NoteIs
    <3> QED BY <2>3, <2>4, <3>1, <3>2
  <2>8. NotesKept(notes')
    <3>1. PICK v : v = note.size OBVIOUS
    <3>2. PICK s : s = notes' OBVIOUS
    <3>3. s \in Stored(v) \/ s = notes BY <2>2, <3>1, <3>2
    <3>4. s \in Stored(v) => NotesKept(s) BY <1>0, <1>3, <2>7, <3>1, StoredKept
    <3> QED BY <1>0, <3>2, <3>3, <3>4
  <2> HIDE DEF Goal
  <2> QED BY <1>4, <2>1, <2>6, <2>8 DEF Goal
<1>10. CASE NoteEmpty
  <2>1. phase = "walk" /\ RunLength > 0 /\ Held4 /\ notes' = notes /\ Place(Run, RunLength)
    BY <1>10 DEF NoteEmpty, walkFrame, askFrame, Framed5
  <2>2. PICK r, n : r = Run /\ n = RunLength OBVIOUS
  <2>3. r \in Seq(MsgSet) /\ n \in 1..Len(left) BY <1>3, <1>4, <2>1, <2>2
  <2>4. Place(r, n) /\ Walked(r, n) BY <2>1, <2>2 DEF Walked
  <2>5. Goal BY <2>3, <2>4
  <2> HIDE DEF Goal
  <2>6. NotesKept(notes') BY <1>0, <2>1
  <2> QED BY <1>4, <2>1, <2>5, <2>6 DEF Goal
<1> QED BY <1>5, <1>6, <1>8, <1>9, <1>10 DEF Walk
-----------------------------------------------------------------------------
(* One replacement of the middle of a prompt that is cut.                  *)
LEMMA CutTyped ==
  ASSUME NEW W \in Seq(MsgSet), NEW keep \in Nat \ {0}, Splits(W, keep), NEW r \in Seq(MsgSet)
  PROVE  /\ (Lead(W) \o r) \o Rest(W, keep) \in Seq(MsgSet)
         /\ Joined((Lead(W) \o r) \o Rest(W, keep), Lead(W), r, Rest(W, keep))
<1>1. Joined(W, Lead(W), Middle(W, keep), Rest(W, keep)) BY PartsAre
<1>2. PICK x, y : x = Lead(W) /\ y = Rest(W, keep) OBVIOUS
<1>3. x \in Seq(MsgSet) /\ y \in Seq(MsgSet) BY <1>1, <1>2 DEF Joined
<1>4. \A v1, v2, v3 \in Seq(MsgSet) : Joined((v1 \o v2) \o v3, v1, v2, v3) BY JoinsAre
<1>5. Joined((x \o r) \o y, x, r, y) BY <1>3, <1>4
<1>6. (x \o r) \o y \in Seq(MsgSet) BY <1>5 DEF Joined
<1> QED BY <1>2, <1>5, <1>6

(* The steps of the handler but the first and the planner's.               *)
LEMMA HandlerTyped ==
  ASSUME PlanTyped,
         \/ Resolve \/ EnsureModel \/ NoModel \/ Uncompressed \/ Compress \/ Unplanned \/ PlanBegins \/ PlanFails
         \/ PlanEnds \/ NoteSpoils \/ Ungrounded \/ Ground \/ NoPassages \/ TooLarge \/ Generated
  PROVE  PlanTyped' /\ Framed5
<1>0. /\ config.keep \in Nat \ {0} /\ messages \in Seq(MsgSet) /\ left \in Seq(MarkedSet) /\ rebuilt \in Seq(MsgSet)
      /\ NotesKept(notes) /\ workspace \in BOOLEAN /\ images \in Nat /\ PhaseFits(phase, outcome)
      /\ (phase # "walk" => left = <<>> /\ rebuilt = <<>>)
  BY ConfigIs DEF PlanTyped
<1>1. ASSUME Framed5, messages' = messages, left' = left, rebuilt' = rebuilt, notes' = notes, workspace' \in BOOLEAN,
             phase # "walk", phase' # "walk", PhaseFits(phase', outcome')
      PROVE  PlanTyped' /\ Framed5
  BY <1>0, <1>1, TypedFrom DEF Framed5
<1>2. \A p : p \in {"model", "compress", "plan", "ground", "sent", "done"} /\ outcome = "none" /\ outcome' = "none" /\ phase' = p
             => PhaseFits(phase', outcome')
  BY DEF PhaseFits, Phases
<1>3. \A w : w \in {"image", "model", "rag", "large"} /\ phase' = "refused" /\ outcome' = w => PhaseFits(phase', outcome')
  BY DEF PhaseFits, Phases
<1>4. phase \in {"images", "model", "compress", "plan", "walk", "ground", "sent"} => outcome = "none" BY <1>0 DEF PhaseFits
<1>5. CASE Resolve
  <2>1. /\ phase = "images" /\ Framed5 /\ messages' = messages /\ left' = left /\ rebuilt' = rebuilt /\ notes' = notes
        /\ \/ workspace' = (images > 0) /\ phase' = "model" /\ outcome' = outcome
           \/ phase' = "refused" /\ outcome' = "image" /\ workspace' = workspace
    BY <1>5 DEF Resolve, askFrame, Framed5, Refuse
  <2>2. workspace' \in BOOLEAN /\ phase' # "walk"
    <3>1. PICK b : b = (images > 0) OBVIOUS
    <3>2. b \in BOOLEAN BY <3>1
    <3>3. workspace' = b \/ workspace' = workspace BY <2>1, <3>1
    <3>4. phase' # "walk" BY <2>1
    <3> QED BY <1>0, <3>2, <3>3, <3>4, Zenon
  <2>3. PhaseFits(phase', outcome') BY <1>2, <1>3, <1>4, <2>1
  <2> QED BY <1>1, <2>1, <2>2, <2>3
<1>6. CASE EnsureModel
  <2>1. /\ phase = "model" /\ Framed5 /\ messages' = messages /\ left' = left /\ rebuilt' = rebuilt /\ notes' = notes
        /\ workspace' = workspace /\ phase' = "compress" /\ outcome' = outcome
    BY <1>6 DEF EnsureModel, askFrame, Framed5
  <2>2. PhaseFits(phase', outcome') BY <1>2, <1>4, <2>1
  <2> QED BY <1>0, <1>1, <2>1, <2>2
<1>7. CASE NoModel
  <2>1. /\ phase = "model" /\ Framed5 /\ messages' = messages /\ left' = left /\ rebuilt' = rebuilt /\ notes' = notes
        /\ workspace' = FALSE /\ phase' = "refused" /\ outcome' = "model"
    BY <1>7 DEF NoModel, askFrame, Framed5, Refuse, Cleanup
  <2>2. PhaseFits(phase', outcome') BY <1>3, <2>1
  <2> QED BY <1>1, <2>1, <2>2
<1>8. CASE Uncompressed
  <2>1. /\ phase = "compress" /\ Framed5 /\ messages' = messages /\ left' = left /\ rebuilt' = rebuilt /\ notes' = notes
        /\ workspace' = workspace /\ phase' = "plan" /\ outcome' = outcome
    BY <1>8 DEF Uncompressed, askFrame, Framed5
  <2>2. PhaseFits(phase', outcome') BY <1>2, <1>4, <2>1
  <2> QED BY <1>0, <1>1, <2>1, <2>2
<1>9. CASE Compress
  <2>1. /\ phase = "compress" /\ Framed5 /\ left' = left /\ rebuilt' = rebuilt /\ notes' = notes
        /\ workspace' = workspace /\ phase' = "plan" /\ outcome' = outcome /\ Splits(messages, config.keep)
    BY <1>9 DEF Compress, askFrame, Framed5, Compresses
  <2>2. PhaseFits(phase', outcome') BY <1>2, <1>4, <2>1
  <2>3. PICK note \in Summaries(PlacesOf(Middle(messages, config.keep))) :
          messages' = Lead(messages) \o <<note>> \o Rest(messages, config.keep)
    BY <1>9 DEF Compress
  <2>4. messages' \in Seq(MsgSet)
    <3>1. PICK of : of = PlacesOf(Middle(messages, config.keep)) OBVIOUS
    <3>2. of \in SUBSET Nat
      <4>1. Joined(messages, Lead(messages), Middle(messages, config.keep), Rest(messages, config.keep)) BY <1>0, <2>1, PartsAre
      <4>2. Middle(messages, config.keep) \in Seq(MsgSet) BY <4>1 DEF Joined
      <4> QED BY <3>1, <4>2, PlacesAre
    <3>3. PICK size \in NoteSizes : note = Note(size, of) BY <3>1 DEF Summaries
    <3>4. size \in Nat BY <3>3, PlanBounds
    <3>5. IsNote(note, of) BY <3>2, <3>3, <3>4, NoteIs
    <3>6. note \in MsgSet BY <3>5 DEF IsNote
    <3>7. PICK r : r = <<note>> OBVIOUS
    <3>8. r \in Seq(MsgSet) BY <3>6, <3>7, OneIsSeq
    <3>9. (Lead(messages) \o r) \o Rest(messages, config.keep) \in Seq(MsgSet) BY <1>0, <2>1, <3>8, CutTyped
    <3> QED BY <2>3, <3>7, <3>9
  <2>5. left' \in Seq(MarkedSet) /\ rebuilt' \in Seq(MsgSet) /\ NotesKept(notes') /\ workspace' \in BOOLEAN
        /\ left' = <<>> /\ rebuilt' = <<>> /\ phase' # "walk"
    BY <1>0, <2>1
  <2> QED BY <2>1, <2>2, <2>4, <2>5, TypedFrom DEF Framed5
<1>10. CASE Unplanned
  <2>1. /\ phase = "plan" /\ Framed5 /\ messages' = messages /\ left' = left /\ rebuilt' = rebuilt /\ notes' = notes
        /\ workspace' = workspace /\ phase' = "ground" /\ outcome' = outcome
    BY <1>10 DEF Unplanned, askFrame, Framed5
  <2>2. PhaseFits(phase', outcome') BY <1>2, <1>4, <2>1
  <2> QED BY <1>0, <1>1, <2>1, <2>2
<1>11. CASE PlanBegins
  <2>1. /\ phase = "plan" /\ Framed5 /\ messages' = messages /\ rebuilt' = <<>> /\ notes' = notes
        /\ workspace' = workspace /\ phase' = "walk" /\ outcome' = outcome
        /\ left' = Labelled(Middle(messages, config.keep)) /\ Splits(messages, config.keep)
    BY <1>11 DEF PlanBegins, askFrame, Framed5, Plans
  <2>2. PhaseFits(phase', outcome') BY <1>4, <2>1 DEF PhaseFits, Phases
  <2>3. left' \in Seq(MarkedSet)
    <3>1. Joined(messages, Lead(messages), Middle(messages, config.keep), Rest(messages, config.keep)) BY <1>0, <2>1, PartsAre
    <3>2. Middle(messages, config.keep) \in Seq(MsgSet) BY <3>1 DEF Joined
    <3>3. Labelled(Middle(messages, config.keep)) \in Seq(MarkedSet) BY <3>2, LabelledIs
    <3> QED BY <2>1, <3>3
  <2>4. rebuilt' \in Seq(MsgSet) /\ NotesKept(notes') /\ workspace' \in BOOLEAN /\ messages' \in Seq(MsgSet) BY <1>0, <2>1
  <2>5. Splits(messages', config.keep) BY <2>1
  <2> QED BY <2>1, <2>2, <2>3, <2>4, <2>5, TypedFrom DEF Framed5
<1>12. CASE PlanFails
  <2>1. /\ phase = "walk" /\ Framed5 /\ messages' = messages /\ left' = <<>> /\ rebuilt' = <<>> /\ notes' = notes
        /\ workspace' = workspace /\ phase' = "ground" /\ outcome' = outcome
    BY <1>12 DEF PlanFails, walkFrame, askFrame, Framed5
  <2>2. PhaseFits(phase', outcome') BY <1>2, <1>4, <2>1
  <2>3. left' \in Seq(MarkedSet) /\ rebuilt' \in Seq(MsgSet) /\ NotesKept(notes') /\ workspace' \in BOOLEAN
        /\ messages' \in Seq(MsgSet) /\ phase' # "walk"
    BY <1>0, <2>1
  <2> QED BY <2>1, <2>2, <2>3, TypedFrom DEF Framed5
<1>13. CASE PlanEnds
  <2> DEFINE planned == Lead(messages) \o rebuilt \o Rest(messages, config.keep)
  <2>1. /\ phase = "walk" /\ Framed5 /\ left = <<>> /\ left' = left /\ rebuilt' = <<>> /\ notes' = notes
        /\ workspace' = workspace /\ phase' = "ground" /\ outcome' = outcome
        /\ messages' = IF 100 * Total(planned) >= 95 * Total(messages) THEN messages ELSE planned
    BY <1>13 DEF PlanEnds, askFrame, Framed5
  <2>2. PhaseFits(phase', outcome') BY <1>2, <1>4, <2>1
  <2>3. Splits(messages, config.keep) BY <2>1 DEF PlanTyped
  <2>4. planned \in Seq(MsgSet) BY <1>0, <2>3, CutTyped
  <2> HIDE DEF planned
  <2>5. messages' \in Seq(MsgSet) BY <1>0, <2>1, <2>4
  <2>6. left' \in Seq(MarkedSet) /\ left' = <<>> /\ rebuilt' \in Seq(MsgSet) /\ NotesKept(notes') /\ workspace' \in BOOLEAN
        /\ phase' # "walk"
    BY <1>0, <2>1
  <2> QED BY <2>1, <2>2, <2>5, <2>6, TypedFrom DEF Framed5
<1>14. CASE NoteSpoils
  <2>1. /\ phase \in {"idle", "done", "refused"} /\ Framed5 /\ messages' = messages /\ left' = left /\ rebuilt' = rebuilt
        /\ workspace' = workspace /\ phase' = phase /\ outcome' = outcome
    BY <1>14 DEF NoteSpoils, askFrame, Framed5
  <2>2. PICK i \in DOMAIN notes : notes' = [notes EXCEPT ![i].read = FALSE] BY <1>14 DEF NoteSpoils
  <2>3. NotesKept(notes')
    <3>1. notes \in Seq(NoteSet) /\ Len(notes) <= MaxNotes BY <1>0 DEF NotesKept
    <3>2. PICK n, b : n = Len(notes) /\ b = [notes[i] EXCEPT !.read = FALSE] OBVIOUS
    <3>3. n \in Nat /\ DOMAIN notes = 1..n /\ notes[i] \in NoteSet BY <3>1, <3>2
    <3>4. b \in NoteSet /\ b.of = notes[i].of
      <4>1. PICK d : d = notes[i] OBVIOUS
      <4>2. d \in NoteSet /\ b = [d EXCEPT !.read = FALSE] BY <3>2, <3>3, <4>1
      <4>3. b \in NoteSet /\ b.of = d.of BY <4>2 DEF NoteSet
      <4> QED BY <4>1, <4>3
    <3>5. PICK s : s = [notes EXCEPT ![i] = b] OBVIOUS
    <3>6. notes' = s BY <2>2, <3>2, <3>5
    <3>7. s \in Seq(NoteSet) /\ Len(s) = n /\ \A j \in 1..n : s[j].of = notes[j].of
      <4>1. s \in [1..n -> NoteSet] BY <3>1, <3>3, <3>4, <3>5
      <4>2. s \in Seq(NoteSet) /\ Len(s) = n BY <3>3, <4>1, SeqFrom
      <4>3. \A j \in 1..n : s[j] = IF j = i THEN b ELSE notes[j] BY <3>3, <3>5
      <4>4. \A j \in 1..n : s[j].of = notes[j].of BY <3>4, <4>3
      <4> QED BY <4>2, <4>4
    <3>8. NotesKept(s) BY <1>0, <3>1, <3>2, <3>7 DEF NotesKept
    <3> QED BY <3>6, <3>8
  <2>4. messages' \in Seq(MsgSet) /\ left' \in Seq(MarkedSet) /\ rebuilt' \in Seq(MsgSet) /\ workspace' \in BOOLEAN
        /\ left' = <<>> /\ rebuilt' = <<>> /\ phase' # "walk"
    BY <1>0, <2>1
  <2>5. PhaseFits(phase', outcome') BY <1>0, <2>1
  <2> QED BY <2>1, <2>3, <2>4, <2>5, TypedFrom DEF Framed5
<1>15. CASE Ungrounded
  <2>1. /\ phase = "ground" /\ Framed5 /\ messages' = messages /\ left' = left /\ rebuilt' = rebuilt /\ notes' = notes
        /\ workspace' = workspace /\ phase' = "sent" /\ outcome' = outcome
    BY <1>15 DEF Ungrounded, askFrame, Framed5
  <2>2. PhaseFits(phase', outcome') BY <1>2, <1>4, <2>1
  <2> QED BY <1>0, <1>1, <2>1, <2>2
<1>16. CASE Ground
  <2>1. /\ phase = "ground" /\ Framed5 /\ left' = left /\ rebuilt' = rebuilt /\ notes' = notes
        /\ workspace' = workspace /\ phase' = "sent" /\ outcome' = outcome
    BY <1>16 DEF Ground, askFrame, Framed5
  <2>2. PICK ps \in Passages : messages' = Injected(ContextBlock(ps), messages) BY <1>16 DEF Ground
  <2>3. PICK b, e : b = ContextBlock(ps) /\ e = {} OBVIOUS
  <2>4. IsNote(b, e) BY <2>3, BlockIs
  <2>5. b \in MsgSet BY <2>4 DEF IsNote
  <2>6. messages' = <<b>> \o messages BY <2>2, <2>3 DEF Injected
  <2>7. <<b>> \o messages \in Seq(MsgSet) BY <1>0, <2>5
  <2>8. messages' \in Seq(MsgSet) BY <2>6, <2>7
  <2>9. PhaseFits(phase', outcome') BY <1>2, <1>4, <2>1
  <2>10. left' \in Seq(MarkedSet) /\ rebuilt' \in Seq(MsgSet) /\ NotesKept(notes') /\ workspace' \in BOOLEAN
         /\ left' = <<>> /\ rebuilt' = <<>> /\ phase' # "walk"
    BY <1>0, <2>1
  <2> QED BY <2>1, <2>8, <2>9, <2>10, TypedFrom DEF Framed5
<1>17. CASE NoPassages
  <2>1. /\ phase = "ground" /\ Framed5 /\ messages' = messages /\ left' = left /\ rebuilt' = rebuilt /\ notes' = notes
        /\ workspace' = workspace /\ phase' = "refused" /\ outcome' = "rag"
    BY <1>17 DEF NoPassages, askFrame, Framed5, Refuse
  <2>2. PhaseFits(phase', outcome') BY <1>3, <2>1
  <2> QED BY <1>0, <1>1, <2>1, <2>2
<1>18. CASE TooLarge
  <2>1. /\ phase = "sent" /\ Framed5 /\ messages' = messages /\ left' = left /\ rebuilt' = rebuilt /\ notes' = notes
        /\ workspace' = FALSE /\ phase' = "refused" /\ outcome' = "large"
    BY <1>18 DEF TooLarge, askFrame, Framed5, Refuse, Cleanup
  <2>2. PhaseFits(phase', outcome') BY <1>3, <2>1
  <2> QED BY <1>1, <2>1, <2>2
<1>19. CASE Generated
  <2>1. /\ phase = "sent" /\ Framed5 /\ messages' = messages /\ left' = left /\ rebuilt' = rebuilt /\ notes' = notes
        /\ workspace' = FALSE /\ phase' = "done" /\ outcome' = outcome
    BY <1>19 DEF Generated, askFrame, Framed5, Cleanup
  <2>2. PhaseFits(phase', outcome') BY <1>2, <1>4, <2>1
  <2> QED BY <1>1, <2>1, <2>2
<1> QED BY <1>5, <1>6, <1>7, <1>8, <1>9, <1>10, <1>11, <1>12, <1>13, <1>14, <1>15, <1>16, <1>17, <1>18, <1>19

(* Every step.                                                             *)
LEMMA TypedKeeps == PlanTyped /\ [PlanNext]_planVars => PlanTyped'
<1> SUFFICES ASSUME PlanTyped, [PlanNext]_planVars PROVE PlanTyped' OBVIOUS
<1>1. CASE UNCHANGED planVars
  <2>1. /\ config' = config /\ said' = said /\ asks' = asks /\ phase' = phase /\ prepared' = prepared
        /\ messages' = messages /\ images' = images /\ workspace' = workspace /\ left' = left /\ rebuilt' = rebuilt
        /\ notes' = notes /\ outcome' = outcome
    BY <1>1 DEF planVars
  <2>2. /\ workspace' \in BOOLEAN /\ PhaseFits(phase', outcome') /\ messages' \in Seq(MsgSet) /\ left' \in Seq(MarkedSet)
        /\ rebuilt' \in Seq(MsgSet) /\ NotesKept(notes') /\ (phase' # "walk" => left' = <<>> /\ rebuilt' = <<>>)
        /\ (phase' = "walk" => Splits(messages', config.keep))
    BY <2>1 DEF PlanTyped
  <2> QED BY <2>1, <2>2, TypedFrom
<1>2. CASE Ask BY <1>2, AskTyped
<1>3. CASE Walk
  <2>1. /\ phase = "walk" /\ Framed5 /\ messages' = messages /\ workspace' = workspace /\ outcome' = outcome
        /\ NotesKept(notes')
    BY <1>3, WalkPlaces
  <2>2. PICK r \in Seq(MsgSet), n \in 1..Len(left) : Place(r, n) BY <1>3, WalkPlaces
  <2>3. left \in Seq(MarkedSet) /\ rebuilt \in Seq(MsgSet) /\ n \in 0..Len(left) BY <2>2 DEF PlanTyped
  <2>4. left' \in Seq(MarkedSet) /\ rebuilt' \in Seq(MsgSet) /\ phase' = phase BY <2>2, <2>3, PlaceTyped
  <2>5. workspace' \in BOOLEAN /\ messages' \in Seq(MsgSet) BY <2>1 DEF PlanTyped
  <2>6. PhaseFits(phase', outcome') BY <2>1, <2>4 DEF PlanTyped
  <2>7. phase' = "walk" /\ Splits(messages', config.keep) BY <2>1, <2>4 DEF PlanTyped
  <2> QED BY <2>1, <2>4, <2>5, <2>6, <2>7, TypedFrom DEF Framed5
<1>4. CASE PlanNext /\ ~Ask /\ ~Walk BY <1>4, HandlerTyped DEF PlanNext, Walk
<1> QED BY <1>1, <1>2, <1>3, <1>4

(* The fields of a request and of a reply have the shapes the code gives   *)
(* them: a refused request has its reason, the planner's lists are empty   *)
(* outside of its walk, the cache has one note for each set of places and  *)
(* no more than its limit (api/adaptive_memory, server.py, api).           *)
THEOREM RequestsTyped == Spec => []TypeOK
<1>1. Init => PlanTyped BY TypedBegins DEF Init
<1>2. PlanTyped /\ [Next]_<<way, planVars, textVars, routeVars>> => PlanTyped'
  <2> SUFFICES ASSUME PlanTyped, [Next]_<<way, planVars, textVars, routeVars>> PROVE PlanTyped' OBVIOUS
  <2>1. PlanNext \/ UNCHANGED planVars BY DEF Next
  <2> QED BY <2>1, TypedKeeps
<1>3. PlanTyped /\ ReplyInv => TypeOK
  <2> SUFFICES ASSUME PlanTyped, ReplyInv PROVE TypeOK OBVIOUS
  <2>1. RouteTypeOK BY RoutesFormed DEF ReplyInv
  <2>2. TextTypeOK BY TextTyped DEF ReplyInv
  <2> QED BY <2>1, <2>2, TypedIs DEF TypeOK
<1> QED BY <1>1, <1>2, <1>3, RepliesBegin, RepliesKeep, PTL DEF Spec
-----------------------------------------------------------------------------
(* What a prompt W still owes to the conversation P it is made of.         *)
Quiet(m, protect) == ~ToolTraffic(m) /\ ~Instruction(m) /\ m.image = FALSE /\ (protect => m.text # "code")
Ends(W, P, k) == \A j \in 0..k - 1 : j < Len(P) => j < Len(W) /\ W[Len(W) - j] = P[Len(P) - j]
NotedIn(W) == UNION {W[i].of : i \in 1..Len(W)}
Disjoint(W) == \A i, j \in 1..Len(W) : i = j \/ W[i].of \cap W[j].of = {}
Holds(W, m) == \E i \in 1..Len(W) : W[i] = m
Gone(W, P) == PlacesOf(P) \ PlacesOf(W)
Spares(W, P, protect) == \A i \in 1..Len(P) : P[i].at \in Gone(W, P) => Quiet(P[i], protect)
Kept(W, P, c) ==
  /\ W \in Seq(MsgSet) /\ Apart(W) /\ Ends(W, P, c.keep)
  /\ HeadOf(P) = 1 => Holds(W, P[1])
  /\ Paired(P) => Paired(W)
  /\ ImagesIn(W) = ImagesIn(P)
  /\ PlacesOf(W) \subseteq PlacesOf(P) /\ NotedIn(W) \subseteq Gone(W, P) /\ Disjoint(W)
  /\ c.mode = "off" => Gone(W, P) = {}
  /\ c.mode = "compress" => Gone(W, P) \subseteq NotedIn(W)
  /\ c.mode = "plan" => Spares(W, P, c.protect)

(* Two parts between which nothing is torn apart.                          *)
Edge(x, y) == (x = <<>> \/ ~x[Len(x)].calls) /\ (y = <<>> \/ y[1].role # "tool")

(* Parts joined.                                                           *)
LEMMA JoinedIs ==
  ASSUME NEW W, NEW x, NEW r, NEW y, Joined(W, x, r, y)
  PROVE  W = (x \o r) \o y
<1>1. x \in Seq(MsgSet) /\ r \in Seq(MsgSet) /\ y \in Seq(MsgSet) /\ W \in Seq(MsgSet) BY DEF Joined
<1>2. PICK V : V = (x \o r) \o y OBVIOUS
<1>3. Joined(V, x, r, y)
  <2>1. \A v1, v2, v3 \in Seq(MsgSet) : Joined((v1 \o v2) \o v3, v1, v2, v3) BY JoinsAre
  <2> QED BY <1>1, <1>2, <2>1
<1>4. V \in Seq(MsgSet) /\ Len(V) = Len(W) BY <1>3 DEF Joined
<1>5. ASSUME NEW i \in 1..Len(W) PROVE W[i] = V[i]
  <2>1. CASE i \in 1..Len(x) /\ W[i] = x[i] BY <1>3, <2>1 DEF Joined
  <2>2. ASSUME NEW k \in 1..Len(r), i = Len(x) + k, W[i] = r[k] PROVE W[i] = V[i] BY <1>3, <2>2 DEF Joined
  <2>3. ASSUME NEW k \in 1..Len(y), i = Len(x) + Len(r) + k, W[i] = y[k] PROVE W[i] = V[i] BY <1>3, <2>3 DEF Joined
  <2> QED BY <2>1, <2>2, <2>3, JoinedAt
<1>6. W = V BY <1>1, <1>4, <1>5, SeqEqual
<1> QED BY <1>2, <1>6

(* Images, when what is replaced has none.                                 *)
LEMMA CutImages ==
  ASSUME NEW W, NEW V, NEW x, NEW r, NEW y, NEW n, NEW of, Joined(W, x, r, y), Joined(V, x, n, y), Instead(n, of),
         \A i \in 1..Len(r) : r[i].image = FALSE
  PROVE  ImagesIn(V) = ImagesIn(W)
<1>1. /\ x \in Seq(MsgSet) /\ r \in Seq(MsgSet) /\ y \in Seq(MsgSet) /\ n \in Seq(MsgSet)
  BY DEF Joined
<1>2. W = (x \o r) \o y /\ V = (x \o n) \o y BY JoinedIs
<1>3. \A v1, v2 \in Seq(MsgSet) : ImagesIn(v1 \o v2) = ImagesIn(v1) + ImagesIn(v2) /\ ImagesIn(v1) \in Nat /\ ImagesIn(v2) \in Nat
  BY ImagesJoin
<1>4. \A v1, v2 \in Seq(MsgSet) : v1 \o v2 \in Seq(MsgSet) OBVIOUS
<1>5. \A i \in 1..Len(n) : n[i].image = FALSE
  <2>1. CASE n = <<>>
    <3>1. Len(n) = 0 BY <2>1
    <3> QED BY <3>1
  <2>2. ASSUME NEW b, n = <<b>>, IsNote(b, of) PROVE \A k \in 1..Len(n) : n[k].image = FALSE
    <3>1. Len(n) = 1 /\ n[1] = b BY <2>2
    <3> QED BY <2>2, <3>1 DEF IsNote
  <2> QED BY <2>1, <2>2 DEF Instead
<1>6. ImagesIn(r) = 0
  <2>1. DOMAIN r = 1..Len(r) BY <1>1
  <2> QED BY <2>1, NoImages
<1>7. ImagesIn(n) = 0
  <2>1. DOMAIN n = 1..Len(n) BY <1>1
  <2> QED BY <1>5, <2>1, NoImages
<1>8. PICK u, v : u = x \o r /\ v = x \o n OBVIOUS
<1>9. u \in Seq(MsgSet) /\ v \in Seq(MsgSet) BY <1>1, <1>4, <1>8
<1>10. ImagesIn(u) = ImagesIn(x) + ImagesIn(r) /\ ImagesIn(v) = ImagesIn(x) + ImagesIn(n) BY <1>1, <1>3, <1>8
<1>11. ImagesIn(W) = ImagesIn(u) + ImagesIn(y) /\ ImagesIn(V) = ImagesIn(v) + ImagesIn(y) BY <1>1, <1>2, <1>3, <1>8, <1>9
<1> QED BY <1>6, <1>7, <1>10, <1>11

(* Calls and results, when the cut tears none apart.                       *)
LEMMA CutPaired ==
  ASSUME NEW W, NEW V, NEW x, NEW r, NEW y, NEW n, NEW of, Joined(W, x, r, y), Joined(V, x, n, y), Instead(n, of),
         Edge(x, y), Paired(W)
  PROVE  Paired(V)
<1>1. Len(x) \in Nat /\ Len(r) \in Nat /\ Len(y) \in Nat /\ Len(n) \in Nat
      /\ Len(W) = Len(x) + Len(r) + Len(y) /\ Len(V) = Len(x) + Len(n) + Len(y)
      /\ DOMAIN W = 1..Len(W) /\ DOMAIN V = 1..Len(V) /\ x \in Seq(MsgSet) /\ y \in Seq(MsgSet)
  BY DEF Joined
<1>2. \A k \in 1..Len(n) : ~n[k].calls /\ n[k].role # "tool"
  <2>1. CASE n = <<>>
    <3>1. Len(n) = 0 BY <2>1
    <3> QED BY <3>1
  <2>2. ASSUME NEW b, n = <<b>>, IsNote(b, of) PROVE \A k \in 1..Len(n) : ~n[k].calls /\ n[k].role # "tool"
    <3>1. Len(n) = 1 /\ n[1] = b BY <2>2
    <3>2. b.role = "system" /\ b.calls = FALSE BY <2>2 DEF IsNote
    <3> QED BY <3>1, <3>2
  <2> QED BY <2>1, <2>2 DEF Instead
<1>3. \A i \in 1..Len(W) : /\ W[i].role = "tool" => i > 1 /\ (W[i - 1].role = "tool" \/ W[i - 1].calls)
                           /\ W[i].calls => i < Len(W) /\ W[i + 1].role = "tool"
  BY <1>1 DEF Paired
<1>4. /\ \A i \in 1..Len(x) : W[i] = x[i] /\ V[i] = x[i]
      /\ \A i \in 1..Len(y) : W[Len(x) + Len(r) + i] = y[i] /\ V[Len(x) + Len(n) + i] = y[i]
  BY DEF Joined
<1>5. (Len(x) > 0 => ~x[Len(x)].calls) /\ (Len(y) > 0 => y[1].role # "tool")
  <2>1. Len(x) > 0 => x # <<>> OBVIOUS
  <2>2. Len(y) > 0 => y # <<>> OBVIOUS
  <2> QED BY <2>1, <2>2 DEF Edge
<1>6. ASSUME NEW i \in 1..Len(V)
      PROVE  /\ V[i].role = "tool" => i > 1 /\ (V[i - 1].role = "tool" \/ V[i - 1].calls)
             /\ V[i].calls => i < Len(V) /\ V[i + 1].role = "tool"
  <2>1. CASE i \in 1..Len(x) /\ V[i] = x[i]
    <3>1. i \in 1..Len(W) /\ W[i] = x[i] BY <1>1, <1>4, <2>1
    <3>2. ASSUME V[i].role = "tool" PROVE i > 1 /\ (V[i - 1].role = "tool" \/ V[i - 1].calls)
      <4>0. W[i].role = "tool" BY <2>1, <3>1, <3>2
      <4>1. i > 1 /\ (W[i - 1].role = "tool" \/ W[i - 1].calls) BY <1>3, <3>1, <4>0, Zenon
      <4>2. PICK k : k = i - 1 OBVIOUS
      <4>3. k \in 1..Len(x) BY <1>1, <2>1, <4>1, <4>2
      <4>4. W[k] = V[k] BY <1>4, <4>3
      <4> QED BY <4>1, <4>2, <4>4
    <3>3. ASSUME V[i].calls PROVE i < Len(V) /\ V[i + 1].role = "tool"
      <4>0. W[i].calls BY <2>1, <3>1, <3>3
      <4>1. i < Len(W) /\ W[i + 1].role = "tool" BY <1>3, <3>1, <4>0, Zenon
      <4>2. i # Len(x) BY <1>1, <1>5, <2>1, <3>3
      <4>3. PICK k : k = i + 1 OBVIOUS
      <4>4. k \in 1..Len(x) BY <1>1, <2>1, <4>2, <4>3
      <4>5. W[k] = V[k] BY <1>4, <4>4
      <4>6. i < Len(V) BY <1>1, <4>3, <4>4
      <4> QED BY <4>1, <4>3, <4>5, <4>6
    <3> QED BY <3>2, <3>3
  <2>2. ASSUME NEW k \in 1..Len(n), V[i] = n[k]
        PROVE  /\ V[i].role = "tool" => i > 1 /\ (V[i - 1].role = "tool" \/ V[i - 1].calls)
               /\ V[i].calls => i < Len(V) /\ V[i + 1].role = "tool"
    BY <1>2, <2>2
  <2>3. ASSUME NEW k \in 1..Len(y), i = Len(x) + Len(n) + k, V[i] = y[k]
        PROVE  /\ V[i].role = "tool" => i > 1 /\ (V[i - 1].role = "tool" \/ V[i - 1].calls)
               /\ V[i].calls => i < Len(V) /\ V[i + 1].role = "tool"
    <3>1. PICK q : q = Len(x) + Len(r) + k OBVIOUS
    <3>2. q \in 1..Len(W) BY <1>1, <3>1
    <3>3. W[q] = y[k] BY <1>4, <3>1
    <3>4. ASSUME V[i].role = "tool" PROVE i > 1 /\ (V[i - 1].role = "tool" \/ V[i - 1].calls)
      <4>0. W[q].role = "tool" BY <2>3, <3>3, <3>4
      <4>1. q > 1 /\ (W[q - 1].role = "tool" \/ W[q - 1].calls) BY <1>3, <3>2, <4>0, Zenon
      <4>2. k # 1 BY <1>1, <1>5, <2>3, <3>4
      <4>3. PICK l : l = k - 1 OBVIOUS
      <4>4. l \in 1..Len(y) /\ i > 1 /\ i - 1 = Len(x) + Len(n) + l /\ q - 1 = Len(x) + Len(r) + l
        BY <1>1, <2>3, <3>1, <4>2, <4>3
      <4>5. W[q - 1] = V[i - 1] BY <1>4, <4>4
      <4> QED BY <4>1, <4>4, <4>5
    <3>5. ASSUME V[i].calls PROVE i < Len(V) /\ V[i + 1].role = "tool"
      <4>0. W[q].calls BY <2>3, <3>3, <3>5
      <4>1. q < Len(W) /\ W[q + 1].role = "tool" BY <1>3, <3>2, <4>0, Zenon
      <4>2. PICK l : l = k + 1 OBVIOUS
      <4>3. l \in 1..Len(y) /\ i < Len(V) /\ i + 1 = Len(x) + Len(n) + l /\ q + 1 = Len(x) + Len(r) + l
        BY <1>1, <2>3, <3>1, <4>1, <4>2
      <4>4. W[q + 1] = V[i + 1] BY <1>4, <4>3
      <4> QED BY <4>1, <4>3, <4>4
    <3> QED BY <3>4, <3>5
  <2> QED BY <2>1, <2>2, <2>3, JoinedAt
<1> QED BY <1>1, <1>6 DEF Paired

(* A cut around quiet messages tears nothing apart.                        *)
LEMMA QuietEdge ==
  ASSUME NEW W, NEW x, NEW r, NEW y, NEW protect, Joined(W, x, r, y), Paired(W), r # <<>>,
         \A i \in 1..Len(r) : Quiet(r[i], protect)
  PROVE  Edge(x, y)
<1>1. Len(x) \in Nat /\ Len(r) \in Nat /\ Len(y) \in Nat /\ Len(W) = Len(x) + Len(r) + Len(y) /\ Len(r) # 0
      /\ DOMAIN W = 1..Len(W) /\ x \in Seq(MsgSet) /\ y \in Seq(MsgSet) /\ r \in Seq(MsgSet)
  BY DEF Joined
<1>2. \A i \in 1..Len(W) : /\ W[i].role = "tool" => i > 1 /\ (W[i - 1].role = "tool" \/ W[i - 1].calls)
                           /\ W[i].calls => i < Len(W) /\ W[i + 1].role = "tool"
  BY <1>1 DEF Paired
<1>3. /\ \A i \in 1..Len(x) : W[i] = x[i]
      /\ \A i \in 1..Len(r) : W[Len(x) + i] = r[i] /\ r[i].role # "tool" /\ ~r[i].calls
      /\ \A i \in 1..Len(y) : W[Len(x) + Len(r) + i] = y[i]
  BY DEF Joined, Quiet, ToolTraffic
<1>4. ASSUME x # <<>>, x[Len(x)].calls PROVE FALSE
  <2>1. Len(x) \in 1..Len(x) /\ Len(x) \in 1..Len(W) /\ 1 \in 1..Len(r) BY <1>1, <1>4
  <2>2. W[Len(x)].calls BY <1>3, <1>4, <2>1
  <2>3. W[Len(x) + 1].role = "tool" BY <1>2, <2>1, <2>2, Zenon
  <2> QED BY <1>3, <2>1, <2>3
<1>5. ASSUME y # <<>>, y[1].role = "tool" PROVE FALSE
  <2>1. PICK q, l : q = Len(x) + Len(r) + 1 /\ l = Len(r) OBVIOUS
  <2>2. q \in 1..Len(W) /\ 1 \in 1..Len(y) /\ l \in 1..Len(r) /\ q - 1 = Len(x) + l BY <1>1, <1>5, <2>1
  <2>3. W[q] = y[1] BY <1>3, <2>1, <2>2
  <2>4. W[q].role = "tool" BY <1>5, <2>3
  <2>5. W[q - 1].role = "tool" \/ W[q - 1].calls BY <1>2, <2>2, <2>4, Zenon
  <2>6. W[q - 1] = r[l] BY <1>3, <2>2
  <2> QED BY <1>3, <2>2, <2>5, <2>6
<1> QED BY <1>4, <1>5 DEF Edge
-----------------------------------------------------------------------------
(* A replacement that costs the client nothing it may rely on.             *)
Cuts(x, r, y, n, P, c) ==
  /\ Instead(n, PlacesOf(r)) /\ Ends(y, P, c.keep)
  /\ HeadOf(P) = 1 => Holds(x, P[1]) \/ Holds(y, P[1])
  /\ \A i \in 1..Len(r) : r[i].of = {} /\ r[i].image = FALSE
  /\ c.mode = "off" => r = <<>>
  /\ c.mode = "compress" => n # <<>>
  /\ c.mode = "plan" => \A i \in 1..Len(r) : Quiet(r[i], c.protect) /\ Holds(P, r[i])

(* The end of a part is the end of the whole.                              *)
LEMMA EndsStay ==
  ASSUME NEW V, NEW x, NEW n, NEW y, Joined(V, x, n, y), NEW P, NEW k \in Nat, Ends(y, P, k)
  PROVE  Ends(V, P, k)
<1>1. Len(x) \in Nat /\ Len(n) \in Nat /\ Len(y) \in Nat /\ Len(V) = Len(x) + Len(n) + Len(y) BY DEF Joined
<1>2. ASSUME NEW j \in 0..k - 1, j < Len(P) PROVE j < Len(V) /\ V[Len(V) - j] = P[Len(P) - j]
  <2>1. j < Len(y) /\ y[Len(y) - j] = P[Len(P) - j] BY <1>2 DEF Ends
  <2>2. PICK i : i = Len(y) - j OBVIOUS
  <2>3. i \in 1..Len(y) /\ Len(V) - j = Len(x) + Len(n) + i /\ j < Len(V) BY <1>1, <2>1, <2>2
  <2>4. V[Len(x) + Len(n) + i] = y[i] BY <2>3 DEF Joined
  <2> QED BY <2>1, <2>2, <2>3, <2>4
<1> QED BY <1>2 DEF Ends

(* What is in a part is in the whole.                                      *)
LEMMA HoldsStay ==
  ASSUME NEW V, NEW x, NEW n, NEW y, Joined(V, x, n, y), NEW m, Holds(x, m) \/ Holds(y, m)
  PROVE  Holds(V, m)
<1>1. Len(x) \in Nat /\ Len(n) \in Nat /\ Len(y) \in Nat /\ Len(V) = Len(x) + Len(n) + Len(y) BY DEF Joined
<1>2. CASE Holds(x, m)
  <2>1. PICK i \in 1..Len(x) : x[i] = m BY <1>2 DEF Holds
  <2>2. V[i] = x[i] /\ i \in 1..Len(V) BY <1>1, <2>1 DEF Joined
  <2> QED BY <2>1, <2>2 DEF Holds
<1>3. CASE Holds(y, m)
  <2>1. PICK i \in 1..Len(y) : y[i] = m BY <1>3 DEF Holds
  <2>2. PICK k : k = Len(x) + Len(n) + i OBVIOUS
  <2>3. V[k] = y[i] BY <2>1, <2>2 DEF Joined
  <2>4. k \in 1..Len(V) BY <1>1, <2>1, <2>2
  <2> QED BY <2>1, <2>3, <2>4 DEF Holds
<1> QED BY <1>2, <1>3

(* The places noted once a note is put for a part.                         *)
LEMMA CutNoted ==
  ASSUME NEW W, NEW V, NEW x, NEW r, NEW y, NEW n, NEW of, Joined(W, x, r, y), Joined(V, x, n, y), Instead(n, of),
         \A i \in 1..Len(r) : r[i].of = {}, of \cap NotedIn(W) = {}, Disjoint(W)
  PROVE  /\ NotedIn(V) = NotedIn(W) \cup (IF n = <<>> THEN {} ELSE of)
         /\ Disjoint(V)
<1>1. Len(x) \in Nat /\ Len(r) \in Nat /\ Len(y) \in Nat /\ Len(n) \in Nat
      /\ Len(W) = Len(x) + Len(r) + Len(y) /\ Len(V) = Len(x) + Len(n) + Len(y)
  BY DEF Joined
<1>2. /\ \A i \in 1..Len(x) : W[i] = x[i] /\ V[i] = x[i]
      /\ \A i \in 1..Len(r) : W[Len(x) + i] = r[i]
      /\ \A i \in 1..Len(n) : V[Len(x) + i] = n[i]
      /\ \A i \in 1..Len(y) : W[Len(x) + Len(r) + i] = y[i] /\ V[Len(x) + Len(n) + i] = y[i]
  BY DEF Joined
<1>3. (n = <<>> => Len(n) = 0) /\ (n # <<>> => Len(n) = 1 /\ n[1].of = of)
  <2>1. n = <<>> => Len(n) = 0 OBVIOUS
  <2>2. ASSUME NEW b, n = <<b>>, IsNote(b, of) PROVE Len(n) = 1 /\ n[1].of = of BY <2>2 DEF IsNote
  <2> QED BY <2>1, <2>2 DEF Instead
(* Each message of the old prompt that notes something is in the new one.  *)
<1> DEFINE To(i) == IF i <= Len(x) THEN i ELSE i - Len(r) + Len(n)
           Old(i) == i \in 1..Len(W) /\ (i <= Len(x) \/ i > Len(x) + Len(r))
           New(i) == i \in 1..Len(V) /\ (i <= Len(x) \/ i > Len(x) + Len(n))
<1>4. ASSUME NEW i \in 1..Len(V) PROVE New(i) \/ (n # <<>> /\ i = Len(x) + 1 /\ V[i].of = of)
  <2>1. CASE i <= Len(x) \/ i > Len(x) + Len(n) BY <2>1
  <2>2. CASE ~(i <= Len(x) \/ i > Len(x) + Len(n))
    <3>1. n # <<>> /\ Len(n) = 1 BY <1>1, <1>3, <2>2
    <3>2. i = Len(x) + 1 BY <1>1, <2>2, <3>1
    <3>3. V[Len(x) + 1] = n[1] BY <1>2, <3>1
    <3> QED BY <1>3, <3>1, <3>2, <3>3
  <2> QED BY <2>1, <2>2
<1>5. ASSUME NEW i \in 1..Len(V), New(i) PROVE \E k \in 1..Len(W) : Old(k) /\ W[k] = V[i] /\ To(k) = i
  <2>1. CASE i <= Len(x)
    <3>1. i \in 1..Len(x) /\ i \in 1..Len(W) BY <1>1, <2>1
    <3> QED BY <1>2, <2>1, <3>1
  <2>2. CASE i > Len(x) + Len(n)
    <3>1. PICK j, k : j = i - Len(x) - Len(n) /\ k = Len(x) + Len(r) + j OBVIOUS
    <3>2. j \in 1..Len(y) /\ i = Len(x) + Len(n) + j /\ k \in 1..Len(W) /\ Old(k) /\ To(k) = i BY <1>1, <2>2, <3>1
    <3>3. W[k] = V[i] BY <1>2, <3>1, <3>2
    <3> QED BY <3>2, <3>3
  <2> QED BY <1>5, <2>1, <2>2
<1>6. ASSUME NEW i \in 1..Len(W), Old(i) PROVE To(i) \in 1..Len(V) /\ V[To(i)] = W[i]
  <2>1. CASE i <= Len(x)
    <3>1. i \in 1..Len(x) /\ i \in 1..Len(V) /\ To(i) = i BY <1>1, <2>1
    <3> QED BY <1>2, <3>1
  <2>2. CASE ~(i <= Len(x))
    <3>1. PICK j, k : j = i - Len(x) - Len(r) /\ k = Len(x) + Len(n) + j OBVIOUS
    <3>2. j \in 1..Len(y) /\ i = Len(x) + Len(r) + j /\ k \in 1..Len(V) /\ To(i) = k BY <1>1, <1>6, <2>2, <3>1
    <3>3. W[Len(x) + Len(r) + j] = y[j] /\ V[Len(x) + Len(n) + j] = y[j] BY <1>2, <3>2
    <3>4. W[i] = y[j] BY <3>2, <3>3
    <3>5. V[k] = y[j] BY <3>1, <3>3
    <3> QED BY <3>2, <3>4, <3>5
  <2> QED BY <2>1, <2>2
<1>7. ASSUME NEW i \in 1..Len(W), ~Old(i) PROVE W[i].of = {}
  <2>1. PICK j : j = i - Len(x) OBVIOUS
  <2>2. j \in 1..Len(r) /\ i = Len(x) + j BY <1>1, <1>7, <2>1
  <2> QED BY <1>2, <2>2
<1> HIDE DEF To, Old, New
<1>8. ASSUME NEW p \in NotedIn(V) PROVE p \in NotedIn(W) \/ (n # <<>> /\ p \in of)
  <2>1. PICK i \in 1..Len(V) : p \in V[i].of BY <1>8 DEF NotedIn
  <2>2. CASE New(i)
    <3>1. PICK k \in 1..Len(W) : W[k] = V[i] BY <1>5, <2>2
    <3> QED BY <2>1, <3>1 DEF NotedIn
  <2> QED BY <1>4, <2>1, <2>2
<1>9. ASSUME NEW p \in NotedIn(W) PROVE p \in NotedIn(V)
  <2>1. PICK i \in 1..Len(W) : p \in W[i].of BY <1>9 DEF NotedIn
  <2>2. Old(i) BY <1>7, <2>1
  <2>3. To(i) \in 1..Len(V) /\ V[To(i)] = W[i] BY <1>6, <2>2
  <2> QED BY <2>1, <2>3 DEF NotedIn
<1>10. ASSUME n # <<>> PROVE of \subseteq NotedIn(V)
  <2>1. 1 \in 1..Len(n) /\ Len(x) + 1 \in 1..Len(V) BY <1>1, <1>3, <1>10
  <2>2. V[Len(x) + 1].of = of BY <1>2, <1>3, <1>10, <2>1
  <2> QED BY <2>1, <2>2 DEF NotedIn
<1>11. NotedIn(V) = NotedIn(W) \cup (IF n = <<>> THEN {} ELSE of) BY <1>8, <1>9, <1>10
<1>12. ASSUME NEW i \in 1..Len(V), NEW j \in 1..Len(V), New(i), i # j PROVE V[i].of \cap V[j].of = {}
  <2>1. PICK k \in 1..Len(W) : W[k] = V[i] /\ To(k) = i BY <1>5, <1>12
  <2>2. CASE New(j)
    <3>1. PICK l \in 1..Len(W) : W[l] = V[j] /\ To(l) = j BY <1>5, <2>2
    <3>2. k # l BY <1>12, <2>1, <3>1
    <3> QED BY <2>1, <3>1, <3>2 DEF Disjoint
  <2>3. CASE ~New(j)
    <3>1. V[j].of = of BY <1>4, <2>3
    <3>2. V[i].of \subseteq NotedIn(W) BY <2>1 DEF NotedIn
    <3> QED BY <3>1, <3>2
  <2> QED BY <2>2, <2>3
<1>13. ASSUME NEW i \in 1..Len(V), NEW j \in 1..Len(V), i # j PROVE V[i].of \cap V[j].of = {}
  <2>1. CASE New(i) BY <1>12, <1>13, <2>1
  <2>2. CASE New(j) BY <1>12, <1>13, <2>2
  <2>3. CASE ~New(i) /\ ~New(j) BY <1>4, <1>13, <2>3
  <2> QED BY <2>1, <2>2, <2>3
<1> QED BY <1>11, <1>13 DEF Disjoint
-----------------------------------------------------------------------------
(* Such a replacement keeps what is owed,                                  *)
LEMMA KeptCut ==
  ASSUME NEW W, NEW V, NEW x, NEW r, NEW y, NEW n, NEW P, NEW c, Joined(W, x, r, y), Joined(V, x, n, y),
         Cuts(x, r, y, n, P, c), Paired(W) => Edge(x, y), c.keep \in Nat, P \in Seq(MsgSet), Apart(P), Kept(W, P, c)
  PROVE  Kept(V, P, c)
<1>1. PICK of : of = PlacesOf(r) OBVIOUS
<1>2. Instead(n, of) BY <1>1 DEF Cuts
<1>3. V \in Seq(MsgSet) /\ W \in Seq(MsgSet) /\ r \in Seq(MsgSet) BY DEF Joined
<1>4. Apart(V)
  <2>1. Apart(W) BY DEF Kept
  <2> QED BY <1>2, <2>1, CutApart
<1>5. Ends(V, P, c.keep)
  <2>1. PICK k : k = c.keep OBVIOUS
  <2>2. Ends(y, P, k) /\ k \in Nat BY <2>1 DEF Cuts
  <2>3. Ends(V, P, k) BY <2>2, EndsStay
  <2> QED BY <2>1, <2>3
<1>6. HeadOf(P) = 1 => Holds(V, P[1])
  <2> SUFFICES ASSUME HeadOf(P) = 1 PROVE Holds(V, P[1]) OBVIOUS
  <2>1. PICK m : m = P[1] OBVIOUS
  <2>2. Holds(x, m) \/ Holds(y, m) BY <2>1 DEF Cuts
  <2>3. Holds(V, m) BY <2>2, HoldsStay
  <2> QED BY <2>1, <2>3
<1>7. Paired(P) => Paired(V)
  <2> SUFFICES ASSUME Paired(P) PROVE Paired(V) OBVIOUS
  <2>1. Paired(W) BY DEF Kept
  <2>2. Edge(x, y) BY <2>1
  <2> QED BY <1>2, <2>1, <2>2, CutPaired
<1>8. ImagesIn(V) = ImagesIn(P)
  <2>1. \A i \in 1..Len(r) : r[i].image = FALSE BY DEF Cuts
  <2>2. ImagesIn(V) = ImagesIn(W) BY <1>2, <2>1, CutImages
  <2> QED BY <2>2 DEF Kept
<1>9. PlacesOf(V) = PlacesOf(W) \ of /\ of \subseteq PlacesOf(W)
  <2>1. Apart(W) BY DEF Kept
  <2> QED BY <1>1, <1>2, <2>1, CutPlaces
<1>10. PlacesOf(W) \subseteq PlacesOf(P) /\ NotedIn(W) \subseteq Gone(W, P) /\ Disjoint(W) BY DEF Kept
<1>11. PlacesOf(V) \subseteq PlacesOf(P) BY <1>9, <1>10
<1>12. Gone(V, P) = Gone(W, P) \cup of BY <1>9, <1>10 DEF Gone
<1>13. NotedIn(V) = NotedIn(W) \cup (IF n = <<>> THEN {} ELSE of) /\ Disjoint(V)
  <2>1. \A i \in 1..Len(r) : r[i].of = {} BY DEF Cuts
  <2>2. of \cap NotedIn(W) = {} BY <1>9, <1>10 DEF Gone
  <2> QED BY <1>2, <1>10, <2>1, <2>2, CutNoted
<1>14. NotedIn(V) \subseteq Gone(V, P) BY <1>10, <1>12, <1>13
<1>15. c.mode = "off" => Gone(V, P) = {}
  <2> SUFFICES ASSUME c.mode = "off" PROVE Gone(V, P) = {} OBVIOUS
  <2>1. r = <<>> BY DEF Cuts
  <2>2. Len(r) = 0 BY <2>1
  <2>3. \A a : a \in PlacesOf(r) <=> a # 0 /\ \E i \in 1..Len(r) : r[i].at = a BY <1>3, PlacesAre
  <2>4. of = {} BY <1>1, <2>2, <2>3
  <2>5. Gone(W, P) = {} BY DEF Kept
  <2> QED BY <1>12, <2>4, <2>5
<1>16. c.mode = "compress" => Gone(V, P) \subseteq NotedIn(V)
  <2> SUFFICES ASSUME c.mode = "compress" PROVE Gone(V, P) \subseteq NotedIn(V) OBVIOUS
  <2>1. n # <<>> BY DEF Cuts
  <2>2. Gone(W, P) \subseteq NotedIn(W) BY DEF Kept
  <2> QED BY <1>12, <1>13, <2>1, <2>2
<1>17. c.mode = "plan" => Spares(V, P, c.protect)
  <2> SUFFICES ASSUME c.mode = "plan" PROVE Spares(V, P, c.protect) OBVIOUS
  <2>1. Spares(W, P, c.protect) BY DEF Kept
  <2>2. \A i \in 1..Len(r) : Quiet(r[i], c.protect) /\ Holds(P, r[i]) BY DEF Cuts
  <2>3. ASSUME NEW i \in 1..Len(P), P[i].at \in Gone(V, P) PROVE Quiet(P[i], c.protect)
    <3>1. CASE P[i].at \in Gone(W, P) BY <2>1, <3>1 DEF Spares
    <3>2. CASE P[i].at \in of
      <4>1. \A a : a \in PlacesOf(r) <=> a # 0 /\ \E k \in 1..Len(r) : r[k].at = a BY <1>3, PlacesAre
      <4>2. PICK k \in 1..Len(r) : r[k].at = P[i].at /\ P[i].at # 0 BY <1>1, <3>2, <4>1
      <4>3. PICK j \in 1..Len(P) : P[j] = r[k] BY <2>2, <4>2 DEF Holds
      <4>4. i = j
        <5>1. P[i].at \in Nat /\ P[j].at = P[i].at
          <6>1. P[i] \in MsgSet BY <2>3
          <6>2. P[i].at \in Nat BY <6>1 DEF MsgSet
          <6> QED BY <4>2, <4>3, <6>2
        <5>2. P[i].at > 0 BY <4>2, <5>1
        <5>3. i \in Nat /\ j \in Nat BY <2>3, <4>3
        <5>4. ~(i < j) BY <5>1, <5>2 DEF Apart
        <5>5. ~(j < i) BY <5>1, <5>2 DEF Apart
        <5> QED BY <5>3, <5>4, <5>5
      <4>5. Quiet(r[k], c.protect) BY <2>2, <4>2
      <4> QED BY <4>3, <4>4, <4>5
    <3> QED BY <1>12, <2>3, <3>1, <3>2
  <2> QED BY <2>3 DEF Spares
<1> QED BY <1>3, <1>4, <1>5, <1>6, <1>7, <1>8, <1>11, <1>13, <1>14, <1>15, <1>16, <1>17 DEF Kept

(* nothing is owed by the whole conversation,                              *)
LEMMA KeptWhole ==
  ASSUME NEW P, NEW n, NEW c, Prepared(P, n)
  PROVE  Kept(P, P, c)
<1>1. P \in Seq(MsgSet) /\ Apart(P) /\ \A i \in 1..Len(P) : P[i].of = {} BY DEF Prepared, PlainOne
<1>2. Ends(P, P, c.keep) BY DEF Ends
<1>3. HeadOf(P) = 1 => Holds(P, P[1])
  <2> SUFFICES ASSUME HeadOf(P) = 1 PROVE Holds(P, P[1]) OBVIOUS
  <2>1. P # <<>> BY DEF HeadOf
  <2>2. 1 \in 1..Len(P) BY <1>1, <2>1
  <2> QED BY <2>2 DEF Holds
<1>4. NotedIn(P) = {} /\ Disjoint(P) BY <1>1 DEF NotedIn, Disjoint
<1>5. Gone(P, P) = {} /\ Spares(P, P, c.protect) BY DEF Gone, Spares
<1> QED BY <1>1, <1>2, <1>3, <1>4, <1>5 DEF Kept

(* and a prompt that keeps it is what the client may rely on.              *)
LEMMA KeptFaithful ==
  ASSUME PlanTyped, Kept(messages, prepared, config)
  PROVE  TailKept /\ PairsKept /\ ImagesKept /\ NothingLost
<1>1. /\ prepared \in Seq(MsgSet) /\ messages \in Seq(MsgSet) /\ config.keep \in Nat \ {0}
      /\ Prepared(prepared, images)
  BY ConfigIs DEF PlanTyped, Prepared
<1>2. PICK P, W : P = prepared /\ W = messages OBVIOUS
<1>3. DOMAIN P = 1..Len(P) /\ DOMAIN W = 1..Len(W) /\ Len(P) \in Nat /\ Len(W) \in Nat /\ P \in Seq(MsgSet) /\ W \in Seq(MsgSet)
  BY <1>1, <1>2
<1>4. Kept(W, P, config) BY <1>2
<1>5. TailKept
  <2>1. PICK k, n : k = config.keep /\ n = Min({config.keep, Len(prepared)}) OBVIOUS
  <2>2. n \in Nat /\ n <= k /\ n <= Len(P) /\ k \in Nat /\ k > 0
    <3>1. PICK S : S = {k, Len(P)} OBVIOUS
    <3>2. n = Min(S) BY <1>2, <2>1, <3>1
    <3>3. k \in Nat \ {0} BY <1>1, <2>1
    <3>4. S \subseteq Nat /\ S # {} BY <1>3, <3>1, <3>3
    <3>5. Min(S) \in S /\ \A i \in S : Min(S) <= i BY <3>4, MinFacts
    <3> QED BY <3>1, <3>2, <3>3, <3>4, <3>5
  <2>3. Ends(W, P, k) BY <1>4, <2>1 DEF Kept
  <2>4. n <= Len(W)
    <3>1. CASE n = 0 BY <1>3, <3>1
    <3>2. CASE n # 0
      <4>1. n - 1 \in 0..k - 1 /\ n - 1 < Len(P) BY <2>2, <3>2
      <4>2. n - 1 < Len(W) BY <2>3, <4>1 DEF Ends
      <4> QED BY <1>3, <2>2, <4>2
    <3> QED BY <3>1, <3>2
  <2>5. \A s \in Seq(MsgSet) : \A u, v \in Nat : u <= v /\ v <= Len(s) =>
          /\ SubSeq(s, u + 1, v) \in Seq(MsgSet) /\ Len(SubSeq(s, u + 1, v)) = v - u
          /\ \A i \in 1..(v - u) : SubSeq(s, u + 1, v)[i] = s[u + i]
    BY PartIs
  <2>6. PICK p, w : p = Len(P) - n /\ w = Len(W) - n OBVIOUS
  <2>7. p \in Nat /\ w \in Nat /\ p <= Len(P) /\ w <= Len(W) /\ Len(P) - p = n /\ Len(W) - w = n
    BY <1>3, <2>2, <2>4, <2>6
  <2>8. PICK a, b : a = SubSeq(W, w + 1, Len(W)) /\ b = SubSeq(P, p + 1, Len(P)) OBVIOUS
  <2>9. a \in Seq(MsgSet) /\ Len(a) = n /\ \A i \in 1..n : a[i] = W[w + i] BY <1>3, <2>5, <2>7, <2>8
  <2>10. b \in Seq(MsgSet) /\ Len(b) = n /\ \A i \in 1..n : b[i] = P[p + i] BY <1>3, <2>5, <2>7, <2>8
  <2>11. ASSUME NEW i \in 1..n PROVE a[i] = b[i]
    <3>1. PICK j : j = n - i OBVIOUS
    <3>2. j \in 0..k - 1 /\ j < Len(P) /\ w + i = Len(W) - j /\ p + i = Len(P) - j BY <1>3, <2>2, <2>6, <3>1
    <3>3. W[Len(W) - j] = P[Len(P) - j] BY <2>3, <3>2 DEF Ends
    <3> QED BY <2>9, <2>10, <3>2, <3>3
  <2>12. a = b BY <2>9, <2>10, <2>11, SeqEqual
  <2>13. SubSeq(messages, Len(messages) - n + 1, Len(messages)) = a
         /\ SubSeq(prepared, Len(prepared) - n + 1, Len(prepared)) = b
    BY <1>2, <2>6, <2>8
  <2>14. \A i, j \in DOMAIN messages : i < j /\ messages[j].at > 0 => messages[i].at < messages[j].at
    BY <1>2, <1>3, <1>4 DEF Kept, Apart
  <2>15. HeadOf(prepared) = 1 => prepared[1] \in ToSet(messages)
    BY <1>2, <1>3, <1>4 DEF Kept, Holds, ToSet
  <2> QED BY <2>1, <2>12, <2>13, <2>14, <2>15 DEF TailKept
<1>6. PairsKept BY <1>2, <1>4 DEF Kept, PairsKept
<1>7. ImagesKept
  <2> SUFFICES ASSUME SystemTextKept PROVE ImagesIn(messages) = images BY DEF ImagesKept
  <2>1. images = ImagesIn(P) \/ \E i \in 1..Len(P) : P[i].text = "replaced" BY <1>1, <1>2 DEF Prepared
  <2>2. ~\E i \in 1..Len(P) : P[i].text = "replaced" BY <1>2, <1>3 DEF SystemTextKept
  <2>3. ImagesIn(W) = ImagesIn(P) BY <1>4 DEF Kept
  <2> QED BY <1>2, <2>1, <2>2, <2>3
<1>8. NothingLost
  <2>1. Noted = NotedIn(W) BY <1>2, <1>3 DEF Noted, NotedIn
  <2>2. Lost = Gone(W, P) BY <1>2 DEF Lost, Gone
  <2>3. NotedIn(W) \subseteq Gone(W, P) /\ Disjoint(W) BY <1>4 DEF Kept
  <2>4. \A i, j \in DOMAIN messages : i = j \/ messages[i].of \cap messages[j].of = {} BY <1>2, <1>3, <2>3 DEF Disjoint
  <2>5. config.mode = "off" => Lost = {} BY <1>4, <2>2 DEF Kept
  <2>6. config.mode = "compress" => Lost = Noted BY <1>4, <2>1, <2>2, <2>3 DEF Kept
  <2>7. ASSUME config.mode = "plan", NEW at \in Lost
        PROVE  ~ToolTraffic(Was(at)) /\ ~Instruction(Was(at)) /\ (config.protect => Was(at).text # "code")
    <3>1. \A a : a \in PlacesOf(P) <=> a # 0 /\ \E i \in 1..Len(P) : P[i].at = a BY <1>3, PlacesAre
    <3>2. at \in Gone(W, P) /\ at \in PlacesOf(P) BY <2>2, <2>7 DEF Gone
    <3>3. ToSet(P) = {P[i] : i \in 1..Len(P)} BY <1>3 DEF ToSet
    <3>4. \E m \in ToSet(P) : m.at = at BY <3>1, <3>2, <3>3
    <3>5. PICK m : m = Was(at) OBVIOUS
    <3>6. m \in ToSet(P) /\ m.at = at BY <1>2, <3>4, <3>5 DEF Was
    <3>7. PICK i \in 1..Len(P) : P[i] = m BY <3>3, <3>6
    <3>8. Spares(W, P, config.protect) BY <1>4, <2>7 DEF Kept
    <3>9. Quiet(m, config.protect) BY <3>2, <3>6, <3>7, <3>8 DEF Spares
    <3> QED BY <3>5, <3>9 DEF Quiet
  <2> QED BY <2>1, <2>2, <2>3, <2>4, <2>5, <2>6, <2>7 DEF NothingLost
<1> QED BY <1>5, <1>6, <1>7, <1>8
-----------------------------------------------------------------------------
(* The three replacements the handler makes.                               *)
(* What the planner may cut is quiet.                                      *)
LEMMA LatentQuiet ==
  ASSUME NEW m \in MsgSet, Latent(m)
  PROVE  Quiet(m, config.protect)
<1>1. m.image \in BOOLEAN BY DEF MsgSet
<1>2. m.image = FALSE BY <1>1 DEF Latent
<1>3. ~ToolTraffic(m) /\ ~Instruction(m) BY DEF Latent
<1>4. config.protect => m.text # "code" BY DEF Latent, VerbatimRisk
<1> QED BY <1>2, <1>3, <1>4 DEF Quiet

(* The end and the head of a prompt that is cut stay outside of the cut.   *)
LEMMA PartsOwe ==
  ASSUME NEW P \in Seq(MsgSet), NEW keep \in Nat \ {0}, Splits(P, keep)
  PROVE  /\ Ends(Rest(P, keep), P, keep)
         /\ HeadOf(P) = 1 => Holds(Lead(P), P[1])
         /\ \A i \in 1..Len(Middle(P, keep)) : Holds(P, Middle(P, keep)[i]) /\ Middle(P, keep)[i].image = FALSE
<1>1. PICK x, r, y, t, h, n : /\ x = Lead(P) /\ r = Middle(P, keep) /\ y = Rest(P, keep) /\ t = TailStart(P, keep)
                              /\ h = HeadOf(P) /\ n = Len(P)
  OBVIOUS
<1>2. Joined(P, x, r, y) /\ Len(x) = h /\ Len(r) = t - h /\ Len(y) = n - t BY <1>1, PartsAre
<1>3. /\ h \in {0, 1} /\ t \in Nat /\ t >= h + 2 /\ t <= n - keep /\ n \in Nat
      /\ \A i \in 1..n : h < i /\ i <= t => ~P[i].image
  BY <1>1, TailIs
<1>4. h \in Nat /\ Len(x) + Len(r) = t BY <1>2, <1>3
<1>5. Ends(y, P, keep)
  <2>1. ASSUME NEW j \in 0..keep - 1, j < n PROVE j < Len(y) /\ y[Len(y) - j] = P[n - j]
    <3>1. PICK i : i = n - t - j OBVIOUS
    <3>2. i \in 1..Len(y) /\ n - j = t + i /\ j < Len(y) /\ Len(y) - j = i BY <1>2, <1>3, <2>1, <3>1
    <3>3. P[Len(x) + Len(r) + i] = y[i] BY <1>2, <3>2 DEF Joined
    <3> QED BY <1>4, <3>2, <3>3
  <2> QED BY <1>1, <2>1 DEF Ends
<1>6. h = 1 => Holds(x, P[1])
  <2> SUFFICES ASSUME h = 1 PROVE Holds(x, P[1]) OBVIOUS
  <2>1. 1 \in 1..Len(x) BY <1>2
  <2>2. P[1] = x[1] BY <1>2, <2>1 DEF Joined
  <2> QED BY <2>1, <2>2 DEF Holds
<1>7. ASSUME NEW i \in 1..Len(r) PROVE Holds(P, r[i]) /\ r[i].image = FALSE
  <2>1. PICK k : k = h + i OBVIOUS
  <2>2. k \in 1..n /\ h < k /\ k <= t BY <1>2, <1>3, <1>4, <2>1
  <2>3. P[Len(x) + i] = r[i] BY <1>2 DEF Joined
  <2>4. P[k] = r[i] BY <1>2, <2>1, <2>3
  <2>5. k \in 1..Len(P) BY <1>1, <2>2
  <2>6. P[k] \in MsgSet BY <2>5
  <2>7. P[k].image \in BOOLEAN BY <2>6 DEF MsgSet
  <2>8. ~P[k].image BY <1>3, <2>2
  <2> QED BY <2>4, <2>5, <2>7, <2>8 DEF Holds
<1> QED BY <1>1, <1>5, <1>6, <1>7

(* Compression.                                                            *)
LEMMA CompressKept ==
  ASSUME NEW P, NEW k, Prepared(P, k), NEW c, c.keep \in Nat \ {0}, c.mode = "compress", Splits(P, c.keep), NEW b,
         IsNote(b, PlacesOf(Middle(P, c.keep)))
  PROVE  Kept((Lead(P) \o <<b>>) \o Rest(P, c.keep), P, c)
<1>1. PICK keep : keep = c.keep OBVIOUS
<1>2. P \in Seq(MsgSet) /\ Apart(P) /\ \A i \in 1..Len(P) : PlainOne(P[i]) BY DEF Prepared
<1>3. PICK x, r, y, t, n : x = Lead(P) /\ r = Middle(P, keep) /\ y = Rest(P, keep) /\ t = TailStart(P, keep) /\ n = <<b>> OBVIOUS
<1>4. Joined(P, x, r, y) /\ Len(x) = HeadOf(P) /\ Len(r) = t - HeadOf(P) /\ Len(y) = Len(P) - t BY <1>1, <1>2, <1>3, PartsAre
<1>5. /\ HeadOf(P) \in {0, 1} /\ HeadOf(P) <= Len(P) /\ t \in Nat /\ t <= Len(P) - keep /\ ~InExchange(P, t)
  BY <1>1, <1>2, <1>3, TailIs
<1>6. /\ Ends(y, P, keep) /\ (HeadOf(P) = 1 => Holds(x, P[1]))
      /\ \A i \in 1..Len(r) : Holds(P, r[i]) /\ r[i].image = FALSE
  BY <1>1, <1>2, <1>3, PartsOwe
<1>7. b \in MsgSet /\ n \in Seq(MsgSet)
  <2>1. b \in MsgSet BY DEF IsNote
  <2> QED BY <1>3, <2>1, OneIsSeq
<1>8. PICK V : V = (x \o n) \o y OBVIOUS
<1>9. x \in Seq(MsgSet) /\ y \in Seq(MsgSet) BY <1>4 DEF Joined
<1>10. Joined(V, x, n, y)
  <2>1. \A v1, v2, v3 \in Seq(MsgSet) : Joined((v1 \o v2) \o v3, v1, v2, v3) BY JoinsAre
  <2> QED BY <1>7, <1>8, <1>9, <2>1
<1>11. Cuts(x, r, y, n, P, c)
  <2>1. Instead(n, PlacesOf(r)) BY <1>1, <1>3 DEF Instead
  <2>2. ASSUME NEW i \in 1..Len(r) PROVE r[i].of = {}
    <3>1. PICK j \in 1..Len(P) : P[j] = r[i] BY <1>6 DEF Holds
    <3> QED BY <1>2, <3>1 DEF PlainOne
  <2>3. n # <<>> BY <1>3
  <2> QED BY <1>1, <1>6, <2>1, <2>2, <2>3 DEF Cuts
<1>12. Edge(x, y)
  <2>1. ASSUME x # <<>> PROVE ~x[Len(x)].calls
    <3>1. HeadOf(P) = 1 /\ Len(x) = 1 BY <1>4, <1>5, <1>9, <2>1
    <3>2. P[1].role = "system" /\ 1 \in 1..Len(P) BY <1>2, <1>5, <3>1 DEF HeadOf
    <3>3. P[1] = x[1] BY <1>4, <3>1 DEF Joined
    <3>4. PlainOne(P[1]) BY <1>2, <3>2
    <3> QED BY <3>1, <3>2, <3>3, <3>4 DEF PlainOne
  <2>2. ASSUME y # <<>> PROVE y[1].role # "tool"
    <3>1. Len(x) \in Nat /\ Len(r) \in Nat /\ Len(x) + Len(r) = t /\ 1 \in 1..Len(y)
      <4>1. r \in Seq(MsgSet) BY <1>4 DEF Joined
      <4> QED BY <1>4, <1>5, <1>9, <2>2, <4>1
    <3>2. P[Len(x) + Len(r) + 1] = y[1] BY <1>4, <3>1 DEF Joined
    <3>3. P[t + 1] = y[1] BY <3>1, <3>2
    <3> QED BY <1>5, <3>3 DEF InExchange
  <2> QED BY <2>1, <2>2 DEF Edge
<1>13. Kept(P, P, c) BY KeptWhole
<1>14. c.keep \in Nat OBVIOUS
<1>15. Kept(V, P, c) BY <1>2, <1>4, <1>10, <1>11, <1>12, <1>13, <1>14, KeptCut
<1> QED BY <1>1, <1>3, <1>8, <1>15

(* A block of passages in front.                                           *)
LEMMA GroundKept ==
  ASSUME NEW P, NEW k, Prepared(P, k), NEW c, c.keep \in Nat \ {0}, NEW W, Kept(W, P, c), NEW b, IsNote(b, {})
  PROVE  Kept(<<b>> \o W, P, c)
<1>1. P \in Seq(MsgSet) /\ Apart(P) /\ W \in Seq(MsgSet) BY DEF Prepared, Kept
<1>2. PICK x, n, V : x = <<>> /\ n = <<b>> /\ V = n \o W OBVIOUS
<1>3. x \in Seq(MsgSet) /\ n \in Seq(MsgSet)
  <2>1. b \in MsgSet BY DEF IsNote
  <2> QED BY <1>2, <2>1, OneIsSeq
<1>4. \A s \in Seq(MsgSet) : x \o s = s BY <1>2, ConcatEmptySeq
<1>5. \A v1, v2, v3 \in Seq(MsgSet) : Joined((v1 \o v2) \o v3, v1, v2, v3) BY JoinsAre
<1>6. Joined((x \o x) \o W, x, x, W) /\ Joined((x \o n) \o W, x, n, W) BY <1>1, <1>3, <1>5
<1>7. Joined(W, x, x, W) /\ Joined(V, x, n, W)
  <2>1. x \o x = x /\ x \o W = W /\ x \o n = n BY <1>1, <1>3, <1>4
  <2> QED BY <1>2, <1>6, <2>1
<1>8. Len(x) = 0 BY <1>2
<1>9. Cuts(x, x, W, n, P, c)
  <2>1. PlacesOf(x) = {}
    <3>1. \A a : a \in PlacesOf(x) <=> a # 0 /\ \E i \in 1..Len(x) : x[i].at = a BY <1>3, PlacesAre
    <3> QED BY <1>8, <3>1
  <2>2. Instead(n, PlacesOf(x)) BY <1>2, <2>1 DEF Instead
  <2>3. n # <<>> BY <1>2
  <2> QED BY <1>2, <1>8, <2>2, <2>3 DEF Cuts, Kept
<1>10. Paired(W) => Edge(x, W)
  <2> SUFFICES ASSUME Paired(W), W # <<>>, W[1].role = "tool" PROVE FALSE BY <1>2 DEF Edge
  <2>1. 1 \in DOMAIN W BY <1>1
  <2> QED BY <2>1 DEF Paired
<1>11. c.keep \in Nat OBVIOUS
<1>12. Kept(V, P, c) BY <1>1, <1>7, <1>9, <1>10, <1>11, KeptCut
<1> QED BY <1>2, <1>12

(* The planner's draft: what it placed, and what it has still to place.    *)
MessagesOf(l) == [i \in 1..Len(l) |-> l[i].message]
Draft(P, b, l, keep) == ((Lead(P) \o b) \o MessagesOf(l)) \o Rest(P, keep)
Items(l, P, protect) ==
  \A i \in 1..Len(l) : Holds(P, l[i].message) /\ (l[i].label # "exact" => Quiet(l[i].message, protect))

(* The messages of some items.                                             *)
LEMMA ItemsAre ==
  ASSUME NEW l \in Seq(MarkedSet)
  PROVE  MessagesOf(l) \in Seq(MsgSet) /\ Len(MessagesOf(l)) = Len(l) /\ \A i \in 1..Len(l) : MessagesOf(l)[i] = l[i].message
<1>1. \A m \in MarkedSet : m.message \in MsgSet BY DEF MarkedSet
<1>2. PICK n, s : n = Len(l) /\ s = MessagesOf(l) OBVIOUS
<1>3. n \in Nat /\ \A i \in 1..n : l[i] \in MarkedSet BY <1>2
<1>4. s = [i \in 1..n |-> l[i].message] BY <1>2 DEF MessagesOf
<1>5. s \in [1..n -> MsgSet] BY <1>1, <1>3, <1>4
<1>6. s \in Seq(MsgSet) /\ Len(s) = n BY <1>3, <1>5, SeqFrom
<1> QED BY <1>2, <1>4, <1>6

(* At first the draft is the conversation.                                 *)
LEMMA DraftBegins ==
  ASSUME NEW P \in Seq(MsgSet), NEW keep \in Nat \ {0}, Splits(P, keep), NEW l, l = Labelled(Middle(P, keep))
  PROVE  Draft(P, <<>>, l, keep) = P /\ Items(l, P, config.protect)
<1>1. PICK x, r, y : x = Lead(P) /\ r = Middle(P, keep) /\ y = Rest(P, keep) OBVIOUS
<1>2. Joined(P, x, r, y) BY <1>1, PartsAre
<1>3. x \in Seq(MsgSet) /\ r \in Seq(MsgSet) /\ y \in Seq(MsgSet) BY <1>2 DEF Joined
<1>4. /\ l \in Seq(MarkedSet) /\ Len(l) = Len(r)
      /\ \A i \in 1..Len(r) : l[i].message = r[i] /\ (l[i].label # "exact" => Latent(r[i]))
  BY <1>1, <1>3, LabelledIs
<1>5. PICK s : s = MessagesOf(l) OBVIOUS
<1>6. s \in Seq(MsgSet) /\ Len(s) = Len(r) /\ \A i \in 1..Len(r) : s[i] = r[i] BY <1>4, <1>5, ItemsAre
<1>7. s = r BY <1>3, <1>6, SeqEqual
<1>8. x \o <<>> = x BY <1>3, ConcatEmptySeq
<1>9. P = (x \o r) \o y BY <1>2, JoinedIs
<1>10. Draft(P, <<>>, l, keep) = P BY <1>1, <1>5, <1>7, <1>8, <1>9 DEF Draft
<1>11. ASSUME NEW i \in 1..Len(l) PROVE Holds(P, l[i].message) /\ (l[i].label # "exact" => Quiet(l[i].message, config.protect))
  <2>1. i \in 1..Len(r) /\ l[i].message = r[i] /\ r[i] \in MsgSet BY <1>3, <1>4
  <2>2. Holds(P, r[i]) BY <1>1, <2>1, PartsOwe
  <2>3. l[i].label # "exact" => Latent(r[i]) BY <1>4, <2>1
  <2>4. PICK m \in MsgSet : m = r[i] BY <2>1
  <2>5. Latent(m) => Quiet(m, config.protect) BY LatentQuiet
  <2> QED BY <2>1, <2>2, <2>3, <2>4, <2>5
<1> QED BY <1>10, <1>11 DEF Items

(* Messages put together.                                                  *)
LEMMA TwoTogether ==
  ASSUME NEW x \in Seq(MsgSet), NEW y \in Seq(MsgSet)
  PROVE  /\ x \o y \in Seq(MsgSet) /\ Len(x \o y) = Len(x) + Len(y) /\ \A i \in 1..Len(x) : (x \o y)[i] = x[i]
         /\ \A i \in 1..Len(y) : (x \o y)[Len(x) + i] = y[i]
<1>1. PICK e, z : e = <<>> /\ z = x \o y OBVIOUS
<1>2. e \in Seq(MsgSet) /\ e \o x = x /\ Len(e) = 0 BY <1>1, ConcatEmptySeq
<1>3. Joined((e \o x) \o y, e, x, y) BY <1>2, JoinsAre
<1>4. Joined(z, e, x, y) BY <1>1, <1>2, <1>3
<1>5. Len(x) \in Nat /\ Len(y) \in Nat OBVIOUS
<1>6. z \in Seq(MsgSet) /\ Len(z) = Len(x) + Len(y) BY <1>2, <1>4, <1>5 DEF Joined
<1>7. ASSUME NEW i \in 1..Len(x) PROVE z[i] = x[i]
  <2>1. z[Len(e) + i] = x[i] BY <1>4 DEF Joined
  <2> QED BY <1>2, <1>5, <2>1
<1>8. ASSUME NEW i \in 1..Len(y) PROVE z[Len(x) + i] = y[i]
  <2>1. z[Len(e) + Len(x) + i] = y[i] BY <1>4 DEF Joined
  <2> QED BY <1>2, <1>5, <2>1
<1> QED BY <1>1, <1>6, <1>7, <1>8

(* In either order.                                                        *)
LEMMA ThreeTogether ==
  ASSUME NEW x \in Seq(MsgSet), NEW y \in Seq(MsgSet), NEW z \in Seq(MsgSet)
  PROVE  (x \o y) \o z = x \o (y \o z)
BY ConcatAssociative

(* What the planner places for its first item, or for its run, keeps what  *)
(* the draft owes.                                                         *)
LEMMA WalkKept ==
  ASSUME NEW P, NEW k, Prepared(P, k), NEW c, c.keep \in Nat \ {0}, c.mode = "plan", Splits(P, c.keep),
         NEW l \in Seq(MarkedSet), NEW b \in Seq(MsgSet), Items(l, P, c.protect),
         NEW n \in 1..Len(l), NEW l2 \in Seq(MarkedSet), Len(l2) = Len(l) - n, \A i \in 1..(Len(l) - n) : l2[i] = l[n + i],
         NEW F \in Seq(MsgSet), Len(F) = n, \A i \in 1..n : F[i] = l[i].message,
         NEW r \in Seq(MsgSet), r = F \/ (Instead(r, PlacesOf(F)) /\ \A i \in 1..n : l[i].label # "exact"),
         Kept(Draft(P, b, l, c.keep), P, c)
  PROVE  Items(l2, P, c.protect) /\ Kept(Draft(P, b \o r, l2, c.keep), P, c)
<1>1. PICK h, I, I2, z, m : h = Lead(P) /\ I = MessagesOf(l) /\ I2 = MessagesOf(l2) /\ z = Rest(P, c.keep) /\ m = Len(l) OBVIOUS
<1>2. P \in Seq(MsgSet) /\ Apart(P) /\ \A i \in 1..Len(P) : PlainOne(P[i]) BY DEF Prepared
<1>3. h \in Seq(MsgSet) /\ z \in Seq(MsgSet)
  <2>1. Joined(P, Lead(P), Middle(P, c.keep), Rest(P, c.keep)) BY <1>2, PartsAre
  <2> QED BY <1>1, <2>1 DEF Joined
<1>4. I \in Seq(MsgSet) /\ Len(I) = m /\ \A i \in 1..m : I[i] = l[i].message BY <1>1, ItemsAre
<1>5. I2 \in Seq(MsgSet) /\ Len(I2) = m - n /\ \A i \in 1..(m - n) : I2[i] = l2[i].message BY <1>1, ItemsAre
<1>6. m \in Nat /\ n \in Nat /\ n <= m BY <1>1
<1>7. I = F \o I2
  <2>1. PICK s : s = F \o I2 OBVIOUS
  <2>2. /\ s \in Seq(MsgSet) /\ Len(s) = n + (m - n) /\ \A i \in 1..n : s[i] = F[i]
        /\ \A i \in 1..(m - n) : s[n + i] = I2[i]
    <3>1. PICK d : d = m - n OBVIOUS
    <3>2. /\ F \o I2 \in Seq(MsgSet) /\ Len(F \o I2) = n + d /\ \A i \in 1..n : (F \o I2)[i] = F[i]
          /\ \A i \in 1..d : (F \o I2)[n + i] = I2[i]
      <4>1. Len(I2) = d BY <1>5, <3>1
      <4> QED BY <1>5, <4>1, TwoTogether
    <3> QED BY <2>1, <3>1, <3>2
  <2>3. Len(s) = m BY <1>6, <2>2
  <2>4. ASSUME NEW i \in 1..m PROVE I[i] = s[i]
    <3>1. CASE i <= n
      <4>1. i \in 1..n BY <1>6, <3>1
      <4> QED BY <1>4, <2>2, <4>1
    <3>2. CASE i > n
      <4>1. PICK j : j = i - n OBVIOUS
      <4>2. j \in 1..(m - n) /\ i = n + j BY <1>6, <3>2, <4>1
      <4>3. l2[j] = l[n + j] BY <1>1, <4>2
      <4>4. I2[j] = l2[j].message BY <1>5, <4>2
      <4> QED BY <1>4, <2>2, <4>2, <4>3, <4>4
    <3> QED BY <1>6, <3>1, <3>2
  <2>5. I = s BY <1>4, <2>2, <2>3, <2>4, SeqEqual
  <2> QED BY <2>1, <2>5
<1>8. Items(l2, P, c.protect)
  <2>1. ASSUME NEW i \in 1..Len(l2)
        PROVE  Holds(P, l2[i].message) /\ (l2[i].label # "exact" => Quiet(l2[i].message, c.protect))
    <3>1. i \in 1..(Len(l) - n) /\ n + i \in 1..Len(l) BY <1>1, <1>6
    <3>2. l2[i] = l[n + i] BY <3>1
    <3> QED BY <3>1, <3>2 DEF Items
  <2> QED BY <2>1 DEF Items
<1>9. \A v1, v2, v3 \in Seq(MsgSet) : (v1 \o v2) \o v3 = v1 \o (v2 \o v3) BY ThreeTogether
<1>10. \A v1, v2 \in Seq(MsgSet) : v1 \o v2 \in Seq(MsgSet) BY TwoTogether
<1>11. PICK x, y, W, V : x = h \o b /\ y = I2 \o z /\ W = (x \o F) \o y /\ V = (x \o r) \o y OBVIOUS
<1>12. x \in Seq(MsgSet) /\ y \in Seq(MsgSet) BY <1>3, <1>5, <1>10, <1>11
<1>13. Draft(P, b, l, c.keep) = W
  <2>1. Draft(P, b, l, c.keep) = ((h \o b) \o I) \o z BY <1>1 DEF Draft
  <2>2. (x \o I) \o z = ((x \o F) \o I2) \o z
    <3>1. x \o I = (x \o F) \o I2 BY <1>5, <1>7, <1>9, <1>12
    <3> QED BY <3>1
  <2>3. x \o F \in Seq(MsgSet) BY <1>10, <1>12
  <2>4. ((x \o F) \o I2) \o z = (x \o F) \o (I2 \o z) BY <1>3, <1>5, <1>9, <2>3
  <2> QED BY <1>11, <2>1, <2>2, <2>4
<1>14. Draft(P, b \o r, l2, c.keep) = V
  <2>1. Draft(P, b \o r, l2, c.keep) = ((h \o (b \o r)) \o I2) \o z BY <1>1 DEF Draft
  <2>2. h \o (b \o r) = x \o r BY <1>3, <1>9, <1>11
  <2>3. x \o r \in Seq(MsgSet) BY <1>10, <1>12
  <2>4. ((x \o r) \o I2) \o z = (x \o r) \o (I2 \o z) BY <1>3, <1>5, <1>9, <2>3
  <2> QED BY <1>11, <2>1, <2>2, <2>4
<1>15. CASE r = F
  <2>1. V = W BY <1>11, <1>15
  <2> QED BY <1>8, <1>13, <1>14, <2>1
<1>16. CASE Instead(r, PlacesOf(F)) /\ \A i \in 1..n : l[i].label # "exact"
  <2>1. \A v1, v2, v3 \in Seq(MsgSet) : Joined((v1 \o v2) \o v3, v1, v2, v3) BY JoinsAre
  <2>2. Joined(W, x, F, y) /\ Joined(V, x, r, y) BY <1>11, <1>12, <2>1
  <2>3. ASSUME NEW i \in 1..Len(F) PROVE Quiet(F[i], c.protect) /\ Holds(P, F[i]) /\ F[i].of = {} /\ F[i].image = FALSE
    <3>1. i \in 1..Len(l) /\ i \in 1..n BY <1>1, <1>6
    <3>2. Holds(P, F[i]) /\ Quiet(F[i], c.protect) BY <1>16, <3>1 DEF Items
    <3>3. PICK j \in 1..Len(P) : P[j] = F[i] BY <3>2 DEF Holds
    <3>4. F[i].of = {} BY <1>2, <3>3 DEF PlainOne
    <3> QED BY <3>2, <3>4 DEF Quiet
  <2>4. c.keep \in Nat OBVIOUS
  <2>5. /\ Ends(z, P, c.keep) /\ (HeadOf(P) = 1 => Holds(h, P[1])) BY <1>1, <1>2, PartsOwe
  <2>6. Ends(y, P, c.keep)
    <3>1. PICK e : e = <<>> OBVIOUS
    <3>2. e \in Seq(MsgSet) /\ e \o I2 = I2 BY <1>5, <3>1, ConcatEmptySeq
    <3>3. Joined((e \o I2) \o z, e, I2, z) BY <1>3, <1>5, <2>1, <3>2
    <3>4. Joined(y, e, I2, z) BY <1>11, <3>2, <3>3
    <3> QED BY <1>2, <2>4, <2>5, <3>4, EndsStay
  <2>7. HeadOf(P) = 1 => Holds(x, P[1])
    <3>1. PICK e : e = <<>> OBVIOUS
    <3>2. e \in Seq(MsgSet) /\ h \o e = h BY <1>3, <3>1, ConcatEmptySeq
    <3>3. Joined((h \o e) \o b, h, e, b) BY <1>3, <2>1, <3>2
    <3>4. Joined(x, h, e, b) BY <1>11, <3>2, <3>3
    <3> QED BY <2>5, <3>4, HoldsStay
  <2>8. Cuts(x, F, y, r, P, c) BY <1>16, <2>3, <2>6, <2>7 DEF Cuts
  <2>9. Paired(W) => Edge(x, y)
    <3> SUFFICES ASSUME Paired(W) PROVE Edge(x, y) OBVIOUS
    <3>1. F # <<>> BY <1>6
    <3>2. \A i \in 1..Len(F) : Quiet(F[i], c.protect) BY <2>3
    <3> QED BY <2>2, <3>1, <3>2, QuietEdge
  <2>10. Kept(W, P, c) BY <1>13
  <2>11. Kept(V, P, c) BY <1>2, <2>2, <2>4, <2>8, <2>9, <2>10, KeptCut
  <2> QED BY <1>8, <1>14, <2>11
<1> QED BY <1>15, <1>16
-----------------------------------------------------------------------------
(* What every step of the handler still owes to the conversation, and to   *)
(* its images' files.                                                      *)
OwedAt(ph, m, P, c, l, b) ==
  /\ ph \in {"images", "model", "compress"} => m = P
  /\ ph = "plan" => Kept(m, P, c) /\ (c.mode # "compress" => m = P)
  /\ ph = "walk" => m = P /\ c.mode = "plan" /\ Items(l, P, c.protect) /\ Kept(Draft(P, b, l, c.keep), P, c)
  /\ ph \in {"ground", "sent", "done"} => Kept(m, P, c)
  /\ ph = "ground" /\ c.mode = "plan" => Gone(m, P) = {} \/ 100 * Total(m) < 95 * Total(P)
FilesAt(ph, some, w, why) ==
  /\ ph = "images" => ~w
  /\ some /\ ph \in {"model", "compress", "plan", "walk", "ground", "sent"} => w
  /\ ph \in {"done", "refused"} /\ why # "rag" => ~w
PlanOwes ==
  OwedAt(phase, messages, prepared, config, left, rebuilt) /\ FilesAt(phase, images > 0, workspace, outcome)

(* It is what a client may rely on.                                        *)
LEMMA OwesSound == PlanTyped /\ PlanOwes => PromptSound
<1> SUFFICES ASSUME PlanTyped, PlanOwes PROVE PromptSound OBVIOUS
<1>1. OwedAt(phase, messages, prepared, config, left, rebuilt) /\ FilesAt(phase, images > 0, workspace, outcome)
  BY DEF PlanOwes
<1>2. FilesHeld BY <1>1 DEF FilesAt, FilesHeld
<1>3. ASSUME phase \in {"ground", "sent", "done"} PROVE TailKept /\ PairsKept /\ ImagesKept /\ NothingLost /\ Shrinks
  <2>1. Kept(messages, prepared, config) BY <1>1, <1>3 DEF OwedAt
  <2>2. TailKept /\ PairsKept /\ ImagesKept /\ NothingLost BY <2>1, KeptFaithful
  <2>3. phase = "ground" /\ config.mode = "plan" => Gone(messages, prepared) = {} \/ 100 * Total(messages) < 95 * Total(prepared)
    BY <1>1 DEF OwedAt
  <2>4. Shrinks BY <2>3 DEF Shrinks, Lost, Gone
  <2> QED BY <2>2, <2>4
<1> QED BY <1>2, <1>3 DEF PromptSound, PromptFaithful

(* Nothing is owed before the first request.                               *)
LEMMA OwesBegins == PlanInit => PlanOwes
<1> SUFFICES ASSUME PlanInit PROVE PlanOwes OBVIOUS
<1>1. phase = "idle" BY DEF PlanInit
<1> QED BY <1>1 DEF PlanOwes, OwedAt, FilesAt

(* The files, step by step.                                                *)
LEMMA FilesKept ==
  ASSUME PlanTyped, PlanOwes,
         \/ Resolve \/ EnsureModel \/ NoModel \/ Uncompressed \/ Compress \/ Unplanned \/ PlanBegins \/ PlanFails
         \/ PlanEnds \/ NoteSpoils \/ Ungrounded \/ Ground \/ NoPassages \/ TooLarge \/ Generated
  PROVE  FilesAt(phase', images' > 0, workspace', outcome')
<1>1. PICK some : some = (images > 0) OBVIOUS
<1>2. FilesAt(phase, some, workspace, outcome) BY <1>1 DEF PlanOwes
<1>3. images' = images BY HandlerTyped DEF Framed5
<1>4. some = (images' > 0) BY <1>1, <1>3
<1>5. workspace \in BOOLEAN BY DEF PlanTyped
<1>6. FilesAt(phase', some, workspace', outcome')
  <2>1. CASE Resolve
    <3>1. /\ phase = "images"
          /\ \/ workspace' = some /\ phase' = "model"
             \/ phase' = "refused" /\ outcome' = "image" /\ workspace' = workspace
      <4>1. /\ phase = "images"
            /\ \/ workspace' = (images > 0) /\ phase' = "model"
               \/ phase' = "refused" /\ outcome' = "image" /\ workspace' = workspace
        BY <2>1 DEF Resolve, Refuse
      <4>2. CASE workspace' = (images > 0) /\ phase' = "model"
        <5>1. workspace' = some BY <1>1, <4>2, Zenon
        <5> QED BY <4>1, <4>2, <5>1
      <4> QED BY <4>1, <4>2
    <3>2. CASE workspace' = some /\ phase' = "model" BY <3>2 DEF FilesAt
    <3>3. CASE phase' = "refused" /\ outcome' = "image" /\ workspace' = workspace BY <1>2, <3>1, <3>3 DEF FilesAt
    <3> QED BY <3>1, <3>2, <3>3
  <2>2. CASE EnsureModel \/ Uncompressed \/ Compress \/ Unplanned \/ PlanBegins \/ PlanFails \/ PlanEnds \/ Ungrounded \/ Ground
    <3>1. /\ phase \in {"model", "compress", "plan", "walk", "ground"} /\ workspace' = workspace
          /\ phase' \in {"compress", "plan", "walk", "ground", "sent"}
      BY <2>2 DEF EnsureModel, Uncompressed, Compress, Unplanned, PlanBegins, PlanFails, PlanEnds, Ungrounded, Ground, walkFrame
    <3> QED BY <1>2, <3>1 DEF FilesAt
  <2>3. CASE NoModel \/ TooLarge \/ Generated
    <3>1. phase' \in {"refused", "done"} /\ workspace' = FALSE BY <2>3 DEF NoModel, TooLarge, Generated, Refuse, Cleanup
    <3> QED BY <3>1 DEF FilesAt
  <2>4. CASE NoPassages
    <3>1. phase' = "refused" /\ outcome' = "rag" BY <2>4 DEF NoPassages, Refuse
    <3> QED BY <3>1 DEF FilesAt
  <2>5. CASE NoteSpoils
    <3>1. phase' = phase /\ workspace' = workspace /\ outcome' = outcome BY <2>5 DEF NoteSpoils
    <3> QED BY <1>2, <3>1 DEF FilesAt
  <2> QED BY <2>1, <2>2, <2>3, <2>4, <2>5
<1> QED BY <1>4, <1>6

(* What is owed, step by step.                                             *)
LEMMA OwedKept ==
  ASSUME PlanTyped, PlanOwes,
         \/ Resolve \/ EnsureModel \/ NoModel \/ Uncompressed \/ Compress \/ Unplanned \/ PlanBegins \/ PlanFails
         \/ PlanEnds \/ NoteSpoils \/ Ungrounded \/ Ground \/ NoPassages \/ TooLarge \/ Generated
  PROVE  OwedAt(phase', messages', prepared', config', left', rebuilt')
<1>0. config' = config /\ prepared' = prepared BY HandlerTyped DEF Framed5
<1>1. OwedAt(phase, messages, prepared, config, left, rebuilt) BY DEF PlanOwes
<1>2. PICK P, c, k : P = prepared /\ c = config /\ k = images OBVIOUS
<1>3. /\ Prepared(P, k) /\ P \in Seq(MsgSet) /\ c.keep \in Nat \ {0} /\ c.mode \in {"off", "compress", "plan"}
      /\ messages \in Seq(MsgSet)
  <2>1. config \in Configs /\ Prepared(prepared, images) /\ messages \in Seq(MsgSet) BY DEF PlanTyped
  <2> QED BY <1>2, <2>1, ConfigIs DEF Prepared
<1>4. Kept(P, P, c) BY <1>3, KeptWhole
<1>5. Gone(P, P) = {} BY DEF Gone
<1>6. SUFFICES OwedAt(phase', messages', P, c, left', rebuilt') BY <1>0, <1>2
<1>7. /\ phase \in {"images", "model", "compress"} => messages = P
      /\ phase = "plan" => Kept(messages, P, c) /\ (c.mode # "compress" => messages = P)
      /\ phase = "walk" => /\ messages = P /\ c.mode = "plan" /\ Items(left, P, c.protect)
                           /\ Kept(Draft(P, rebuilt, left, c.keep), P, c)
      /\ phase \in {"ground", "sent", "done"} => Kept(messages, P, c)
      /\ phase = "ground" /\ c.mode = "plan" => Gone(messages, P) = {} \/ 100 * Total(messages) < 95 * Total(P)
  BY <1>1, <1>2 DEF OwedAt
<1>8. CASE Resolve \/ EnsureModel
  <2>1. phase \in {"images", "model"} /\ messages' = messages /\ phase' \in {"model", "compress", "refused"}
    BY <1>8 DEF Resolve, EnsureModel, Refuse
  <2> QED BY <1>7, <2>1 DEF OwedAt
<1>9. CASE NoModel \/ NoPassages \/ TooLarge
  <2>1. phase' = "refused" BY <1>9 DEF NoModel, NoPassages, TooLarge, Refuse
  <2> QED BY <2>1 DEF OwedAt
<1>10. CASE Uncompressed
  <2>1. phase = "compress" /\ phase' = "plan" /\ messages' = messages BY <1>10 DEF Uncompressed
  <2>2. messages' = P BY <1>7, <2>1
  <2> QED BY <1>4, <2>1, <2>2 DEF OwedAt
<1>11. CASE Compress
  <2>1. phase = "compress" /\ phase' = "plan" /\ config.mode = "compress" /\ Splits(messages, config.keep)
    BY <1>11 DEF Compress, Compresses
  <2>2. messages = P /\ c.mode = "compress" /\ Splits(P, c.keep) BY <1>2, <1>7, <2>1
  <2>3. PICK note \in Summaries(PlacesOf(Middle(messages, config.keep))) :
          messages' = Lead(messages) \o <<note>> \o Rest(messages, config.keep)
    BY <1>11 DEF Compress
  <2>4. PICK of : of = PlacesOf(Middle(P, c.keep)) OBVIOUS
  <2>5. of \in SUBSET Nat
    <3>1. Joined(P, Lead(P), Middle(P, c.keep), Rest(P, c.keep)) BY <1>3, <2>2, PartsAre
    <3>2. Middle(P, c.keep) \in Seq(MsgSet) BY <3>1 DEF Joined
    <3> QED BY <2>4, <3>2, PlacesAre
  <2>6. note \in Summaries(of) BY <1>2, <2>2, <2>3, <2>4
  <2>7. PICK size \in NoteSizes : note = Note(size, of) BY <2>6 DEF Summaries
  <2>8. size \in Nat BY <2>7, PlanBounds
  <2>9. IsNote(note, of) BY <2>5, <2>7, <2>8, NoteIs
  <2>10. IsNote(note, PlacesOf(Middle(P, c.keep))) BY <2>4, <2>9
  <2>11. Kept((Lead(P) \o <<note>>) \o Rest(P, c.keep), P, c) BY <1>3, <2>2, <2>10, CompressKept
  <2>12. messages' = (Lead(P) \o <<note>>) \o Rest(P, c.keep) BY <1>2, <2>2, <2>3
  <2>13. Kept(messages', P, c) BY <2>11, <2>12
  <2> QED BY <2>1, <2>2, <2>13 DEF OwedAt
<1>12. CASE Unplanned
  <2>1. phase = "plan" /\ phase' = "ground" /\ messages' = messages BY <1>12 DEF Unplanned
  <2>2. Kept(messages', P, c) /\ (c.mode = "plan" => Gone(messages', P) = {}) BY <1>5, <1>7, <2>1
  <2> QED BY <2>1, <2>2 DEF OwedAt
<1>13. CASE PlanBegins
  <2>1. /\ phase = "plan" /\ phase' = "walk" /\ messages' = messages /\ config.mode = "plan"
        /\ Splits(messages, config.keep) /\ left' = Labelled(Middle(messages, config.keep)) /\ rebuilt' = <<>>
    BY <1>13 DEF PlanBegins, Plans
  <2>2. messages = P /\ c.mode = "plan" /\ Splits(P, c.keep) BY <1>2, <1>7, <2>1
  <2>3. PICK l : l = Labelled(Middle(P, c.keep)) OBVIOUS
  <2>4. left' = l /\ messages' = P BY <1>2, <2>1, <2>2, <2>3
  <2>5. Draft(P, <<>>, l, c.keep) = P /\ Items(l, P, config.protect) BY <1>3, <2>2, <2>3, DraftBegins
  <2>6. Kept(Draft(P, rebuilt', left', c.keep), P, c) /\ Items(left', P, c.protect) BY <1>2, <1>4, <2>1, <2>4, <2>5
  <2> QED BY <2>1, <2>2, <2>4, <2>6 DEF OwedAt
<1>14. CASE PlanFails
  <2>1. phase = "walk" /\ phase' = "ground" /\ messages' = messages BY <1>14 DEF PlanFails, walkFrame
  <2>2. messages' = P BY <1>7, <2>1
  <2>3. Kept(messages', P, c) /\ Gone(messages', P) = {} BY <1>4, <1>5, <2>2
  <2> QED BY <2>1, <2>3 DEF OwedAt
<1>15. CASE PlanEnds
  <2>1. /\ phase = "walk" /\ phase' = "ground" /\ left = <<>>
        /\ messages' = IF 100 * Total(Lead(messages) \o rebuilt \o Rest(messages, config.keep)) >= 95 * Total(messages)
                       THEN messages ELSE Lead(messages) \o rebuilt \o Rest(messages, config.keep)
    BY <1>15 DEF PlanEnds
  <2>2. messages = P /\ c.mode = "plan" /\ Kept(Draft(P, rebuilt, left, c.keep), P, c) BY <1>7, <2>1
  <2>3. PICK d : d = Draft(P, rebuilt, left, c.keep) OBVIOUS
  <2>4. d = (Lead(P) \o rebuilt) \o Rest(P, c.keep)
    <3>1. PICK I, z, y : I = MessagesOf(left) /\ z = Lead(P) \o rebuilt /\ y = Rest(P, c.keep) OBVIOUS
    <3>2. I = <<>>
      <4>1. <<>> \in Seq(MarkedSet) /\ Len(<<>>) = 0 OBVIOUS
      <4>2. I \in Seq(MsgSet) /\ Len(I) = 0 BY <2>1, <3>1, <4>1, ItemsAre
      <4> QED BY <4>2, EmptySeq
    <3>3. z \in Seq(MsgSet)
      <4>1. rebuilt \in Seq(MsgSet) /\ phase = "walk" /\ Splits(messages, config.keep) BY <2>1 DEF PlanTyped
      <4>2. Splits(P, c.keep) BY <1>2, <2>2, <4>1
      <4>3. Joined(P, Lead(P), Middle(P, c.keep), Rest(P, c.keep)) BY <1>3, <4>2, PartsAre
      <4>4. Lead(P) \in Seq(MsgSet) BY <4>3 DEF Joined
      <4> QED BY <3>1, <4>1, <4>4, TwoTogether
    <3>4. z \o <<>> = z BY <3>3, ConcatEmptySeq
    <3>5. d = (z \o I) \o y BY <2>3, <3>1 DEF Draft
    <3> QED BY <3>1, <3>2, <3>4, <3>5
  <2>5. messages' = IF 100 * Total(d) >= 95 * Total(P) THEN P ELSE d BY <1>2, <2>1, <2>2, <2>4
  <2>6. Kept(d, P, c) BY <2>2, <2>3
  <2>7. Total(d) \in Nat /\ Total(P) \in Nat
    <3>1. d \in Seq(MsgSet) BY <2>6 DEF Kept
    <3> QED BY <1>3, <3>1, TotalNat
  <2>8. Kept(messages', P, c) BY <1>4, <2>5, <2>6
  <2>9. Gone(messages', P) = {} \/ 100 * Total(messages') < 95 * Total(P)
    <3>1. CASE 100 * Total(d) >= 95 * Total(P)
      <4>1. messages' = P BY <2>5, <3>1
      <4> QED BY <1>5, <4>1
    <3>2. CASE ~(100 * Total(d) >= 95 * Total(P))
      <4>1. messages' = d BY <2>5, <3>2
      <4>2. PICK m, n : m = Total(d) /\ n = Total(P) OBVIOUS
      <4>3. 100 * m < 95 * n BY <2>7, <3>2, <4>2
      <4> QED BY <4>1, <4>2, <4>3
    <3> QED BY <3>1, <3>2
  <2> QED BY <2>1, <2>8, <2>9 DEF OwedAt
<1>16. CASE NoteSpoils
  <2>1. phase' = phase /\ messages' = messages /\ phase \in {"idle", "done", "refused"} BY <1>16 DEF NoteSpoils
  <2> QED BY <1>7, <2>1 DEF OwedAt
<1>17. CASE Ungrounded
  <2>1. phase = "ground" /\ phase' = "sent" /\ messages' = messages BY <1>17 DEF Ungrounded
  <2>2. Kept(messages', P, c) BY <1>7, <2>1
  <2> QED BY <2>1, <2>2 DEF OwedAt
<1>18. CASE Ground
  <2>1. phase = "ground" /\ phase' = "sent" BY <1>18 DEF Ground
  <2>2. PICK ps \in Passages : messages' = Injected(ContextBlock(ps), messages) BY <1>18 DEF Ground
  <2>3. PICK b, e : b = ContextBlock(ps) /\ e = {} OBVIOUS
  <2>4. IsNote(b, e) BY <2>3, BlockIs
  <2>5. IsNote(b, {}) BY <2>3, <2>4
  <2>6. Kept(messages, P, c) BY <1>7, <2>1
  <2>7. Kept(<<b>> \o messages, P, c) BY <1>3, <2>5, <2>6, GroundKept
  <2>8. messages' = <<b>> \o messages BY <2>2, <2>3 DEF Injected
  <2>9. Kept(messages', P, c) BY <2>7, <2>8
  <2> QED BY <2>1, <2>9 DEF OwedAt
<1>19. CASE Generated
  <2>1. phase = "sent" /\ phase' = "done" /\ messages' = messages BY <1>19 DEF Generated
  <2>2. Kept(messages', P, c) BY <1>7, <2>1
  <2> QED BY <2>1, <2>2 DEF OwedAt
<1> QED BY <1>8, <1>9, <1>10, <1>11, <1>12, <1>13, <1>14, <1>15, <1>16, <1>17, <1>18, <1>19

(* A step of the planner's walk.                                           *)
LEMMA WalkOwes ==
  ASSUME PlanTyped, PlanOwes, Walk
  PROVE  PlanOwes'
<1>1. /\ phase = "walk" /\ left # <<>> /\ Framed5 /\ messages' = messages /\ workspace' = workspace /\ outcome' = outcome
  BY WalkPlaces
<1>2. PICK r \in Seq(MsgSet), n \in 1..Len(left) : Place(r, n) /\ Walked(r, n) BY WalkPlaces
<1>3. left \in Seq(MarkedSet) /\ rebuilt \in Seq(MsgSet) /\ Splits(messages, config.keep) BY <1>1 DEF PlanTyped
<1>4. n \in 0..Len(left) BY <1>2
<1>5. /\ left' \in Seq(MarkedSet) /\ Len(left') = Len(left) - n /\ \A i \in 1..(Len(left) - n) : left'[i] = left[n + i]
      /\ rebuilt' = rebuilt \o r /\ phase' = phase
  BY <1>2, <1>3, <1>4, PlaceTyped
<1>6. /\ messages = prepared /\ config.mode = "plan" /\ Items(left, prepared, config.protect)
      /\ Kept(Draft(prepared, rebuilt, left, config.keep), prepared, config)
  BY <1>1 DEF PlanOwes, OwedAt
<1>7. PICK P, c, k, l, l2, b : /\ P = prepared /\ c = config /\ k = images /\ l = left /\ l2 = left' /\ b = rebuilt
  OBVIOUS
<1>8. Prepared(P, k) /\ c.keep \in Nat \ {0} /\ c.mode = "plan" /\ Splits(P, c.keep) /\ Items(l, P, c.protect)
  <2>1. config \in Configs /\ Prepared(prepared, images) BY DEF PlanTyped
  <2>2. config.keep \in Nat \ {0} BY <2>1, ConfigIs
  <2> QED BY <1>3, <1>6, <1>7, <2>1, <2>2
<1>9. Kept(Draft(P, b, l, c.keep), P, c) BY <1>6, <1>7
<1>10. l \in Seq(MarkedSet) /\ b \in Seq(MsgSet) /\ n \in 1..Len(l) /\ l2 \in Seq(MarkedSet) /\ Len(l2) = Len(l) - n
       /\ \A i \in 1..(Len(l) - n) : l2[i] = l[n + i]
  BY <1>2, <1>3, <1>5, <1>7
<1>11. PICK F \in Seq(MsgSet) : /\ Len(F) = n /\ \A i \in 1..n : F[i] = l[i].message
                                /\ r = F \/ (Instead(r, PlacesOf(F)) /\ \A i \in 1..n : l[i].label # "exact")
  <2>1. l[1] \in MarkedSet /\ l[1].message \in MsgSet
    <3>1. 1 \in 1..Len(l) BY <1>10
    <3>2. l[1] \in MarkedSet BY <1>10, <3>1
    <3> QED BY <3>2 DEF MarkedSet
  <2>2. PICK f : f = <<l[1].message>> OBVIOUS
  <2>3. f \in Seq(MsgSet) /\ Len(f) = 1 /\ f[1] = l[1].message BY <2>1, <2>2, OneIsSeq
  <2>4. CASE left[1].label = "exact" /\ n = 1 /\ r = <<left[1].message>>
    <3>1. r = f BY <1>7, <2>2, <2>4
    <3> QED BY <2>3, <2>4, <3>1
  <2>5. CASE left[1].label = "cold" /\ n = 1 /\ r = <<>>
    <3>1. Instead(r, PlacesOf(f)) BY <2>5 DEF Instead
    <3>2. l[1].label # "exact" BY <1>7, <2>5
    <3> QED BY <2>3, <2>5, <3>1, <3>2
  <2>6. CASE RunLength > 0 /\ n = RunLength /\ (r = Run \/ \E e : r = <<e>> /\ IsNote(e, Key))
    <3>1. /\ \A i \in 1..RunLength : left[i].label = "latent"
          /\ Run \in Seq(MsgSet) /\ Len(Run) = RunLength /\ \A i \in 1..RunLength : Run[i] = left[i].message
      BY <1>3, RunIs
    <3>2. PICK f2 : f2 = Run OBVIOUS
    <3>3. f2 \in Seq(MsgSet) /\ Len(f2) = n /\ \A i \in 1..n : f2[i] = l[i].message /\ l[i].label # "exact"
      BY <1>7, <2>6, <3>1, <3>2
    <3>4. r = f2 \/ Instead(r, PlacesOf(f2)) BY <2>6, <3>2 DEF Instead, Key
    <3> QED BY <3>3, <3>4
  <2> QED BY <1>2, <2>4, <2>5, <2>6 DEF Walked
<1>12. Items(l2, P, c.protect) /\ Kept(Draft(P, b \o r, l2, c.keep), P, c) BY <1>8, <1>9, <1>10, <1>11, WalkKept
<1>13. OwedAt(phase', messages', prepared', config', left', rebuilt')
  <2>1. prepared' = P /\ config' = c /\ messages' = P /\ left' = l2 /\ rebuilt' = b \o r /\ phase' = "walk"
    BY <1>1, <1>5, <1>6, <1>7 DEF Framed5
  <2> QED BY <1>8, <1>12, <2>1 DEF OwedAt
<1>14. FilesAt(phase', images' > 0, workspace', outcome')
  <2>1. phase' = phase /\ images' = images /\ workspace' = workspace /\ outcome' = outcome BY <1>1, <1>5 DEF Framed5
  <2> QED BY <2>1 DEF FilesAt, PlanOwes
<1> QED BY <1>13, <1>14 DEF PlanOwes

(* Every step keeps what is owed.                                          *)
LEMMA OwesKeeps == PlanTyped /\ PlanOwes /\ [PlanNext]_planVars => PlanOwes'
<1> SUFFICES ASSUME PlanTyped, PlanOwes, [PlanNext]_planVars PROVE PlanOwes' OBVIOUS
<1>1. CASE UNCHANGED planVars BY <1>1 DEF planVars, PlanOwes, OwedAt, FilesAt
<1>2. CASE Ask
  <2>1. phase' = "refused" \/ (phase' = "images" /\ messages' = prepared') BY <1>2, AskTyped
  <2>2. workspace' = FALSE BY <1>2 DEF Ask
  <2> QED BY <2>1, <2>2 DEF PlanOwes, OwedAt, FilesAt
<1>3. CASE Walk BY <1>3, WalkOwes
<1>4. CASE PlanNext /\ ~Ask /\ ~Walk
  <2>1. OwedAt(phase', messages', prepared', config', left', rebuilt') BY <1>4, OwedKept DEF PlanNext, Walk
  <2>2. FilesAt(phase', images' > 0, workspace', outcome') BY <1>4, FilesKept DEF PlanNext, Walk
  <2> QED BY <2>1, <2>2 DEF PlanOwes
<1> QED BY <1>1, <1>2, <1>3, <1>4

(* Whatever a summary, the planner, the cache of notes or a retrieval does *)
(* or fails to do, the prompt is the client's: its newest messages in      *)
(* order, its instructions, calls with their results, its images, and of   *)
(* the rest nothing left out without a note but old or short talk; the     *)
(* images' files are there as long as the request needs them               *)
(* (context_compression.py, adaptive_memory, retrieval.py, images.py).     *)
THEOREM ThePromptIsSound == Spec => []PromptSound
<1>1. Init => PlanTyped /\ PlanOwes BY TypedBegins, OwesBegins DEF Init
<1>2. PlanTyped /\ PlanOwes /\ [Next]_<<way, planVars, textVars, routeVars>> => PlanTyped' /\ PlanOwes'
  <2> SUFFICES ASSUME PlanTyped, PlanOwes, [Next]_<<way, planVars, textVars, routeVars>> PROVE PlanTyped' /\ PlanOwes'
    OBVIOUS
  <2>1. PlanNext \/ UNCHANGED planVars BY DEF Next
  <2> QED BY <2>1, TypedKeeps, OwesKeeps
<1> QED BY <1>1, <1>2, OwesSound, PTL DEF Spec
=============================================================================
