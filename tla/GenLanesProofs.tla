--------------------------- MODULE GenLanesProofs ---------------------------
EXTENDS GenLanes, TLAPS, FiniteSetTheorems, WellFoundedInduction, NaturalsInduction

NoDup(q) == \A i, j \in 1..Len(q) : q[i] = q[j] => i = j

(* Pos finds a waiter's place in a queue. *)
LEMMA PosIn ==
  ASSUME NEW q \in Seq(Req), NEW r \in Elems(q)
  PROVE  Pos(q, r) \in 1..Len(q) /\ q[Pos(q, r)] = r
BY DEF Pos, Elems

(* Removing a waiter from a queue without repetitions. *)
LEMMA WithoutProps ==
  ASSUME NEW q \in Seq(Req), NoDup(q), NEW r \in Elems(q)
  PROVE  /\ Without(q, r) \in Seq(Req)
         /\ NoDup(Without(q, r))
         /\ Elems(Without(q, r)) = Elems(q) \ {r}
         /\ r # Head(q) => Without(q, r) # <<>> /\ Head(Without(q, r)) = Head(q)
<1> DEFINE p == Pos(q, r)
           w == Without(q, r)
<1>1. p \in 1..Len(q) /\ q[p] = r
  BY PosIn
<1>2. /\ w \in Seq(Req)
      /\ Len(w) = Len(q) - 1
      /\ \A i \in 1..(Len(q) - 1) : w[i] = IF i < p THEN q[i] ELSE q[i + 1]
  <2> DEFINE a == SubSeq(q, 1, p - 1)
             b == SubSeq(q, p + 1, Len(q))
  <2>1. a \in Seq(Req) /\ Len(a) = p - 1 /\ \A i \in 1..(p - 1) : a[i] = q[i]
    BY <1>1
  <2>2. b \in Seq(Req) /\ Len(b) = Len(q) - p /\ \A i \in 1..(Len(q) - p) : b[i] = q[i + p]
    BY <1>1
  <2>3. w = a \o b
    BY DEF Without
  <2> HIDE DEF p, a, b
  <2>4. w \in Seq(Req) /\ Len(w) = Len(q) - 1
    BY <1>1, <2>1, <2>2, <2>3
  <2>5. ASSUME NEW i \in 1..(Len(q) - 1)
        PROVE  w[i] = IF i < p THEN q[i] ELSE q[i + 1]
    <3>1. CASE i < p
      BY <1>1, <2>1, <2>2, <2>3, <3>1
    <3>2. CASE ~(i < p)
      <4>1. w[i] = b[i - Len(a)] /\ i - Len(a) \in 1..(Len(q) - p)
        BY <1>1, <2>1, <2>2, <2>3, <3>2
      <4>2. b[i - Len(a)] = q[i - Len(a) + p]
        BY <2>2, <4>1
      <4> QED
        BY <1>1, <2>1, <3>2, <4>1, <4>2
    <3> QED
      BY <3>1, <3>2
  <2> QED
    BY <2>4, <2>5
<1>3. NoDup(w)
  BY <1>1, <1>2 DEF NoDup
<1>4. Elems(w) = Elems(q) \ {r}
  <2>1. ASSUME NEW x \in Elems(w) PROVE x \in Elems(q) /\ x # r
    BY <1>1, <1>2, <2>1 DEF Elems, NoDup
  <2>2. ASSUME NEW x \in Elems(q), x # r PROVE x \in Elems(w)
    <3>1. PICK i \in 1..Len(q) : q[i] = x
      BY DEF Elems
    <3>2. CASE i < p
      BY <1>1, <1>2, <3>1, <3>2 DEF Elems
    <3>3. CASE i > p
      <4>1. i - 1 \in 1..(Len(q) - 1) /\ w[i - 1] = x
        BY <1>1, <1>2, <3>1, <3>3
      <4> QED
        BY <1>2, <4>1 DEF Elems
    <3> QED
      BY <1>1, <2>2, <3>1, <3>2, <3>3
  <2> QED
    BY <2>1, <2>2
<1>5. ASSUME r # Head(q) PROVE w # <<>> /\ Head(w) = Head(q)
  BY <1>1, <1>2, <1>5
<1> QED
  BY <1>2, <1>3, <1>4, <1>5

(* Appending a new waiter to a queue without repetitions. *)
LEMMA AppendProps ==
  ASSUME NEW q \in Seq(Req), NoDup(q), NEW r \in Req, r \notin Elems(q)
  PROVE  /\ Append(q, r) \in Seq(Req)
         /\ NoDup(Append(q, r))
         /\ Elems(Append(q, r)) = Elems(q) \cup {r}
         /\ q # <<>> => Head(Append(q, r)) = Head(q)
<1>1. /\ Append(q, r) \in Seq(Req) /\ Len(Append(q, r)) = Len(q) + 1
      /\ \A i \in 1..Len(q) : Append(q, r)[i] = q[i]
      /\ Append(q, r)[Len(q) + 1] = r
  OBVIOUS
<1>2. NoDup(Append(q, r))
  BY <1>1 DEF NoDup, Elems
<1>3. Elems(Append(q, r)) = Elems(q) \cup {r}
  BY <1>1 DEF Elems
<1> QED
  BY <1>1, <1>2, <1>3

-----------------------------------------------------------------------------

(* A bounded non-empty set of naturals has a largest element. *)
LEMMA HasMaximum ==
  ASSUME NEW S \in SUBSET Nat, S # {}, NEW n \in Nat, \A x \in S : x <= n
  PROVE  \E m \in S : \A x \in S : x <= m
<1> DEFINE T == {k \in Nat : n - k \in S}
<1>1. \A x \in S : x \in Nat /\ n - x \in T
  OBVIOUS
<1>2. T \subseteq Nat /\ T # {}
  BY <1>1
<1>3. PICK t \in T : \A u \in T : ~(<<u, t>> \in OpToRel(<, Nat))
  BY <1>2, NatLessThanWellFounded, WFMin
<1>4. \A u \in T : ~(u < t)
  BY <1>2, <1>3 DEF OpToRel
<1>5. ASSUME NEW x \in S PROVE x <= n - t
  <2>1. ~(n - x < t) /\ t \in Nat /\ x \in Nat
    BY <1>1, <1>4
  <2> QED
    BY <2>1
<1>6. n - t \in S
  OBVIOUS
<1> QED
  BY <1>5, <1>6

SemOK(pl) == NoDup(pl.sq) /\ pl.sgrant \subseteq Elems(pl.sq)

(* There are finitely many requests. *)
LEMMA ReqSetsFinite ==
  ASSUME NEW S \in SUBSET Req
  PROVE  IsFiniteSet(S) /\ Cardinality(S) \in Nat
BY FiniteAssumption, FS_Subset, FS_CardinalityType

(* Waking at most n waiters wakes at most n.                               *)
LEMMA SemFirstBound ==
  ASSUME NEW pl \in PoolState, SemOK(pl), NEW n \in Nat
  PROVE  /\ SemFirst(pl, n) \subseteq SemWaiters(pl)
         /\ SemFirst(pl, n) \in SUBSET Req
         /\ SemFirst(pl, n) \cap pl.sgrant = {}
         /\ Cardinality(SemFirst(pl, n)) <= n
<1> DEFINE W == SemWaiters(pl)
           F == SemFirst(pl, n)
           Upto(r) == {x \in W : Pos(pl.sq, x) <= Pos(pl.sq, r)}
<1>1. W \subseteq Elems(pl.sq) /\ Elems(pl.sq) \subseteq Req /\ pl.sq \in Seq(Req)
      /\ W \cap pl.sgrant = {}
  BY DEF SemWaiters, Elems, PoolState
<1>2. F \subseteq W /\ F \in SUBSET Req /\ F \cap pl.sgrant = {}
  BY <1>1 DEF SemFirst
<1>3. CASE F = {}
  BY <1>2, <1>3, FS_EmptySet
<1>4. CASE F # {}
  <2> DEFINE P == {Pos(pl.sq, r) : r \in F}
  <2>1. \A r \in F : Pos(pl.sq, r) \in 1..Len(pl.sq)
    BY <1>1, <1>2, PosIn
  <2>2. PICK m \in P : \A x \in P : x <= m
    <3>1. P \in SUBSET Nat /\ P # {} /\ Len(pl.sq) \in Nat /\ \A x \in P : x <= Len(pl.sq)
      BY <1>1, <1>4, <2>1
    <3> QED
      BY <3>1, HasMaximum
  <2>3. PICK r \in F : m = Pos(pl.sq, r)
    OBVIOUS
  <2>4. F \subseteq Upto(r)
    BY <1>2, <2>2, <2>3
  <2>5. Cardinality(Upto(r)) <= n
    BY <2>3 DEF SemFirst
  <2>6. Upto(r) \in SUBSET Req
    BY <1>1
  <2>7. Cardinality(F) <= Cardinality(Upto(r))
    BY <2>4, <2>6, ReqSetsFinite, FS_Subset
  <2>8. Cardinality(F) \in Nat /\ Cardinality(Upto(r)) \in Nat
    BY <1>2, <2>6, ReqSetsFinite
  <2> HIDE DEF F, Upto
  <2>9. Cardinality(F) <= n
    BY <2>5, <2>7, <2>8
  <2> QED
    BY <1>2, <2>9 DEF F
<1> QED
  BY <1>3, <1>4

(* Cardinalities of disjoint sets of requests add up. *)
LEMMA DisjointUnion ==
  ASSUME NEW A \in SUBSET Req, NEW B \in SUBSET Req, A \cap B = {}
  PROVE  Cardinality(A \cup B) = Cardinality(A) + Cardinality(B)
<1>1. IsFiniteSet(A) /\ IsFiniteSet(B) /\ Cardinality(A) \in Nat /\ Cardinality(B) \in Nat
  BY ReqSetsFinite
<1>2. Cardinality(A \cap B) = 0
  BY FS_EmptySet
<1>3. Cardinality(A \cup B) = Cardinality(A) + Cardinality(B) - Cardinality(A \cap B)
  BY <1>1, FS_Union
<1> QED
  BY <1>1, <1>2, <1>3

(* Permits that are free, handed over or held by a deciding acquisition.   *)
Total(pl) == pl.free + Cardinality(pl.sgrant) + Cardinality(pl.raw)

(* The count of permits outside the lanes is an integer. *)
LEMMA TotalInt ==
  ASSUME NEW pl \in PoolState
  PROVE  Total(pl) \in Int
<1>1. Cardinality(pl.sgrant) \in Nat /\ Cardinality(pl.raw) \in Nat /\ pl.free \in Nat
  BY ReqSetsFinite DEF PoolState
<1> QED
  BY <1>1 DEF Total

(* Waking waiters moves permits from free to granted: the total stays. *)
LEMMA SemWakeProps ==
  ASSUME NEW pl \in PoolState, SemOK(pl), NEW n \in Nat, n <= pl.free
  PROVE  LET q == SemWake(pl, n) IN
         /\ q \in PoolState /\ SemOK(q) /\ Total(q) = Total(pl)
         /\ q.sq = pl.sq /\ q.raw = pl.raw /\ q.lanes = pl.lanes
         /\ q.abandoned = pl.abandoned /\ q.tasks = pl.tasks
<1> DEFINE F == SemFirst(pl, n)
           q == SemWake(pl, n)
<1>1. F \in SUBSET Req /\ F \cap pl.sgrant = {} /\ Cardinality(F) <= n /\ F \subseteq Elems(pl.sq)
  BY SemFirstBound DEF SemWaiters
<1>2. Cardinality(F) \in Nat /\ pl.sgrant \in SUBSET Req /\ pl.free \in Nat
      /\ Cardinality(pl.sgrant) \in Nat /\ Cardinality(pl.raw) \in Nat
  BY <1>1, ReqSetsFinite DEF PoolState
<1>3. q = [pl EXCEPT !.sgrant = pl.sgrant \cup F, !.free = pl.free - Cardinality(F)]
  BY DEF SemWake
<1>4. Cardinality(pl.sgrant \cup F) = Cardinality(pl.sgrant) + Cardinality(F)
  BY <1>1, <1>2, DisjointUnion
<1> HIDE DEF F, q
<1>9. pl.free - Cardinality(F) \in Nat /\ pl.sgrant \cup F \in SUBSET Req
  BY <1>1, <1>2
<1>5. q \in PoolState
  BY <1>3, <1>9 DEF PoolState
<1>6. /\ q.sq = pl.sq /\ q.raw = pl.raw /\ q.lanes = pl.lanes
      /\ q.abandoned = pl.abandoned /\ q.tasks = pl.tasks
      /\ q.sgrant = pl.sgrant \cup F /\ q.free = pl.free - Cardinality(F)
  BY <1>3 DEF PoolState
<1>7. SemOK(q)
  BY <1>1, <1>6 DEF SemOK
<1>8. Total(q) = Total(pl)
  BY <1>2, <1>4, <1>6 DEF Total
<1> QED
  BY <1>5, <1>6, <1>7, <1>8 DEF q

(* A release adds one permit to the total. *)
LEMMA SemReleaseProps ==
  ASSUME NEW pl \in PoolState, SemOK(pl)
  PROVE  LET q == SemRelease(pl) IN
         /\ q \in PoolState /\ SemOK(q) /\ Total(q) = Total(pl) + 1
         /\ q.sq = pl.sq /\ q.raw = pl.raw /\ q.lanes = pl.lanes
         /\ q.abandoned = pl.abandoned /\ q.tasks = pl.tasks
<1> DEFINE p == [pl EXCEPT !.free = @ + 1]
<1>1. p \in PoolState /\ SemOK(p) /\ 1 <= p.free
  BY DEF PoolState, SemOK
<1>2. Total(p) = Total(pl) + 1
  BY ReqSetsFinite DEF PoolState, Total
<1>3. /\ p.sq = pl.sq /\ p.raw = pl.raw /\ p.lanes = pl.lanes
      /\ p.abandoned = pl.abandoned /\ p.tasks = pl.tasks
  BY DEF PoolState
<1>4. SemRelease(pl) = SemWake(p, 1)
  BY DEF SemRelease
<1> HIDE DEF p
<1>5. LET q == SemWake(p, 1) IN
      /\ q \in PoolState /\ SemOK(q) /\ Total(q) = Total(p)
      /\ q.sq = p.sq /\ q.raw = p.raw /\ q.lanes = p.lanes
      /\ q.abandoned = p.abandoned /\ q.tasks = p.tasks
  BY <1>1, SemWakeProps
<1> QED
  BY <1>2, <1>3, <1>4, <1>5

(* Handing a raw permit back changes no total.                             *)
LEMMA GiveBackProps ==
  ASSUME NEW pl \in PoolState, SemOK(pl), NEW r \in Req
  PROVE  LET q == GiveBackPermit(pl, r) IN
         /\ q \in PoolState /\ SemOK(q) /\ Total(q) = Total(pl)
         /\ q.sq = pl.sq /\ q.raw = pl.raw \ {r} /\ q.lanes = pl.lanes
         /\ q.abandoned = pl.abandoned /\ q.tasks = pl.tasks
<1> DEFINE p == [pl EXCEPT !.raw = @ \ {r}]
<1>1. CASE r \in pl.raw
  <2>1. p \in PoolState /\ SemOK(p)
    BY DEF PoolState, SemOK
  <2>2. Total(p) + 1 = Total(pl)
    <3>1. Cardinality(pl.raw \ {r}) = Cardinality(pl.raw) - 1 /\ Cardinality(pl.raw) \in Nat
      BY <1>1, ReqSetsFinite, FS_RemoveElement DEF PoolState
    <3> QED
      BY <3>1, ReqSetsFinite DEF Total, PoolState
  <2>3. /\ p.sq = pl.sq /\ p.raw = pl.raw \ {r} /\ p.lanes = pl.lanes
        /\ p.abandoned = pl.abandoned /\ p.tasks = pl.tasks
    BY DEF PoolState
  <2>4. GiveBackPermit(pl, r) = SemRelease(p)
    BY <1>1 DEF GiveBackPermit
  <2>5. Total(p) \in Int /\ Total(pl) \in Int
    BY <2>1, TotalInt
  <2> HIDE DEF p
  <2>6. LET q == SemRelease(p) IN
        /\ q \in PoolState /\ SemOK(q) /\ Total(q) = Total(p) + 1
        /\ q.sq = p.sq /\ q.raw = p.raw /\ q.lanes = p.lanes
        /\ q.abandoned = p.abandoned /\ q.tasks = p.tasks
    BY <2>1, SemReleaseProps
  <2> QED
    BY <2>2, <2>3, <2>4, <2>5, <2>6
<1>2. CASE r \notin pl.raw
  BY <1>2 DEF GiveBackPermit
<1> QED
  BY <1>1, <1>2

-----------------------------------------------------------------------------
LockOK(sl) ==
  /\ NoDup(sl.lq) /\ sl.lgrant \subseteq Elems(sl.lq)
  /\ sl.lgrant # {} => ~sl.held /\ sl.lgrant = {Head(sl.lq)}

(* Everything of a slot but its lock's state and woken waiters.            *)
SameSlot(t, sl) ==
  /\ t.lq = sl.lq /\ t.owner = sl.owner /\ t.permit = sl.permit
  /\ t.queued = sl.queued /\ t.leases = sl.leases

(* Waking the first waiter of a free lane lock changes no ownership. *)
LEMMA WakeFirstProps ==
  ASSUME NEW sl \in SlotState, LockOK(sl), ~sl.held
  PROVE  LET t == WakeFirst(sl) IN
         t \in SlotState /\ LockOK(t) /\ ~t.held /\ SameSlot(t, sl)
<1>1. CASE sl.lq # <<>> /\ Head(sl.lq) \notin sl.lgrant \cup Killed
  <2> DEFINE t == [sl EXCEPT !.lgrant = sl.lgrant \cup {Head(sl.lq)}]
  <2>1. WakeFirst(sl) = t
    BY <1>1 DEF WakeFirst
  <2>2. sl.lgrant = {} /\ sl.lq \in Seq(Req) /\ Head(sl.lq) \in Elems(sl.lq)
        /\ Head(sl.lq) \in Req
    BY <1>1 DEF LockOK, SlotState, Elems
  <2>3. t \in SlotState /\ t.lgrant = {Head(sl.lq)} /\ t.held = sl.held /\ SameSlot(t, sl)
    BY <2>2 DEF SlotState, SameSlot
  <2> HIDE DEF t
  <2>4. LockOK(t)
    BY <2>2, <2>3 DEF LockOK, SameSlot
  <2> QED
    BY <2>1, <2>3, <2>4
<1>2. CASE ~(sl.lq # <<>> /\ Head(sl.lq) \notin sl.lgrant \cup Killed)
  BY <1>2 DEF WakeFirst, SameSlot
<1> QED
  BY <1>1, <1>2

(* Releasing a lane lock frees it and changes no ownership. *)
LEMMA LockReleaseProps ==
  ASSUME NEW sl \in SlotState, LockOK(sl)
  PROVE  LET t == LockRelease(sl) IN
         t \in SlotState /\ LockOK(t) /\ ~t.held /\ SameSlot(t, sl)
<1> DEFINE u == [sl EXCEPT !.held = FALSE]
<1>1. u \in SlotState /\ LockOK(u) /\ ~u.held /\ SameSlot(u, sl)
  BY DEF SlotState, LockOK, SameSlot
<1>2. LockRelease(sl) = WakeFirst(u)
  BY DEF LockRelease
<1> HIDE DEF u
<1>3. LET t == WakeFirst(u) IN
      t \in SlotState /\ LockOK(t) /\ ~t.held /\ SameSlot(t, u)
  BY <1>1, WakeFirstProps
<1> QED
  BY <1>1, <1>2, <1>3 DEF SameSlot

-----------------------------------------------------------------------------
(* The state of slot s and of the pool agrees with the tasks T of the      *)
(* requests, whose slots are A.                                            *)
TaskView == [sl : SlotState, pl : PoolState, tk : Tasks]
InFlight == {"lock", "sem", "probe", "nap"}
Deciding == {"sem", "probe", "nap"}

GoodSlot(sl, ab, T, A, s) ==
  /\ sl \in SlotState /\ LockOK(sl)
  /\ \A o \in Req : o \in Elems(sl.lq) <=> T[o] = "lock" /\ A[o] = s
  /\ sl.held <=> sl.owner # None
  /\ sl.permit => sl.owner # None
  /\ \A o \in Req : sl.owner = o =>
       A[o] = s /\ T[o] \in Deciding \cup {"done"} /\ (sl.permit <=> T[o] = "done")
  /\ \A o \in Req : A[o] = s /\ T[o] \in Deciding /\ o \notin ab => sl.owner = o

GoodPool(pl, T) ==
  /\ pl \in PoolState /\ SemOK(pl)
  /\ \A o \in Req : o \in Elems(pl.sq) <=> T[o] = "sem"
  /\ \A o \in Req : o \in pl.raw <=> T[o] = "probe"
  /\ \A o \in Req : o \in pl.tasks <=> T[o] \in InFlight

Bit(b) == IF b THEN 1 ELSE 0
Sum(x) == Total(x.pl) + Bit(x.sl.permit)
Others(x) == x.pl.lanes - Bit(x.sl.permit)

Good(x, T, A, s) ==
  /\ x \in TaskView
  /\ GoodSlot(x.sl, x.pl.abandoned, T, A, s)
  /\ GoodPool(x.pl, T)
  /\ Others(x) >= 0

(* A step of request r's own tasks keeps the sums and the others' markers. *)
Same(x, z, r) ==
  /\ Sum(z) = Sum(x) /\ Others(z) = Others(x)
  /\ z.pl.abandoned \ {r} = x.pl.abandoned \ {r}

As(T, r, t) == [T EXCEPT ![r] = t]

(* A view is what it was built from. *)
LEMMA ViewFields ==
  ASSUME NEW sl \in SlotState, NEW pl \in PoolState, NEW tk \in Tasks
  PROVE  LET x == View(sl, pl, tk) IN
         x \in TaskView /\ x.sl = sl /\ x.pl = pl /\ x.tk = tk
BY DEF View, TaskView

(* The fields of a view are typed. *)
LEMMA FieldTypes ==
  ASSUME NEW x \in TaskView
  PROVE  /\ x.sl \in SlotState /\ x.pl \in PoolState /\ x.tk \in Tasks
         /\ x = View(x.sl, x.pl, x.tk)
BY DEF TaskView, View

(* The fields of a pool state are typed. *)
LEMMA PoolFields ==
  ASSUME NEW pl \in PoolState
  PROVE  /\ pl.free \in Nat /\ pl.sq \in Seq(Req) /\ pl.lanes \in Nat
         /\ pl.sgrant \in SUBSET Req /\ pl.raw \in SUBSET Req
         /\ pl.abandoned \in SUBSET Req /\ pl.tasks \in SUBSET Req
         /\ Cardinality(pl.sgrant) \in Nat /\ Cardinality(pl.raw) \in Nat
         /\ Total(pl) \in Int
BY ReqSetsFinite, TotalInt DEF PoolState

(* The end of an acquire task, and the fields it leaves alone.             *)
LEMMA EndTaskFields ==
  ASSUME NEW x \in TaskView, NEW r \in Req
  PROVE  LET z == EndTask(x, r) IN
         /\ z \in TaskView /\ z.sl = x.sl /\ z.tk = "done" /\ z.pl \in PoolState
         /\ z.pl.free = x.pl.free /\ z.pl.sq = x.pl.sq /\ z.pl.sgrant = x.pl.sgrant
         /\ z.pl.raw = x.pl.raw /\ z.pl.lanes = x.pl.lanes
         /\ z.pl.tasks = x.pl.tasks \ {r} /\ z.pl.abandoned = x.pl.abandoned \ {r}
<1> DEFINE p == [x.pl EXCEPT !.tasks = @ \ {r}, !.abandoned = @ \ {r}]
<1>1. x.sl \in SlotState /\ x.pl \in PoolState
  BY FieldTypes
<1>2. /\ p \in PoolState
      /\ p.free = x.pl.free /\ p.sq = x.pl.sq /\ p.sgrant = x.pl.sgrant
      /\ p.raw = x.pl.raw /\ p.lanes = x.pl.lanes
      /\ p.tasks = x.pl.tasks \ {r} /\ p.abandoned = x.pl.abandoned \ {r}
  BY <1>1 DEF PoolState
<1>3. EndTask(x, r) = View(x.sl, p, "done")
  BY DEF EndTask
<1> HIDE DEF p
<1> QED
  BY <1>1, <1>2, <1>3, ViewFields DEF Tasks

(* Ending the task of a request that holds nothing.                        *)
LEMMA EndTaskGood ==
  ASSUME NEW x \in TaskView, NEW r \in Req, NEW s \in Slot,
         NEW T \in [Req -> Tasks], NEW A \in [Req -> Slot], A[r] = s,
         LockOK(x.sl), SemOK(x.pl),
         \A o \in Req : o \in Elems(x.sl.lq) <=> As(T, r, "done")[o] = "lock" /\ A[o] = s,
         x.sl.held <=> x.sl.owner # None, x.sl.permit => x.sl.owner # None, x.sl.owner # r,
         \A o \in Req : x.sl.owner = o =>
           A[o] = s /\ T[o] \in Deciding \cup {"done"} /\ (x.sl.permit <=> T[o] = "done"),
         \A o \in Req \ {r} : A[o] = s /\ T[o] \in Deciding /\ o \notin x.pl.abandoned
           => x.sl.owner = o,
         \A o \in Req : o \in Elems(x.pl.sq) <=> As(T, r, "done")[o] = "sem",
         \A o \in Req : o \in x.pl.raw <=> As(T, r, "done")[o] = "probe",
         \A o \in Req \ {r} : o \in x.pl.tasks <=> T[o] \in InFlight,
         Others(x) >= 0
  PROVE  LET z == EndTask(x, r) IN
         z \in TaskView /\ z.tk = "done" /\ Good(z, As(T, r, z.tk), A, s) /\ Same(x, z, r)
<1> DEFINE z == EndTask(x, r)
<1>1. /\ z \in TaskView /\ z.sl = x.sl /\ z.tk = "done" /\ z.pl \in PoolState
      /\ z.pl.free = x.pl.free /\ z.pl.sq = x.pl.sq /\ z.pl.sgrant = x.pl.sgrant
      /\ z.pl.raw = x.pl.raw /\ z.pl.lanes = x.pl.lanes
      /\ z.pl.tasks = x.pl.tasks \ {r} /\ z.pl.abandoned = x.pl.abandoned \ {r}
  BY EndTaskFields
<1> HIDE DEF z
<1>2. GoodPool(z.pl, As(T, r, "done"))
  BY <1>1 DEF GoodPool, SemOK, As, InFlight
<1>3. GoodSlot(z.sl, z.pl.abandoned, As(T, r, "done"), A, s)
  BY <1>1, FieldTypes DEF GoodSlot, As, Deciding
<1>4. Same(x, z, r)
  BY <1>1 DEF Same, Sum, Others, Total
<1> QED
  BY <1>1, <1>2, <1>3, <1>4 DEF Good, Same, z

(* What a view must satisfy for the task of r, waiting or deciding, to end in it. *)
Leaving(x, T, A, s, r) ==
  /\ LockOK(x.sl) /\ SemOK(x.pl) /\ Others(x) >= 0
  /\ \A o \in Req : o \in Elems(x.sl.lq) <=> As(T, r, "done")[o] = "lock" /\ A[o] = s
  /\ x.sl.held <=> x.sl.owner # None
  /\ x.sl.permit => x.sl.owner # None
  /\ x.sl.owner # r
  /\ \A o \in Req : x.sl.owner = o =>
        A[o] = s /\ T[o] \in Deciding \cup {"done"} /\ (x.sl.permit <=> T[o] = "done")
  /\ \A o \in Req \ {r} : A[o] = s /\ T[o] \in Deciding /\ o \notin x.pl.abandoned
        => x.sl.owner = o
  /\ \A o \in Req : o \in Elems(x.pl.sq) <=> As(T, r, "done")[o] = "sem"
  /\ \A o \in Req : o \in x.pl.raw <=> As(T, r, "done")[o] = "probe"
  /\ \A o \in Req \ {r} : o \in x.pl.tasks <=> T[o] \in InFlight

(* A task that may leave (cancelled, abandoned or refused) leaves a good view. *)
LEMMA LeavingGood ==
  ASSUME NEW x \in TaskView, NEW r \in Req, NEW s \in Slot,
         NEW T \in [Req -> Tasks], NEW A \in [Req -> Slot], A[r] = s,
         Leaving(x, T, A, s, r)
  PROVE  /\ EndTask(x, r) \in TaskView /\ EndTask(x, r).tk = "done"
         /\ Good(EndTask(x, r), As(T, r, "done"), A, s) /\ Same(x, EndTask(x, r), r)
<1> USE DEF Leaving
<1>1. LET z == EndTask(x, r) IN
      z \in TaskView /\ z.tk = "done" /\ Good(z, As(T, r, z.tk), A, s) /\ Same(x, z, r)
  BY EndTaskGood
<1> QED
  BY <1>1

(* Committing a lane moves the permit in hand into the lane. *)
LEMMA CommitGood ==
  ASSUME NEW x \in TaskView, NEW r \in Req, NEW s \in Slot,
         NEW T \in [Req -> Tasks], NEW A \in [Req -> Slot], A[r] = s,
         Good(x, As(T, r, "probe"), A, s), r \notin x.pl.abandoned
  PROVE  LET z == Commit(x, r) IN
         z \in TaskView /\ z.tk = "done" /\ Good(z, As(T, r, z.tk), A, s) /\ Same(x, z, r)
<1> DEFINE sl == [x.sl EXCEPT !.permit = TRUE]
           pl == [x.pl EXCEPT !.lanes = @ + 1, !.raw = @ \ {r}]
           y == View(sl, pl, x.tk)
           z == EndTask(y, r)
<1>1. x.sl \in SlotState /\ x.pl \in PoolState /\ x.tk \in Tasks
  BY FieldTypes
<1>2. /\ sl \in SlotState /\ sl.permit = TRUE
      /\ sl.lq = x.sl.lq /\ sl.lgrant = x.sl.lgrant
      /\ sl.held = x.sl.held /\ sl.owner = x.sl.owner
  BY <1>1 DEF SlotState
<1>3. /\ pl \in PoolState
      /\ pl.free = x.pl.free /\ pl.sq = x.pl.sq /\ pl.sgrant = x.pl.sgrant
      /\ pl.raw = x.pl.raw \ {r} /\ pl.lanes = x.pl.lanes + 1
      /\ pl.tasks = x.pl.tasks /\ pl.abandoned = x.pl.abandoned
  <2>1. x.pl.lanes + 1 \in Nat /\ x.pl.raw \ {r} \in SUBSET Req
    BY <1>1, PoolFields
  <2> QED
    BY <1>1, <2>1 DEF PoolState
<1> HIDE DEF sl, pl
<1>10. y \in TaskView /\ y.sl = sl /\ y.pl = pl
  BY <1>1, <1>2, <1>3, ViewFields
<1> HIDE DEF y
<1>4. /\ z \in TaskView /\ z.sl = sl /\ z.tk = "done" /\ z.pl \in PoolState
      /\ z.pl.free = pl.free /\ z.pl.sq = pl.sq /\ z.pl.sgrant = pl.sgrant
      /\ z.pl.raw = pl.raw /\ z.pl.lanes = pl.lanes
      /\ z.pl.tasks = pl.tasks \ {r} /\ z.pl.abandoned = pl.abandoned \ {r}
  BY <1>10, EndTaskFields
<1>5. Commit(x, r) = z
  BY DEF Commit, y, sl, pl
<1> HIDE DEF z
<1>6. x.sl.owner = r /\ x.sl.permit = FALSE /\ r \in x.pl.raw /\ r # None
  BY <1>1, NoneAssumption DEF Good, GoodSlot, GoodPool, As, Deciding, SlotState
<1>7. GoodPool(z.pl, As(T, r, "done"))
  BY <1>3, <1>4 DEF Good, GoodPool, As, SemOK, InFlight
<1>8. GoodSlot(z.sl, z.pl.abandoned, As(T, r, "done"), A, s)
  <2>1. z.sl \in SlotState /\ LockOK(z.sl)
    BY <1>2, <1>4 DEF Good, GoodSlot, LockOK
  <2> QED
    BY <1>2, <1>3, <1>4, <1>6, <2>1 DEF Good, GoodSlot, As, Deciding
<1>9. Sum(z) = Sum(x) /\ Others(z) = Others(x)
  <2>1. Cardinality(x.pl.raw \ {r}) = Cardinality(x.pl.raw) - 1
    BY <1>1, <1>6, PoolFields, ReqSetsFinite, FS_RemoveElement
  <2>2. /\ x.pl.free \in Nat /\ x.pl.lanes \in Nat
        /\ Cardinality(x.pl.raw) \in Nat /\ Cardinality(x.pl.sgrant) \in Nat
    BY <1>1, PoolFields
  <2>3. Total(z.pl) = Total(x.pl) - 1
    BY <1>3, <1>4, <2>1, <2>2 DEF Total
  <2>4. Total(x.pl) \in Int /\ Bit(z.sl.permit) = 1 /\ Bit(x.sl.permit) = 0
    BY <1>1, <1>2, <1>4, <1>6, PoolFields DEF Bit
  <2> QED
    BY <1>3, <1>4, <2>2, <2>3, <2>4 DEF Sum, Others
<1> QED
  BY <1>3, <1>4, <1>5, <1>7, <1>8, <1>9 DEF Good, Same

(* Giving the lane up, when the request owns it.                           *)
LEMMA DropLaneFields ==
  ASSUME NEW sl \in SlotState, LockOK(sl), NEW r \in Req,
         sl.held <=> sl.owner # None, sl.owner = r => ~sl.permit
  PROVE  LET t == DropLane(sl, r) IN
         /\ t \in SlotState /\ LockOK(t) /\ t.lq = sl.lq /\ t.permit = sl.permit
         /\ t.owner = (IF sl.owner = r THEN None ELSE sl.owner)
         /\ t.held <=> t.owner # None
<1> DEFINE u == [sl EXCEPT !.owner = None]
<1>1. u \in SlotState /\ LockOK(u) /\ u.lq = sl.lq /\ u.permit = sl.permit /\ u.owner = None
  BY DEF SlotState, LockOK
<1> HIDE DEF u
<1>2. LET t == LockRelease(u) IN
      t \in SlotState /\ LockOK(t) /\ ~t.held /\ SameSlot(t, u)
  BY <1>1, LockReleaseProps
<1>3. DropLane(sl, r) = IF sl.owner = r THEN LockRelease(u) ELSE sl
  BY DEF DropLane, u
<1> QED
  BY <1>1, <1>2, <1>3 DEF SameSlot

(* Aborting an acquisition returns its permit and its lane. *)
LEMMA AbortGood ==
  ASSUME NEW x \in TaskView, NEW r \in Req, NEW s \in Slot, NEW t \in {"probe", "nap"},
         NEW T \in [Req -> Tasks], NEW A \in [Req -> Slot], A[r] = s,
         Good(x, As(T, r, t), A, s)
  PROVE  LET z == Abort(x, r) IN
         z \in TaskView /\ z.tk = "done" /\ Good(z, As(T, r, z.tk), A, s) /\ Same(x, z, r)
<1> DEFINE sl == DropLane(x.sl, r)
           pl == GiveBackPermit(x.pl, r)
           y == View(sl, pl, x.tk)
<1>1. x.sl \in SlotState /\ x.pl \in PoolState /\ x.tk \in Tasks
      /\ GoodSlot(x.sl, x.pl.abandoned, As(T, r, t), A, s) /\ GoodPool(x.pl, As(T, r, t))
  BY FieldTypes DEF Good
<1>2. r # None /\ (x.sl.owner = r => ~x.sl.permit)
  BY <1>1, NoneAssumption DEF GoodSlot, As
<1>3. /\ sl \in SlotState /\ LockOK(sl) /\ sl.lq = x.sl.lq /\ sl.permit = x.sl.permit
      /\ sl.owner = (IF x.sl.owner = r THEN None ELSE x.sl.owner)
      /\ sl.held <=> sl.owner # None
  BY <1>1, <1>2, DropLaneFields DEF GoodSlot
<1>4. /\ pl \in PoolState /\ SemOK(pl) /\ Total(pl) = Total(x.pl)
      /\ pl.sq = x.pl.sq /\ pl.raw = x.pl.raw \ {r} /\ pl.lanes = x.pl.lanes
      /\ pl.abandoned = x.pl.abandoned /\ pl.tasks = x.pl.tasks
  BY <1>1, GiveBackProps DEF GoodPool
<1> HIDE DEF sl, pl
<1>5. y \in TaskView /\ y.sl = sl /\ y.pl = pl
  BY <1>1, <1>3, <1>4, ViewFields
<1> HIDE DEF y
<1>6. LET z == EndTask(y, r) IN
      z \in TaskView /\ z.tk = "done" /\ Good(z, As(T, r, z.tk), A, s) /\ Same(y, z, r)
  <2>1. \A o \in Req : o \in Elems(y.sl.lq) <=> As(T, r, "done")[o] = "lock" /\ A[o] = s
    BY <1>1, <1>3, <1>5 DEF GoodSlot, As
  <2>2. /\ y.sl.held <=> y.sl.owner # None
        /\ y.sl.permit => y.sl.owner # None
        /\ y.sl.owner # r
    BY <1>1, <1>2, <1>3, <1>5 DEF GoodSlot
  <2>3. \A o \in Req : y.sl.owner = o =>
           A[o] = s /\ T[o] \in Deciding \cup {"done"} /\ (y.sl.permit <=> T[o] = "done")
    BY <1>1, <1>2, <1>3, <1>5, NoneAssumption DEF GoodSlot, As
  <2>4. \A o \in Req \ {r} : A[o] = s /\ T[o] \in Deciding /\ o \notin y.pl.abandoned
           => y.sl.owner = o
    BY <1>1, <1>3, <1>4, <1>5 DEF GoodSlot, As
  <2>5. /\ \A o \in Req : o \in Elems(y.pl.sq) <=> As(T, r, "done")[o] = "sem"
        /\ \A o \in Req : o \in y.pl.raw <=> As(T, r, "done")[o] = "probe"
        /\ \A o \in Req \ {r} : o \in y.pl.tasks <=> T[o] \in InFlight
    BY <1>1, <1>4, <1>5 DEF GoodPool, As
  <2>6. Others(y) >= 0
    BY <1>3, <1>4, <1>5 DEF Good, Others
  <2> QED
    BY <1>3, <1>4, <1>5, <2>1, <2>2, <2>3, <2>4, <2>5, <2>6, EndTaskGood
<1>7. Same(x, y, r)
  BY <1>3, <1>4, <1>5 DEF Same, Sum, Others
<1>8. Abort(x, r) = EndTask(y, r)
  BY DEF Abort, y, sl, pl
<1> QED
  BY <1>6, <1>7, <1>8 DEF Same

(* The head-room refuses: the permit goes back and the task naps.          *)
LEMMA ProbeRefused ==
  ASSUME NEW x \in TaskView, NEW r \in Req, NEW s \in Slot,
         NEW T \in [Req -> Tasks], NEW A \in [Req -> Slot], A[r] = s,
         Good(x, As(T, r, "probe"), A, s), NEW z,
         z = View(x.sl, GiveBackPermit(x.pl, r), "nap")
  PROVE  z \in TaskView /\ z.tk = "nap" /\ Good(z, As(T, r, z.tk), A, s) /\ Same(x, z, r)
<1> DEFINE pl == GiveBackPermit(x.pl, r)
<1>1. x.sl \in SlotState /\ x.pl \in PoolState /\ "nap" \in Tasks
      /\ GoodSlot(x.sl, x.pl.abandoned, As(T, r, "probe"), A, s)
      /\ GoodPool(x.pl, As(T, r, "probe"))
  BY FieldTypes DEF Good, Tasks
<1>2. /\ pl \in PoolState /\ SemOK(pl) /\ Total(pl) = Total(x.pl)
      /\ pl.sq = x.pl.sq /\ pl.raw = x.pl.raw \ {r} /\ pl.lanes = x.pl.lanes
      /\ pl.abandoned = x.pl.abandoned /\ pl.tasks = x.pl.tasks
  BY <1>1, GiveBackProps DEF GoodPool
<1> HIDE DEF pl
<1>3. z \in TaskView /\ z.sl = x.sl /\ z.pl = pl /\ z.tk = "nap"
  BY <1>1, <1>2, ViewFields DEF pl
<1>4. GoodPool(z.pl, As(T, r, "nap"))
  BY <1>1, <1>2, <1>3 DEF GoodPool, As, InFlight
<1>5. GoodSlot(z.sl, z.pl.abandoned, As(T, r, "nap"), A, s)
  BY <1>1, <1>2, <1>3 DEF GoodSlot, As, Deciding
<1>6. Same(x, z, r) /\ Others(z) >= 0
  BY <1>2, <1>3 DEF Good, Same, Sum, Others
<1> QED
  BY <1>3, <1>4, <1>5, <1>6 DEF Good

(* With a permit in hand an acquisition commits, waits or aborts: all keep the invariant. *)
LEMMA HavePermitGood ==
  ASSUME NEW x \in TaskView, NEW r \in Req, NEW s \in Slot,
         NEW T \in [Req -> Tasks], NEW A \in [Req -> Slot], A[r] = s,
         Good(x, As(T, r, "probe"), A, s), NEW z \in HavePermit(x, r)
  PROVE  /\ z \in TaskView /\ Good(z, As(T, r, z.tk), A, s) /\ Same(x, z, r)
         /\ z.tk \in {"done", "nap", "probe"}
<1>1. CASE r \in x.pl.abandoned
  <2>1. z = Abort(x, r)
    BY <1>1 DEF HavePermit
  <2> QED
    BY <2>1, AbortGood
<1>2. CASE r \notin x.pl.abandoned /\ z = Commit(x, r)
  BY <1>2, CommitGood
<1>3. CASE z = View(x.sl, GiveBackPermit(x.pl, r), "nap")
  BY <1>3, ProbeRefused
<1>4. CASE z = View(x.sl, x.pl, "probe")
  <2>1. z \in TaskView /\ z.sl = x.sl /\ z.pl = x.pl /\ z.tk = "probe"
    BY <1>4, FieldTypes, ViewFields DEF Tasks
  <2> QED
    BY <2>1 DEF Good, Same, Sum, Others
<1> QED
  BY <1>1, <1>2, <1>3, <1>4 DEF HavePermit

(* Trying the semaphore keeps the invariant. *)
LEMMA TrySemGood ==
  ASSUME NEW x \in TaskView, NEW r \in Req, NEW s \in Slot,
         NEW T \in [Req -> Tasks], NEW A \in [Req -> Slot], A[r] = s,
         Good(x, As(T, r, "nap"), A, s), NEW z \in TrySem(x, r)
  PROVE  /\ z \in TaskView /\ Good(z, As(T, r, z.tk), A, s) /\ Same(x, z, r)
         /\ z.tk \in {"done", "nap", "probe", "sem"}
<1>1. x.sl \in SlotState /\ x.pl \in PoolState /\ x.tk \in Tasks
      /\ GoodSlot(x.sl, x.pl.abandoned, As(T, r, "nap"), A, s)
      /\ GoodPool(x.pl, As(T, r, "nap"))
  BY FieldTypes DEF Good
<1>2. r \notin Elems(x.pl.sq) /\ r \notin x.pl.raw /\ r \in x.pl.tasks
  BY <1>1 DEF GoodPool, As, InFlight
<1>3. CASE SemLocked(x.pl)
  <2> DEFINE pl == [x.pl EXCEPT !.sq = Append(@, r)]
  <2>1. /\ Append(x.pl.sq, r) \in Seq(Req) /\ NoDup(Append(x.pl.sq, r))
        /\ Elems(Append(x.pl.sq, r)) = Elems(x.pl.sq) \cup {r}
    BY <1>1, <1>2, PoolFields, AppendProps DEF GoodPool, SemOK
  <2>2. /\ pl \in PoolState /\ pl.sq = Append(x.pl.sq, r)
        /\ pl.free = x.pl.free /\ pl.sgrant = x.pl.sgrant
        /\ pl.raw = x.pl.raw /\ pl.lanes = x.pl.lanes
        /\ pl.abandoned = x.pl.abandoned /\ pl.tasks = x.pl.tasks
    BY <1>1, <2>1 DEF PoolState
  <2>3. z = View(x.sl, pl, "sem")
    BY <1>3 DEF TrySem
  <2> HIDE DEF pl
  <2>4. z \in TaskView /\ z.sl = x.sl /\ z.pl = pl /\ z.tk = "sem"
    BY <1>1, <2>2, <2>3, ViewFields DEF Tasks
  <2>5. GoodPool(z.pl, As(T, r, "sem"))
    BY <1>1, <2>1, <2>2, <2>4 DEF GoodPool, SemOK, As, InFlight
  <2>6. GoodSlot(z.sl, z.pl.abandoned, As(T, r, "sem"), A, s)
    BY <1>1, <2>2, <2>4 DEF GoodSlot, As, Deciding
  <2>7. Same(x, z, r) /\ Others(z) >= 0
    BY <2>2, <2>4 DEF Good, Same, Sum, Others, Total
  <2> QED
    BY <2>4, <2>5, <2>6, <2>7 DEF Good
<1>4. CASE ~SemLocked(x.pl)
  <2> DEFINE pl == [x.pl EXCEPT !.free = @ - 1, !.raw = @ \cup {r}]
             y == View(x.sl, pl, x.tk)
  <2>1. x.pl.free - 1 \in Nat /\ x.pl.raw \cup {r} \in SUBSET Req /\ x.pl.free \in Nat
    BY <1>1, <1>4, PoolFields DEF SemLocked
  <2>2. /\ pl \in PoolState /\ pl.sq = x.pl.sq
        /\ pl.free = x.pl.free - 1 /\ pl.sgrant = x.pl.sgrant
        /\ pl.raw = x.pl.raw \cup {r} /\ pl.lanes = x.pl.lanes
        /\ pl.abandoned = x.pl.abandoned /\ pl.tasks = x.pl.tasks
    BY <1>1, <2>1 DEF PoolState
  <2>3. z \in HavePermit(y, r)
    BY <1>4 DEF TrySem
  <2> HIDE DEF pl
  <2>4. y \in TaskView /\ y.sl = x.sl /\ y.pl = pl
    BY <1>1, <2>2, ViewFields
  <2> HIDE DEF y
  <2>5. GoodPool(y.pl, As(T, r, "probe"))
    BY <1>1, <2>2, <2>4 DEF GoodPool, SemOK, As, InFlight
  <2>6. GoodSlot(y.sl, y.pl.abandoned, As(T, r, "probe"), A, s)
    BY <1>1, <2>2, <2>4 DEF GoodSlot, As, Deciding
  <2>7. Total(y.pl) = Total(x.pl)
    <3>1. Cardinality(x.pl.raw \cup {r}) = Cardinality(x.pl.raw) + 1
      BY <1>1, <1>2, PoolFields, ReqSetsFinite, FS_AddElement
    <3>2. Cardinality(x.pl.raw) \in Nat /\ Cardinality(x.pl.sgrant) \in Nat
      BY <1>1, PoolFields
    <3>3. Total(y.pl) = x.pl.free - 1 + Cardinality(x.pl.sgrant) + (Cardinality(x.pl.raw) + 1)
      BY <2>2, <2>4, <3>1 DEF Total
    <3>4. Total(x.pl) = x.pl.free + Cardinality(x.pl.sgrant) + Cardinality(x.pl.raw)
      BY DEF Total
    <3> QED
      BY <2>1, <3>2, <3>3, <3>4
  <2>8. Same(x, y, r) /\ Others(y) >= 0
    BY <2>2, <2>4, <2>7 DEF Good, Same, Sum, Others
  <2>9. Good(y, As(T, r, "probe"), A, s)
    BY <2>4, <2>5, <2>6, <2>8 DEF Good
  <2>10. /\ z \in TaskView /\ Good(z, As(T, r, z.tk), A, s) /\ Same(y, z, r)
         /\ z.tk \in {"done", "nap", "probe"}
    BY <2>3, <2>4, <2>9, HavePermitGood
  <2> QED
    BY <2>8, <2>10 DEF Same
<1> QED
  BY <1>3, <1>4

(* The lock was free for the request to take.                              *)
LEMMA TakeLockGood ==
  ASSUME NEW x \in TaskView, NEW r \in Req, NEW s \in Slot,
         NEW T \in [Req -> Tasks], NEW A \in [Req -> Slot], A[r] = s,
         GoodSlot(x.sl, x.pl.abandoned, As(T, r, "none"), A, s),
         GoodPool(x.pl, As(T, r, "nap")), Others(x) >= 0,
         ~x.sl.held, x.sl.lgrant = {}, NEW z \in TakeLock(x, r)
  PROVE  /\ z \in TaskView /\ Good(z, As(T, r, z.tk), A, s) /\ Same(x, z, r)
         /\ z.tk \in {"done", "nap", "probe", "sem"}
<1>1. x.sl \in SlotState /\ x.pl \in PoolState /\ x.tk \in Tasks
  BY FieldTypes
<1>2. r # None /\ x.sl.owner = None /\ ~x.sl.permit
  BY NoneAssumption DEF GoodSlot
<1>3. CASE r \in x.pl.abandoned
  <2> DEFINE sl == LockRelease(x.sl)
             y == View(sl, x.pl, x.tk)
  <2>1. sl \in SlotState /\ LockOK(sl) /\ ~sl.held /\ SameSlot(sl, x.sl)
    BY <1>1, LockReleaseProps DEF GoodSlot
  <2>2. z = EndTask(y, r)
    BY <1>3 DEF TakeLock
  <2> HIDE DEF sl
  <2>3. y \in TaskView /\ y.sl = sl /\ y.pl = x.pl
    BY <1>1, <2>1, ViewFields
  <2> HIDE DEF y
  <2>4. z \in TaskView /\ z.tk = "done" /\ Good(z, As(T, r, z.tk), A, s) /\ Same(y, z, r)
    <3>1. \A o \in Req : o \in Elems(y.sl.lq) <=> As(T, r, "done")[o] = "lock" /\ A[o] = s
      BY <2>1, <2>3 DEF GoodSlot, As, SameSlot
    <3>2. /\ y.sl.held <=> y.sl.owner # None
          /\ y.sl.permit => y.sl.owner # None
          /\ y.sl.owner # r
      BY <1>2, <2>1, <2>3 DEF SameSlot
    <3>3. \A o \in Req : y.sl.owner = o =>
             A[o] = s /\ T[o] \in Deciding \cup {"done"} /\ (y.sl.permit <=> T[o] = "done")
      BY <1>2, <2>1, <2>3, NoneAssumption DEF SameSlot
    <3>4. \A o \in Req \ {r} : A[o] = s /\ T[o] \in Deciding /\ o \notin y.pl.abandoned
             => y.sl.owner = o
      BY <1>2, <2>1, <2>3 DEF GoodSlot, As, SameSlot
    <3>5. /\ \A o \in Req : o \in Elems(y.pl.sq) <=> As(T, r, "done")[o] = "sem"
          /\ \A o \in Req : o \in y.pl.raw <=> As(T, r, "done")[o] = "probe"
          /\ \A o \in Req \ {r} : o \in y.pl.tasks <=> T[o] \in InFlight
          /\ SemOK(y.pl)
      BY <2>3 DEF GoodPool, As
    <3>6. Others(y) >= 0
      BY <2>1, <2>3 DEF Others, SameSlot
    <3> QED
      BY <2>1, <2>2, <2>3, <3>1, <3>2, <3>3, <3>4, <3>5, <3>6, EndTaskGood
  <2>5. Same(x, y, r)
    BY <2>1, <2>3 DEF Same, Sum, Others, SameSlot
  <2> QED
    BY <2>4, <2>5 DEF Same
<1>4. CASE r \notin x.pl.abandoned
  <2> DEFINE sl == [x.sl EXCEPT !.held = TRUE, !.owner = r]
             y == View(sl, x.pl, x.tk)
  <2>1. /\ sl \in SlotState /\ sl.held = TRUE /\ sl.owner = r /\ sl.lgrant = {}
        /\ sl.lq = x.sl.lq /\ sl.permit = x.sl.permit
    BY <1>1 DEF SlotState
  <2>2. z \in TrySem(y, r)
    BY <1>4 DEF TakeLock
  <2> HIDE DEF sl
  <2>3. y \in TaskView /\ y.sl = sl /\ y.pl = x.pl
    BY <1>1, <2>1, ViewFields
  <2> HIDE DEF y
  <2>4. GoodSlot(y.sl, y.pl.abandoned, As(T, r, "nap"), A, s)
    <3>1. LockOK(y.sl)
      BY <2>1, <2>3 DEF GoodSlot, LockOK
    <3> QED
      BY <1>2, <2>1, <2>3, <3>1, NoneAssumption DEF GoodSlot, As, Deciding
  <2>5. Good(y, As(T, r, "nap"), A, s)
    BY <2>1, <2>3, <2>4 DEF Good, Others
  <2>6. Same(x, y, r)
    BY <2>1, <2>3 DEF Same, Sum, Others
  <2>7. /\ z \in TaskView /\ Good(z, As(T, r, z.tk), A, s) /\ Same(y, z, r)
        /\ z.tk \in {"done", "nap", "probe", "sem"}
    BY <2>2, <2>3, <2>5, TrySemGood
  <2> QED
    BY <2>6, <2>7 DEF Same
<1> QED
  BY <1>3, <1>4

(* The first steps of an acquisition keep the invariant. *)
LEMMA StartAcquireGood ==
  ASSUME NEW x \in TaskView, NEW r \in Req, NEW s \in Slot, NEW t \in {"none", "spawned"},
         NEW T \in [Req -> Tasks], NEW A \in [Req -> Slot], A[r] = s,
         Good(x, As(T, r, t), A, s), NEW z \in StartAcquire(x, r)
  PROVE  /\ z \in TaskView /\ Good(z, As(T, r, z.tk), A, s) /\ Same(x, z, r)
         /\ z.tk \in InFlight \cup {"done"}
<1>1. x.sl \in SlotState /\ x.pl \in PoolState /\ x.tk \in Tasks
      /\ GoodSlot(x.sl, x.pl.abandoned, As(T, r, t), A, s) /\ GoodPool(x.pl, As(T, r, t))
  BY FieldTypes DEF Good
<1> DEFINE pl == [x.pl EXCEPT !.tasks = @ \cup {r}]
           y == View(x.sl, pl, x.tk)
<1>2. /\ pl \in PoolState /\ pl.sq = x.pl.sq
      /\ pl.free = x.pl.free /\ pl.sgrant = x.pl.sgrant
      /\ pl.raw = x.pl.raw /\ pl.lanes = x.pl.lanes
      /\ pl.abandoned = x.pl.abandoned /\ pl.tasks = x.pl.tasks \cup {r}
  <2>1. x.pl.tasks \cup {r} \in SUBSET Req
    BY <1>1, PoolFields
  <2> QED
    BY <1>1, <2>1 DEF PoolState
<1>3. z \in (IF r \in y.pl.abandoned THEN {EndTask(y, r)}
             ELSE IF LockFree(y.sl) THEN TakeLock(y, r)
             ELSE {View([y.sl EXCEPT !.lq = Append(@, r)], y.pl, "lock")})
  BY DEF StartAcquire
<1> HIDE DEF pl
<1>4. y \in TaskView /\ y.sl = x.sl /\ y.pl = pl
  BY <1>1, <1>2, ViewFields
<1> HIDE DEF y
<1>5. Same(x, y, r) /\ Others(y) >= 0
  BY <1>2, <1>4 DEF Good, Same, Sum, Others, Total
<1>6. GoodPool(y.pl, As(T, r, "nap"))
  BY <1>1, <1>2, <1>4 DEF GoodPool, SemOK, As, InFlight
<1>7. GoodSlot(y.sl, y.pl.abandoned, As(T, r, "none"), A, s) /\ y.sl.owner # r
  BY <1>1, <1>2, <1>4 DEF GoodSlot, As, Deciding
<1>8. CASE r \in y.pl.abandoned
  <2>1. z = EndTask(y, r)
    BY <1>3, <1>8
  <2>2. LockOK(y.sl) /\ SemOK(y.pl)
    BY <1>6, <1>7 DEF GoodSlot, GoodPool
  <2>3. /\ \A o \in Req : o \in Elems(y.sl.lq) <=> As(T, r, "done")[o] = "lock" /\ A[o] = s
        /\ y.sl.held <=> y.sl.owner # None
        /\ y.sl.permit => y.sl.owner # None
        /\ \A o \in Req \ {r} : A[o] = s /\ T[o] \in Deciding /\ o \notin y.pl.abandoned
             => y.sl.owner = o
    BY <1>7 DEF GoodSlot, As
  <2>4. \A o \in Req : y.sl.owner = o =>
             A[o] = s /\ T[o] \in Deciding \cup {"done"} /\ (y.sl.permit <=> T[o] = "done")
    BY <1>7 DEF GoodSlot, As
  <2>5. /\ \A o \in Req : o \in Elems(y.pl.sq) <=> As(T, r, "done")[o] = "sem"
        /\ \A o \in Req : o \in y.pl.raw <=> As(T, r, "done")[o] = "probe"
        /\ \A o \in Req \ {r} : o \in y.pl.tasks <=> T[o] \in InFlight
    BY <1>6 DEF GoodPool, As
  <2>6. z \in TaskView /\ z.tk = "done" /\ Good(z, As(T, r, z.tk), A, s) /\ Same(y, z, r)
    BY <1>4, <1>5, <1>7, <2>1, <2>2, <2>3, <2>4, <2>5, EndTaskGood
  <2> QED
    BY <1>5, <2>6 DEF Same
<1>9. CASE r \notin y.pl.abandoned /\ LockFree(y.sl)
  <2>1. z \in TakeLock(y, r)
    BY <1>3, <1>9
  <2>2. ~y.sl.held /\ y.sl.lgrant = {}
    BY <1>7, <1>9 DEF LockFree, GoodSlot, LockOK
  <2>3. /\ z \in TaskView /\ Good(z, As(T, r, z.tk), A, s) /\ Same(y, z, r)
        /\ z.tk \in {"done", "nap", "probe", "sem"}
    BY <1>4, <1>5, <1>6, <1>7, <2>1, <2>2, TakeLockGood
  <2> QED
    BY <1>5, <2>3 DEF Same, InFlight
<1>10. CASE r \notin y.pl.abandoned /\ ~LockFree(y.sl)
  <2> DEFINE sl == [y.sl EXCEPT !.lq = Append(@, r)]
  <2>1. z = View(sl, y.pl, "lock")
    BY <1>3, <1>10
  <2>2. y.sl.lq \in Seq(Req) /\ r \notin Elems(y.sl.lq) /\ y.sl \in SlotState /\ LockOK(y.sl)
    BY <1>7 DEF GoodSlot, SlotState, As
  <2>3. /\ Append(y.sl.lq, r) \in Seq(Req) /\ NoDup(Append(y.sl.lq, r))
        /\ Elems(Append(y.sl.lq, r)) = Elems(y.sl.lq) \cup {r}
        /\ y.sl.lq # <<>> => Head(Append(y.sl.lq, r)) = Head(y.sl.lq)
    BY <2>2, AppendProps DEF LockOK
  <2>4. /\ sl \in SlotState /\ sl.lq = Append(y.sl.lq, r) /\ sl.lgrant = y.sl.lgrant
        /\ sl.held = y.sl.held /\ sl.owner = y.sl.owner /\ sl.permit = y.sl.permit
    BY <2>2, <2>3 DEF SlotState
  <2> HIDE DEF sl
  <2>5. z \in TaskView /\ z.sl = sl /\ z.pl = y.pl /\ z.tk = "lock"
    BY <1>1, <1>2, <1>4, <2>1, <2>4, ViewFields DEF Tasks
  <2>6. LockOK(sl)
    <3>1. y.sl.lgrant # {} => y.sl.lq # <<>>
      BY <2>2 DEF LockOK, Elems
    <3> QED
      BY <2>2, <2>3, <2>4, <3>1 DEF LockOK
  <2>7. GoodSlot(z.sl, z.pl.abandoned, As(T, r, "lock"), A, s)
    BY <1>7, <2>3, <2>4, <2>5, <2>6 DEF GoodSlot, As, Deciding
  <2>8. GoodPool(z.pl, As(T, r, "lock"))
    BY <1>6, <2>5 DEF GoodPool, As, InFlight
  <2>9. Same(y, z, r) /\ Others(z) >= 0
    BY <1>5, <2>4, <2>5 DEF Same, Sum, Others
  <2> QED
    BY <1>5, <2>5, <2>7, <2>8, <2>9 DEF Good, Same, InFlight
<1> QED
  BY <1>8, <1>9, <1>10

-----------------------------------------------------------------------------
(* Steps that change no task: recovery, the finalizer, queue and lease     *)
(* bookkeeping.                                                            *)
SameLane(t, sl) ==
  /\ t \in SlotState
  /\ t.lq = sl.lq /\ t.lgrant = sl.lgrant /\ t.held = sl.held
  /\ t.owner = sl.owner /\ t.permit = sl.permit
MoreMarked(p, pl) ==
  /\ p \in PoolState
  /\ p.free = pl.free /\ p.sq = pl.sq /\ p.sgrant = pl.sgrant /\ p.raw = pl.raw
  /\ p.lanes = pl.lanes /\ p.tasks = pl.tasks /\ pl.abandoned \subseteq p.abandoned
Keeps(x, z) ==
  /\ Sum(z) = Sum(x) /\ Others(z) = Others(x)
  /\ x.pl.abandoned \subseteq z.pl.abandoned

(* Changes to leases, queues and marks do not disturb the lane invariant. *)
LEMMA QuietGood ==
  ASSUME NEW x \in TaskView, NEW T \in [Req -> Tasks], NEW A \in [Req -> Slot],
         NEW s \in Slot, Good(x, T, A, s), NEW sl, SameLane(sl, x.sl),
         NEW pl, MoreMarked(pl, x.pl), NEW tk \in Tasks
  PROVE  LET y == View(sl, pl, tk) IN
         /\ y \in TaskView /\ y.sl = sl /\ y.pl = pl /\ y.tk = tk
         /\ Good(y, T, A, s) /\ Keeps(x, y)
<1> DEFINE y == View(sl, pl, tk)
<1>1. y \in TaskView /\ y.sl = sl /\ y.pl = pl /\ y.tk = tk
  BY ViewFields DEF SameLane, MoreMarked
<1> HIDE DEF y
<1>2. GoodSlot(y.sl, y.pl.abandoned, T, A, s)
  <2>1. LockOK(sl)
    BY DEF SameLane, Good, GoodSlot, LockOK
  <2> QED
    BY <1>1, <2>1 DEF SameLane, MoreMarked, Good, GoodSlot
<1>3. GoodPool(y.pl, T)
  BY <1>1 DEF MoreMarked, Good, GoodPool, SemOK
<1>4. Keeps(x, y) /\ Others(y) >= 0
  BY <1>1 DEF SameLane, MoreMarked, Keeps, Sum, Others, Total, Good
<1> QED
  BY <1>1, <1>2, <1>3, <1>4 DEF Good, y

(* Releasing a lane: its owner is done, or marked as abandoned.            *)
LEMMA ReleaseLaneGood ==
  ASSUME NEW x \in TaskView, NEW T \in [Req -> Tasks], NEW A \in [Req -> Slot],
         NEW s \in Slot, Good(x, T, A, s), NEW o \in Req,
         x.sl.owner = o /\ T[o] \in Deciding => o \in x.pl.abandoned
  PROVE  LET y == ReleaseLane(x, o) IN
         /\ y \in TaskView /\ y.tk = x.tk /\ Good(y, T, A, s) /\ Keeps(x, y)
         /\ y.pl.abandoned = x.pl.abandoned /\ y.sl.leases = x.sl.leases
         /\ y.sl.owner # o
<1>1. x.sl \in SlotState /\ x.pl \in PoolState /\ x.tk \in Tasks
      /\ GoodSlot(x.sl, x.pl.abandoned, T, A, s) /\ GoodPool(x.pl, T)
  BY FieldTypes DEF Good
<1>2. CASE x.sl.owner # o
  BY <1>2 DEF ReleaseLane, Keeps
<1>3. CASE x.sl.owner = o
  <2> DEFINE u == [x.sl EXCEPT !.owner = None, !.permit = FALSE]
             p == [x.pl EXCEPT !.lanes = IF @ > 0 THEN @ - 1 ELSE 0]
             sl == Unowned(x.sl)
             pl == IF x.sl.permit THEN LaneEnds(x.pl) ELSE x.pl
  <2>1. /\ u \in SlotState /\ LockOK(u) /\ u.owner = None /\ u.permit = FALSE
        /\ u.lq = x.sl.lq /\ u.leases = x.sl.leases
    BY <1>1 DEF SlotState, GoodSlot, LockOK
  <2>2. sl = LockRelease(u)
    BY DEF Unowned
  <2>3. /\ p \in PoolState /\ SemOK(p) /\ Total(p) = Total(x.pl)
        /\ p.sq = x.pl.sq /\ p.raw = x.pl.raw /\ p.abandoned = x.pl.abandoned
        /\ p.tasks = x.pl.tasks
        /\ p.lanes = IF x.pl.lanes > 0 THEN x.pl.lanes - 1 ELSE 0
    <3>1. (IF x.pl.lanes > 0 THEN x.pl.lanes - 1 ELSE 0) \in Nat
      BY <1>1, PoolFields
    <3> QED
      BY <1>1, <3>1 DEF PoolState, GoodPool, SemOK, Total
  <2>4. LaneEnds(x.pl) = SemRelease(p)
    BY DEF LaneEnds
  <2> HIDE DEF u, p
  <2>5. sl \in SlotState /\ LockOK(sl) /\ ~sl.held /\ SameSlot(sl, u)
    BY <2>1, <2>2, LockReleaseProps
  <2>6. LET q == SemRelease(p) IN
        /\ q \in PoolState /\ SemOK(q) /\ Total(q) = Total(p) + 1
        /\ q.sq = p.sq /\ q.raw = p.raw /\ q.lanes = p.lanes
        /\ q.abandoned = p.abandoned /\ q.tasks = p.tasks
    BY <2>3, SemReleaseProps
  <2>7. /\ pl \in PoolState /\ SemOK(pl)
        /\ pl.sq = x.pl.sq /\ pl.raw = x.pl.raw /\ pl.abandoned = x.pl.abandoned
        /\ pl.tasks = x.pl.tasks
    BY <1>1, <2>3, <2>4, <2>6 DEF GoodPool
  <2>8. /\ Total(pl) = Total(x.pl) + Bit(x.sl.permit)
        /\ pl.lanes = x.pl.lanes - Bit(x.sl.permit)
    <3>1. CASE x.sl.permit
      <4>1. x.pl.lanes \in Nat /\ x.pl.lanes >= 1
        BY <1>1, <3>1, PoolFields DEF Good, Others, Bit
      <4> QED
        BY <2>3, <2>4, <2>6, <3>1, <4>1 DEF Bit
    <3>2. CASE ~x.sl.permit
      <4>1. Total(x.pl) \in Int /\ x.pl.lanes \in Nat
        BY <1>1, PoolFields
      <4> QED
        BY <3>2, <4>1 DEF Bit
    <3> QED
      BY <3>1, <3>2
  <2> DEFINE y == View(sl, pl, x.tk)
  <2>9. ReleaseLane(x, o) = y
    BY <1>3 DEF ReleaseLane
  <2> HIDE DEF sl, pl
  <2>10. y \in TaskView /\ y.sl = sl /\ y.pl = pl /\ y.tk = x.tk
    BY <1>1, <2>5, <2>7, ViewFields
  <2> HIDE DEF y
  <2>11. sl.owner = None /\ sl.permit = FALSE /\ sl.lq = x.sl.lq /\ sl.leases = x.sl.leases
    BY <2>1, <2>5 DEF SameSlot
  <2>12. GoodSlot(y.sl, y.pl.abandoned, T, A, s)
    BY <1>1, <1>3, <2>5, <2>7, <2>10, <2>11, NoneAssumption DEF GoodSlot
  <2>13. GoodPool(y.pl, T)
    BY <1>1, <2>7, <2>10 DEF GoodPool
  <2>14. Keeps(x, y) /\ Others(y) >= 0
    <3>1. Bit(sl.permit) = 0 /\ Bit(x.sl.permit) \in Int /\ Total(x.pl) \in Int
          /\ x.pl.lanes \in Nat
      BY <1>1, <2>11, PoolFields DEF Bit
    <3> QED
      BY <2>7, <2>8, <2>10, <3>1 DEF Keeps, Sum, Others, Good
  <2> QED
    BY <2>7, <2>9, <2>10, <2>11, <2>12, <2>13, <2>14, NoneAssumption DEF Good
<1> QED
  BY <1>2, <1>3

(* _recover_lane and _recover_slot_state.                                  *)
LEMMA RecoverLaneGood ==
  ASSUME NEW x \in TaskView, NEW T \in [Req -> Tasks], NEW A \in [Req -> Slot],
         NEW s \in Slot, Good(x, T, A, s)
  PROVE  LET y == RecoverLane(x, s) IN
         y \in TaskView /\ y.tk = x.tk /\ Good(y, T, A, s) /\ Keeps(x, y)
<1> DEFINE o == x.sl.owner
           With(sl) == View(sl, x.pl, x.tk)
           p == IF o \in x.pl.tasks THEN Marked(x.pl, o) ELSE x.pl
           y == RecoverLane(x, s)
<1>1. x.sl \in SlotState /\ x.pl \in PoolState /\ x.tk \in Tasks
      /\ GoodSlot(x.sl, x.pl.abandoned, T, A, s) /\ GoodPool(x.pl, T)
  BY FieldTypes DEF Good
<1>2. x.sl.held <=> o # None
  BY <1>1 DEF GoodSlot
<1>3. o \in Req \cup {None} /\ SameLane(x.sl, x.sl) /\ MoreMarked(x.pl, x.pl)
  BY <1>1 DEF SlotState, SameLane, MoreMarked
<1>4. \A n \in Req \cup {None} : SameLane(Verdict(x.sl, n), x.sl)
  BY <1>1 DEF SlotState, SameLane, Verdict
<1>5. CASE y = x
  BY <1>5 DEF Keeps
<1>6. CASE \E n \in Req \cup {None} : y = With(Verdict(x.sl, n))
  BY <1>1, <1>3, <1>4, <1>6, QuietGood
<1>7. CASE o # None /\ y = ReleaseLane(View(Verdict(x.sl, None), p, x.tk), o)
  <2> DEFINE v == Verdict(x.sl, None)
             z == View(v, p, x.tk)
  <2>1. MoreMarked(p, x.pl) /\ (o \in x.pl.tasks => o \in p.abandoned)
    BY <1>1, <1>3, <1>7 DEF MoreMarked, Marked, PoolState
  <2>2. SameLane(v, x.sl) /\ v.owner = o
    BY <1>4 DEF SameLane
  <2> HIDE DEF p, v
  <2>3. /\ z \in TaskView /\ z.sl = v /\ z.pl = p /\ z.tk = x.tk
        /\ Good(z, T, A, s) /\ Keeps(x, z)
    BY <1>1, <2>1, <2>2, QuietGood
  <2>4. T[o] \in Deciding => o \in z.pl.abandoned
    BY <1>1, <1>3, <1>7, <2>1, <2>3 DEF GoodPool, Deciding, InFlight
  <2> HIDE DEF z
  <2>5. y \in TaskView /\ y.tk = z.tk /\ Good(y, T, A, s) /\ Keeps(z, y)
    BY <1>3, <1>7, <2>3, <2>4, ReleaseLaneGood DEF z, v, p
  <2> QED
    BY <2>3, <2>5 DEF Keeps
<1>8. \/ y = x
      \/ \E n \in Req \cup {None} : y = With(Verdict(x.sl, n))
      \/ o # None /\ y = ReleaseLane(View(Verdict(x.sl, None), p, x.tk), o)
  BY <1>2, <1>3 DEF RecoverLane
<1> QED
  BY <1>5, <1>6, <1>7, <1>8

(* Recovering a slot's whole state keeps the invariant. *)
LEMMA RecoverSlotStateGood ==
  ASSUME NEW x \in TaskView, NEW T \in [Req -> Tasks], NEW A \in [Req -> Slot],
         NEW s \in Slot, Good(x, T, A, s)
  PROVE  LET y == RecoverSlotState(x, s) IN
         y \in TaskView /\ Good(y, T, A, s) /\ Keeps(x, y)
<1> DEFINE y == RecoverLane(x, s)
           z == View([y.sl EXCEPT !.leases = 0], y.pl, y.tk)
<1>1. y \in TaskView /\ y.tk = x.tk /\ Good(y, T, A, s) /\ Keeps(x, y)
  BY RecoverLaneGood
<1>2. RecoverSlotState(x, s) \in {y, z}
  BY DEF RecoverSlotState
<1> HIDE DEF y
<1>3. SameLane([y.sl EXCEPT !.leases = 0], y.sl) /\ MoreMarked(y.pl, y.pl) /\ y.tk \in Tasks
  BY <1>1, FieldTypes DEF SameLane, MoreMarked, SlotState
<1>4. z \in TaskView /\ Good(z, T, A, s) /\ Keeps(y, z)
  BY <1>1, <1>3, QuietGood
<1> QED
  BY <1>1, <1>2, <1>4 DEF Keeps

(* The finalizer: afterwards the request does not own the lane.            *)
LEMMA FinalizeGood ==
  ASSUME NEW x \in TaskView, NEW T \in [Req -> Tasks], NEW A \in [Req -> Slot],
         NEW s \in Slot, Good(x, T, A, s), NEW r \in Req
  PROVE  LET y == Finalize(x, r) IN
         y \in TaskView /\ y.tk = x.tk /\ Good(y, T, A, s) /\ Keeps(x, y)
<1> DEFINE d == Dequeued(x.sl, r)
           p == Marked(x.pl, r)
           v == View(d, p, x.tk)
           y == ReleaseLane(v, r)
           n == IF y.sl.leases > 0 THEN y.sl.leases - 1 ELSE 0
           z == Returned(y, n)
<1>1. x.sl \in SlotState /\ x.pl \in PoolState /\ x.tk \in Tasks
  BY FieldTypes
<1>2. SameLane(d, x.sl) /\ MoreMarked(p, x.pl) /\ r \in p.abandoned
  BY <1>1 DEF SameLane, MoreMarked, SlotState, PoolState, Dequeued, Marked
<1>3. Finalize(x, r) = z
  BY DEF Finalize
<1> HIDE DEF d, p
<1>4. /\ v \in TaskView /\ v.sl = d /\ v.pl = p /\ v.tk = x.tk
      /\ Good(v, T, A, s) /\ Keeps(x, v)
  BY <1>1, <1>2, QuietGood
<1> HIDE DEF v
<1>5. y \in TaskView /\ y.tk = v.tk /\ Good(y, T, A, s) /\ Keeps(v, y)
  BY <1>2, <1>4, ReleaseLaneGood
<1> HIDE DEF y
<1>6. y.sl \in SlotState /\ y.pl \in PoolState /\ y.tk \in Tasks /\ n \in Nat
  BY <1>5, FieldTypes DEF SlotState
<1>7. SameLane([y.sl EXCEPT !.leases = n], y.sl) /\ MoreMarked(y.pl, y.pl)
  BY <1>6 DEF SameLane, MoreMarked, SlotState
<1>8. z = View([y.sl EXCEPT !.leases = n], y.pl, y.tk)
  BY DEF Returned
<1> HIDE DEF n, z
<1>9. z \in TaskView /\ z.tk = y.tk /\ Good(z, T, A, s) /\ Keeps(y, z)
  BY <1>5, <1>6, <1>7, <1>8, QuietGood
<1> QED
  BY <1>3, <1>4, <1>5, <1>9 DEF Keeps

-----------------------------------------------------------------------------
(* The resumptions of the acquire task.                                    *)
LEMMA LockLeaveFields ==
  ASSUME NEW sl \in SlotState, LockOK(sl), NEW r \in Elems(sl.lq)
  PROVE  LET t == LockLeave(sl, r) IN
         /\ t \in SlotState /\ LockOK(t) /\ Elems(t.lq) = Elems(sl.lq) \ {r}
         /\ t.lgrant = sl.lgrant \ {r} /\ t.held = sl.held
         /\ t.owner = sl.owner /\ t.permit = sl.permit
<1> DEFINE t == [sl EXCEPT !.lq = Without(@, r), !.lgrant = @ \ {r}]
<1>1. sl.lq \in Seq(Req) /\ NoDup(sl.lq) /\ sl.lgrant \subseteq Elems(sl.lq)
      /\ sl.lgrant \in SUBSET Req
  BY DEF SlotState, LockOK
<1>2. /\ Without(sl.lq, r) \in Seq(Req) /\ NoDup(Without(sl.lq, r))
      /\ Elems(Without(sl.lq, r)) = Elems(sl.lq) \ {r}
      /\ r # Head(sl.lq) => Head(Without(sl.lq, r)) = Head(sl.lq)
  BY <1>1, WithoutProps
<1>3. /\ t \in SlotState /\ t.lq = Without(sl.lq, r) /\ t.lgrant = sl.lgrant \ {r}
      /\ t.held = sl.held /\ t.owner = sl.owner /\ t.permit = sl.permit
  BY <1>1, <1>2 DEF SlotState
<1> HIDE DEF t
<1>4. t.lgrant # {} => ~t.held /\ t.lgrant = {Head(t.lq)}
  BY <1>1, <1>2, <1>3 DEF LockOK
<1>5. LockLeave(sl, r) = t
  BY DEF LockLeave, t
<1> QED
  BY <1>1, <1>2, <1>3, <1>4, <1>5 DEF LockOK

(* A waiter of the lane lock resumes, with or without the lock. *)
LEMMA LockResumes ==
  ASSUME NEW x \in TaskView, NEW r \in Req, NEW s \in Slot,
         NEW T \in [Req -> Tasks], NEW A \in [Req -> Slot], A[r] = s,
         Good(x, T, A, s), T[r] = "lock"
  PROVE  LET u == LockLeave(x.sl, r) IN
         /\ \A z \in TaskView :
              z = EndTask(View(IF x.sl.held THEN u ELSE WakeFirst(u), x.pl, x.tk), r)
              => z.tk = "done" /\ Good(z, As(T, r, z.tk), A, s) /\ Same(x, z, r)
         /\ EndTask(View(IF x.sl.held THEN u ELSE WakeFirst(u), x.pl, x.tk), r) \in TaskView
         /\ r \in x.sl.lgrant =>
              \A z \in TakeLock(View(u, x.pl, x.tk), r) :
                /\ z \in TaskView /\ Good(z, As(T, r, z.tk), A, s) /\ Same(x, z, r)
                /\ z.tk \in {"done", "nap", "probe", "sem"}
<1> DEFINE u == LockLeave(x.sl, r)
<1>1. x.sl \in SlotState /\ x.pl \in PoolState /\ x.tk \in Tasks
      /\ GoodSlot(x.sl, x.pl.abandoned, T, A, s) /\ GoodPool(x.pl, T)
  BY FieldTypes DEF Good
<1>2. r \in Elems(x.sl.lq) /\ x.sl.owner # r /\ LockOK(x.sl)
  BY <1>1 DEF GoodSlot, Deciding
<1>3. /\ u \in SlotState /\ LockOK(u) /\ Elems(u.lq) = Elems(x.sl.lq) \ {r}
      /\ u.lgrant = x.sl.lgrant \ {r} /\ u.held = x.sl.held
      /\ u.owner = x.sl.owner /\ u.permit = x.sl.permit
  BY <1>1, <1>2, LockLeaveFields
<1> HIDE DEF u
<1>4. LET w == IF x.sl.held THEN u ELSE WakeFirst(u)
          z == EndTask(View(w, x.pl, x.tk), r)
      IN  z \in TaskView /\ z.tk = "done" /\ Good(z, As(T, r, z.tk), A, s) /\ Same(x, z, r)
  <2> DEFINE w == IF x.sl.held THEN u ELSE WakeFirst(u)
             y == View(w, x.pl, x.tk)
  <2>1. /\ w \in SlotState /\ LockOK(w) /\ w.lq = u.lq /\ w.held = x.sl.held
        /\ w.owner = x.sl.owner /\ w.permit = x.sl.permit
    <3>1. CASE x.sl.held
      BY <1>3, <3>1
    <3>2. CASE ~x.sl.held
      <4>1. LET v == WakeFirst(u) IN
            v \in SlotState /\ LockOK(v) /\ ~v.held /\ SameSlot(v, u)
        BY <1>3, <3>2, WakeFirstProps
      <4>2. u.held = FALSE /\ WakeFirst(u).held = FALSE
        BY <1>3, <3>2, <4>1 DEF SlotState
      <4> QED
        BY <1>3, <3>2, <4>1, <4>2 DEF SameSlot
    <3> QED
      BY <3>1, <3>2
  <2> HIDE DEF w
  <2>2. y \in TaskView /\ y.sl = w /\ y.pl = x.pl
    BY <1>1, <2>1, ViewFields
  <2> HIDE DEF y
  <2>3. /\ \A o \in Req : o \in Elems(y.sl.lq) <=> As(T, r, "done")[o] = "lock" /\ A[o] = s
        /\ LockOK(y.sl)
    BY <1>1, <1>2, <1>3, <2>1, <2>2 DEF GoodSlot, As
  <2>7. /\ y.sl.held <=> y.sl.owner # None
        /\ y.sl.permit => y.sl.owner # None
        /\ y.sl.owner # r
    BY <1>1, <1>2, <1>3, <2>1, <2>2 DEF GoodSlot
  <2>8. \A o \in Req : y.sl.owner = o =>
             A[o] = s /\ T[o] \in Deciding \cup {"done"} /\ (y.sl.permit <=> T[o] = "done")
    BY <1>1, <2>1, <2>2 DEF GoodSlot
  <2>9. \A o \in Req \ {r} : A[o] = s /\ T[o] \in Deciding /\ o \notin y.pl.abandoned
             => y.sl.owner = o
    BY <1>1, <2>1, <2>2 DEF GoodSlot
  <2>4. /\ \A o \in Req : o \in Elems(y.pl.sq) <=> As(T, r, "done")[o] = "sem"
        /\ \A o \in Req : o \in y.pl.raw <=> As(T, r, "done")[o] = "probe"
        /\ \A o \in Req \ {r} : o \in y.pl.tasks <=> T[o] \in InFlight
        /\ SemOK(y.pl)
    BY <1>1, <2>2 DEF GoodPool, As
  <2>5. Same(x, y, r) /\ Others(y) >= 0
    BY <2>1, <2>2 DEF Good, Same, Sum, Others
  <2>6. LET z == EndTask(y, r) IN
        z \in TaskView /\ z.tk = "done" /\ Good(z, As(T, r, z.tk), A, s) /\ Same(y, z, r)
    <3>1. Leaving(y, T, A, s, r)
      BY <2>2, <2>3, <2>4, <2>5, <2>7, <2>8, <2>9 DEF Leaving
    <3>2. /\ EndTask(y, r) \in TaskView /\ EndTask(y, r).tk = "done"
          /\ Good(EndTask(y, r), As(T, r, "done"), A, s) /\ Same(y, EndTask(y, r), r)
      BY <2>2, <3>1, LeavingGood
    <3> QED
      BY <3>2
  <2> QED
    BY <2>5, <2>6 DEF Same, y, w
<1>5. ASSUME r \in x.sl.lgrant, NEW z \in TakeLock(View(u, x.pl, x.tk), r)
      PROVE  /\ z \in TaskView /\ Good(z, As(T, r, z.tk), A, s) /\ Same(x, z, r)
             /\ z.tk \in {"done", "nap", "probe", "sem"}
  <2> DEFINE y == View(u, x.pl, x.tk)
  <2>1. y \in TaskView /\ y.sl = u /\ y.pl = x.pl
    BY <1>1, <1>3, ViewFields
  <2>2. z \in TakeLock(y, r)
    BY <1>5
  <2> HIDE DEF y
  <2>3. ~y.sl.held /\ y.sl.lgrant = {}
    BY <1>2, <1>3, <1>5, <2>1 DEF LockOK
  <2>4. GoodSlot(y.sl, y.pl.abandoned, As(T, r, "none"), A, s)
    BY <1>1, <1>2, <1>3, <2>1 DEF GoodSlot, As, Deciding
  <2>5. GoodPool(y.pl, As(T, r, "nap"))
    BY <1>1, <2>1 DEF GoodPool, As, InFlight
  <2>6. Same(x, y, r) /\ Others(y) >= 0
    BY <1>3, <2>1 DEF Good, Same, Sum, Others
  <2>7. /\ z \in TaskView /\ Good(z, As(T, r, z.tk), A, s) /\ Same(y, z, r)
        /\ z.tk \in {"done", "nap", "probe", "sem"}
    BY <2>1, <2>2, <2>3, <2>4, <2>5, <2>6, TakeLockGood
  <2> QED
    BY <2>6, <2>7 DEF Same
<1> QED
  BY <1>4, <1>5 DEF u

(* Leaving the semaphore's queue with the permit, if one was handed over,  *)
(* put back or taken.                                                      *)
LEMMA SemLeaveGood ==
  ASSUME NEW x \in TaskView, NEW r \in Req, NEW s \in Slot,
         NEW T \in [Req -> Tasks], NEW A \in [Req -> Slot], A[r] = s,
         Good(x, T, A, s), T[r] = "sem", NEW t \in {"nap", "probe"},
         NEW p \in PoolState,
         p.sq = Without(x.pl.sq, r), p.sgrant = x.pl.sgrant \ {r},
         p.lanes = x.pl.lanes, p.abandoned = x.pl.abandoned, p.tasks = x.pl.tasks,
         \A o \in Req : o \in p.raw <=> o \in x.pl.raw \/ (o = r /\ t = "probe"),
         Total(p) = Total(x.pl)
  PROVE  LET z == View(x.sl, SemWake(p, p.free), x.tk) IN
         /\ z \in TaskView /\ Same(x, z, r)
         /\ Good(z, As(T, r, t), A, s)
         /\ z.pl.abandoned = x.pl.abandoned
<1> DEFINE w == SemWake(p, p.free)
           z == View(x.sl, w, x.tk)
<1>1. x.sl \in SlotState /\ x.pl \in PoolState /\ x.tk \in Tasks
      /\ GoodSlot(x.sl, x.pl.abandoned, T, A, s) /\ GoodPool(x.pl, T)
  BY FieldTypes DEF Good
<1>2. /\ x.pl.sq \in Seq(Req) /\ NoDup(x.pl.sq) /\ r \in Elems(x.pl.sq)
      /\ x.pl.sgrant \subseteq Elems(x.pl.sq) /\ r \notin x.pl.raw
  BY <1>1, PoolFields DEF GoodPool, SemOK
<1>3. NoDup(p.sq) /\ Elems(p.sq) = Elems(x.pl.sq) \ {r}
  BY <1>2, WithoutProps
<1>4. SemOK(p)
  BY <1>2, <1>3 DEF SemOK
<1>6. /\ w \in PoolState /\ SemOK(w) /\ Total(w) = Total(p)
      /\ w.sq = p.sq /\ w.raw = p.raw /\ w.lanes = p.lanes
      /\ w.abandoned = p.abandoned /\ w.tasks = p.tasks
  <2>1. p.free \in Nat /\ p.free <= p.free
    BY PoolFields
  <2> QED
    BY <1>4, <2>1, SemWakeProps
<1> HIDE DEF w
<1>7. z \in TaskView /\ z.sl = x.sl /\ z.pl = w
  BY <1>1, <1>6, ViewFields
<1> HIDE DEF z
<1>8. GoodPool(z.pl, As(T, r, t))
  BY <1>1, <1>2, <1>3, <1>6, <1>7 DEF GoodPool, As, InFlight
<1>9. GoodSlot(z.sl, z.pl.abandoned, As(T, r, t), A, s)
  BY <1>1, <1>6, <1>7 DEF GoodSlot, As, Deciding
<1>10. Same(x, z, r) /\ Others(z) >= 0
  BY <1>6, <1>7 DEF Good, Same, Sum, Others
<1> QED
  BY <1>6, <1>7, <1>8, <1>9, <1>10 DEF Good, z, w

(* Every outcome of one step of an acquisition task keeps the invariant. *)
LEMMA TaskOutcomesGood ==
  ASSUME NEW r \in Req, NEW s \in Slot, req[r].at = s, req[r].kill \in BOOLEAN,
         NEW T \in [Req -> Tasks], NEW A \in [Req -> Slot], A[r] = s, T[r] = req[r].task,
         Here(r, s) \in TaskView, slots[s] \in SlotState, pool \in PoolState,
         Good(Here(r, s), T, A, s), NEW z \in TaskOutcomes(r)
  PROVE  /\ z \in TaskView /\ Good(z, As(T, r, z.tk), A, s) /\ Same(Here(r, s), z, r)
         /\ z.tk \in InFlight \cup {"done"}
         /\ req[r].kill => z.tk = "done"
         /\ req[r].task \notin {"none", "done"}
<1> DEFINE x == Here(r, s)
           unlocked == LockLeave(x.sl, r)
           left == [pool EXCEPT !.sq = Without(@, r), !.sgrant = @ \ {r}]
           refunded == [left EXCEPT !.free = @ + (IF r \in pool.sgrant THEN 1 ELSE 0)]
           taken == [left EXCEPT !.raw = @ \cup {r}]
           Nudge(pl) == View(x.sl, SemWake(pl, pl.free), x.tk)
<1>1. x \in TaskView /\ x.sl = slots[s] /\ x.pl = pool /\ x.tk = T[r]
      /\ x = View(x.sl, x.pl, x.tk)
  BY ViewFields DEF Here
<1>2. As(T, r, T[r]) = T
  BY DEF As
<1>3. CASE req[r].task = "spawned"
  <2>1. CASE req[r].kill
    <3>1. z = View(x.sl, x.pl, "done")
      BY <1>3, <2>1 DEF TaskOutcomes
    <3>2. z \in TaskView /\ z.sl = x.sl /\ z.pl = x.pl /\ z.tk = "done"
      BY <1>1, <3>1, ViewFields DEF Tasks
    <3>3. GoodSlot(z.sl, z.pl.abandoned, As(T, r, "done"), A, s)
      BY <1>3, <3>2 DEF Good, GoodSlot, As, Deciding
    <3>4. GoodPool(z.pl, As(T, r, "done"))
      BY <1>3, <3>2 DEF Good, GoodPool, As, InFlight
    <3> QED
      BY <1>3, <3>2, <3>3, <3>4 DEF Good, Same, Sum, Others
  <2>2. CASE ~req[r].kill
    <3>1. z \in StartAcquire(x, r)
      BY <1>3, <2>2 DEF TaskOutcomes
    <3>2. Good(x, As(T, r, "spawned"), A, s)
      BY <1>2, <1>3
    <3> HIDE DEF x
    <3> QED
      BY <1>1, <1>3, <2>2, <3>1, <3>2, StartAcquireGood DEF x
  <2> QED
    BY <2>1, <2>2
<1>4. CASE req[r].task = "lock"
  <2>1. CASE req[r].kill
    <3>1. z = EndTask(View(IF x.sl.held THEN unlocked ELSE WakeFirst(unlocked),
                           x.pl, x.tk), r)
      BY <1>4, <2>1 DEF TaskOutcomes
    <3> QED
      BY <1>1, <1>4, <3>1, LockResumes
  <2>2. CASE ~req[r].kill
    <3>1. r \in x.sl.lgrant /\ z \in TakeLock(View(unlocked, x.pl, x.tk), r)
      BY <1>4, <2>2 DEF TaskOutcomes
    <3>2. /\ z \in TaskView /\ Good(z, As(T, r, z.tk), A, s) /\ Same(x, z, r)
          /\ z.tk \in {"done", "nap", "probe", "sem"}
      BY <1>1, <1>4, <3>1, LockResumes
    <3> QED
      BY <1>4, <2>2, <3>2 DEF InFlight
  <2> QED
    BY <2>1, <2>2
<1>5. CASE req[r].task = "sem"
  <2>0. /\ Without(pool.sq, r) \in Seq(Req) /\ pool.sgrant \ {r} \in SUBSET Req
        /\ pool.free + (IF r \in pool.sgrant THEN 1 ELSE 0) \in Nat
        /\ pool.raw \cup {r} \in SUBSET Req
    <3>1. pool.sq \in Seq(Req) /\ NoDup(pool.sq) /\ r \in Elems(pool.sq)
          /\ pool.sgrant \in SUBSET Req /\ pool.free \in Nat /\ pool.raw \in SUBSET Req
      BY <1>1, <1>5, PoolFields DEF Good, GoodPool, SemOK
    <3> QED
      BY <3>1, WithoutProps
  <2>9. /\ left \in PoolState /\ left.sq = Without(pool.sq, r)
        /\ left.sgrant = pool.sgrant \ {r} /\ left.free = pool.free /\ left.raw = pool.raw
        /\ left.lanes = pool.lanes /\ left.abandoned = pool.abandoned
        /\ left.tasks = pool.tasks
    BY <2>0 DEF PoolState
  <2>8. /\ pool.free \in Nat /\ r \notin pool.raw
        /\ IsFiniteSet(pool.sgrant) /\ Cardinality(pool.sgrant) \in Nat
        /\ IsFiniteSet(pool.raw) /\ Cardinality(pool.raw) \in Nat
    <3>1. r \notin pool.raw
      BY <1>1, <1>5 DEF Good, GoodPool
    <3> QED
      BY <3>1, PoolFields, ReqSetsFinite
  <2> HIDE DEF left
  <2>1. CASE req[r].kill
    <3> DEFINE y == Nudge(refunded)
    <3>1. z = Abort(y, r)
      BY <1>5, <2>1 DEF TaskOutcomes, left
    <3>2. /\ refunded \in PoolState /\ refunded.sq = left.sq
          /\ refunded.sgrant = left.sgrant /\ refunded.raw = left.raw
          /\ refunded.free = left.free + (IF r \in pool.sgrant THEN 1 ELSE 0)
          /\ refunded.lanes = left.lanes /\ refunded.abandoned = left.abandoned
          /\ refunded.tasks = left.tasks
      BY <2>0, <2>9 DEF PoolState
    <3> HIDE DEF refunded, x
    <3>5. /\ \A o \in Req : o \in refunded.raw <=> o \in x.pl.raw \/ (o = r /\ "nap" = "probe")
          /\ refunded.sq = Without(x.pl.sq, r) /\ refunded.sgrant = x.pl.sgrant \ {r}
          /\ refunded.lanes = x.pl.lanes /\ refunded.abandoned = x.pl.abandoned
          /\ refunded.tasks = x.pl.tasks
      BY <1>1, <2>9, <3>2
    <3>7. Total(refunded) = Total(x.pl)
      <4>1. CASE r \in pool.sgrant
        <5>1. Cardinality(refunded.sgrant) = Cardinality(pool.sgrant) - 1
          <6>1. Cardinality(pool.sgrant \ {r}) = Cardinality(pool.sgrant) - 1
            BY <2>8, <4>1, FS_RemoveElement
          <6> QED
            BY <2>9, <3>2, <6>1
        <5>2. refunded.free = pool.free + 1 /\ refunded.raw = pool.raw
          BY <2>9, <3>2, <4>1
        <5> QED
          BY <1>1, <2>8, <5>1, <5>2 DEF Total
      <4>2. CASE r \notin pool.sgrant
        <5>1. refunded.sgrant = pool.sgrant
          BY <2>9, <3>2, <4>2
        <5>2. refunded.free = pool.free + 0 /\ refunded.raw = pool.raw
          BY <2>9, <3>2, <4>2
        <5>3. refunded.free = pool.free
          BY <2>8, <5>2
        <5> QED
          BY <1>1, <5>1, <5>2, <5>3 DEF Total
      <4> QED
        BY <4>1, <4>2
    <3>6. Good(x, T, A, s) /\ T[r] = "sem"
      BY <1>5 DEF x
    <3>8. x \in TaskView
      BY <1>1
    <3>3. /\ y \in TaskView /\ Same(x, y, r)
          /\ Good(y, As(T, r, "nap"), A, s)
      <4>1. y = View(x.sl, SemWake(refunded, refunded.free), x.tk)
        OBVIOUS
      <4> HIDE DEF y
      <4> QED
        BY <3>8, <3>2, <3>5, <3>6, <3>7, <4>1, SemLeaveGood
    <3> HIDE DEF y
    <3>4. z \in TaskView /\ z.tk = "done" /\ Good(z, As(T, r, z.tk), A, s) /\ Same(y, z, r)
      BY <3>1, <3>3, AbortGood
    <3> QED
      BY <1>5, <3>3, <3>4 DEF Same, x
  <2>2. CASE ~req[r].kill
    <3> DEFINE y == Nudge(taken)
    <3>1. r \in pool.sgrant /\ z \in HavePermit(y, r)
      BY <1>5, <2>2 DEF TaskOutcomes, left
    <3>2. /\ taken \in PoolState /\ taken.sq = left.sq
          /\ taken.sgrant = left.sgrant /\ taken.raw = pool.raw \cup {r}
          /\ taken.free = left.free
          /\ taken.lanes = left.lanes /\ taken.abandoned = left.abandoned
          /\ taken.tasks = left.tasks
      BY <2>0, <2>9 DEF PoolState
    <3> HIDE DEF taken, x
    <3>5. /\ \A o \in Req : o \in taken.raw <=> o \in x.pl.raw \/ (o = r /\ "probe" = "probe")
          /\ taken.sq = Without(x.pl.sq, r) /\ taken.sgrant = x.pl.sgrant \ {r}
          /\ taken.lanes = x.pl.lanes /\ taken.abandoned = x.pl.abandoned
          /\ taken.tasks = x.pl.tasks
      BY <1>1, <2>9, <3>2
    <3>7. Total(taken) = Total(x.pl)
      <4>1. Cardinality(taken.sgrant) = Cardinality(pool.sgrant) - 1
        <5>1. Cardinality(pool.sgrant \ {r}) = Cardinality(pool.sgrant) - 1
          BY <2>8, <3>1, FS_RemoveElement
        <5> QED
          BY <2>9, <3>2, <5>1
      <4>2. Cardinality(taken.raw) = Cardinality(pool.raw) + 1
        <5>1. Cardinality(pool.raw \cup {r}) = Cardinality(pool.raw) + 1
          BY <2>8, FS_AddElement
        <5> QED
          BY <3>2, <5>1
      <4>3. taken.free = pool.free
        BY <2>9, <3>2
      <4> QED
        BY <1>1, <2>8, <4>1, <4>2, <4>3 DEF Total
    <3>6. Good(x, T, A, s) /\ T[r] = "sem"
      BY <1>5 DEF x
    <3>8. x \in TaskView
      BY <1>1
    <3>3. /\ y \in TaskView /\ Same(x, y, r)
          /\ Good(y, As(T, r, "probe"), A, s)
      <4>1. y = View(x.sl, SemWake(taken, taken.free), x.tk)
        OBVIOUS
      <4> HIDE DEF y
      <4> QED
        BY <3>8, <3>2, <3>5, <3>6, <3>7, <4>1, SemLeaveGood
    <3> HIDE DEF y
    <3>4. /\ z \in TaskView /\ Good(z, As(T, r, z.tk), A, s) /\ Same(y, z, r)
          /\ z.tk \in {"done", "nap", "probe"}
      BY <3>1, <3>3, HavePermitGood
    <3> QED
      BY <1>5, <2>2, <3>3, <3>4 DEF Same, x, InFlight
  <2> QED
    BY <2>1, <2>2
<1>6. CASE req[r].task = "probe"
  <2>1. Good(x, As(T, r, "probe"), A, s)
    BY <1>2, <1>6
  <2>2. CASE req[r].kill \/ r \in pool.abandoned
    <3>1. z = Abort(x, r)
      BY <1>6, <2>2 DEF TaskOutcomes
    <3> HIDE DEF x
    <3> QED
      BY <1>1, <1>6, <2>1, <3>1, AbortGood DEF x
  <2>3. CASE ~(req[r].kill \/ r \in pool.abandoned)
    <3>1. z \in {Commit(x, r), View(x.sl, GiveBackPermit(pool, r), "nap")}
      BY <1>6, <2>3 DEF TaskOutcomes
    <3> HIDE DEF x
    <3>2. z = Commit(x, r) => /\ z \in TaskView /\ z.tk = "done"
                              /\ Good(z, As(T, r, z.tk), A, s) /\ Same(x, z, r)
      BY <1>1, <2>1, <2>3, CommitGood
    <3>3. z = View(x.sl, GiveBackPermit(pool, r), "nap") =>
            z \in TaskView /\ z.tk = "nap" /\ Good(z, As(T, r, z.tk), A, s) /\ Same(x, z, r)
      BY <1>1, <2>1, ProbeRefused
    <3> QED
      BY <1>6, <2>3, <3>1, <3>2, <3>3 DEF x, InFlight
  <2> QED
    BY <2>2, <2>3
<1>7. CASE req[r].task = "nap"
  <2>1. Good(x, As(T, r, "nap"), A, s)
    BY <1>2, <1>7
  <2>2. CASE req[r].kill
    <3>1. z = Abort(x, r)
      BY <1>7, <2>2 DEF TaskOutcomes
    <3> HIDE DEF x
    <3> QED
      BY <1>1, <1>7, <2>1, <3>1, AbortGood DEF x
  <2>3. CASE ~req[r].kill
    <3>1. z \in TrySem(x, r)
      BY <1>7, <2>3 DEF TaskOutcomes
    <3> HIDE DEF x
    <3> QED
      BY <1>1, <1>7, <2>1, <2>3, <3>1, TrySemGood DEF x, InFlight
  <2> QED
    BY <2>2, <2>3
<1>8. req[r].task \in {"spawned", "lock", "sem", "probe", "nap"}
  BY DEF TaskOutcomes
<1> QED
  BY <1>3, <1>4, <1>5, <1>6, <1>7, <1>8

-----------------------------------------------------------------------------
(* The whole pool: every slot is good, and the permits and lanes of all    *)
(* slots add up.                                                           *)
Task == [r \in Req |-> req[r].task]
At == [r \in Req |-> req[r].at]
With(sls) == {u \in Slot : sls[u].permit}

Lanes(sls, pl, T, A) ==
  /\ sls \in [Slot -> SlotState]
  /\ \A u \in Slot : GoodSlot(sls[u], pl.abandoned, T, A, u)
  /\ GoodPool(pl, T)
  /\ Total(pl) + Cardinality(With(sls)) = Conc
  /\ pl.lanes = Cardinality(With(sls))

(* The number of lanes with a permit changes by what one slot changes. *)
LEMMA PermittedChanges ==
  ASSUME NEW sls \in [Slot -> SlotState], NEW s \in Slot,
         NEW new \in [Slot -> SlotState], \A u \in Slot \ {s} : new[u] = sls[u]
  PROVE  /\ Cardinality(With(sls)) \in Nat /\ Cardinality(With(new)) \in Nat
         /\ Cardinality(With(new)) - Bit(new[s].permit)
              = Cardinality(With(sls)) - Bit(sls[s].permit)
<1> DEFINE rest == {u \in Slot \ {s} : sls[u].permit}
<1>2. IsFiniteSet(rest) /\ Cardinality(rest) \in Nat /\ s \notin rest
  BY FiniteAssumption, FS_Subset, FS_CardinalityType
<1>3. Cardinality(rest \cup {s}) = Cardinality(rest) + 1
  BY <1>2, FS_AddElement
<1>4. ASSUME NEW f \in [Slot -> SlotState], \A u \in Slot \ {s} : f[u] = sls[u]
      PROVE  Cardinality(With(f)) = Cardinality(rest) + Bit(f[s].permit)
  <2>1. CASE f[s].permit
    <3>1. With(f) = rest \cup {s}
      BY <1>4, <2>1 DEF With
    <3> HIDE DEF rest
    <3> QED
      BY <1>3, <2>1, <3>1 DEF Bit
  <2>2. CASE ~f[s].permit
    <3>1. With(f) = rest
      BY <1>4, <2>2 DEF With
    <3> HIDE DEF rest
    <3>2. Cardinality(With(f)) = Cardinality(rest)
      BY <3>1
    <3> QED
      BY <1>2, <2>2, <3>2 DEF Bit
  <2> QED
    BY <2>1, <2>2
<1>5. Cardinality(With(sls)) = Cardinality(rest) + Bit(sls[s].permit)
  BY <1>4
<1>6. Cardinality(With(new)) = Cardinality(rest) + Bit(new[s].permit)
  BY <1>4
<1>7. Bit(new[s].permit) \in Nat /\ Bit(sls[s].permit) \in Nat
  BY DEF Bit
<1> HIDE DEF rest
<1> QED
  BY <1>2, <1>5, <1>6, <1>7

(* Types of the state as functions of the requests. *)
LEMMA TaskTypes ==
  ASSUME TypeOK
  PROVE  /\ Task \in [Req -> Tasks] /\ At \in [Req -> Slot]
         /\ slots \in [Slot -> SlotState] /\ pool \in PoolState
         /\ \A r \in Req : Task[r] = req[r].task /\ At[r] = req[r].at
BY DEF TypeOK, Task, At

(* One slot and the pool change together; other slots only see that no     *)
(* marker of their requests went away.                                     *)
LEMMA Reassemble ==
  ASSUME TypeOK, Lanes(slots, pool, Task, At),
         NEW T2 \in [Req -> Tasks], NEW A2 \in [Req -> Slot],
         NEW s \in Slot, NEW z \in TaskView, Good(z, T2, A2, s),
         \A o \in Req : A2[o] # s => /\ A2[o] = At[o] /\ T2[o] = Task[o]
                                     /\ o \in pool.abandoned => o \in z.pl.abandoned,
         \A o \in Req : At[o] # s /\ A2[o] = s => Task[o] = "none",
         Sum(z) = Total(pool) + Bit(slots[s].permit),
         Others(z) = pool.lanes - Bit(slots[s].permit),
         Store(s, z)
  PROVE  /\ Lanes(slots', pool', T2, A2)
         /\ slots' \in [Slot -> SlotState] /\ pool' \in PoolState
<1>1. /\ z.sl \in SlotState /\ z.pl \in PoolState
      /\ Task \in [Req -> Tasks] /\ At \in [Req -> Slot]
      /\ slots \in [Slot -> SlotState] /\ pool \in PoolState
  BY FieldTypes, TaskTypes
<1>2. /\ slots' \in [Slot -> SlotState] /\ slots'[s] = z.sl
      /\ \A u \in Slot \ {s} : slots'[u] = slots[u]
      /\ pool' = z.pl
  BY <1>1 DEF Store
<1>3. /\ Cardinality(With(slots)) \in Nat /\ Cardinality(With(slots')) \in Nat
      /\ Cardinality(With(slots')) - Bit(z.sl.permit)
           = Cardinality(With(slots)) - Bit(slots[s].permit)
  BY <1>1, <1>2, PermittedChanges
<1>4. ASSUME NEW u \in Slot PROVE GoodSlot(slots'[u], z.pl.abandoned, T2, A2, u)
  <2>1. CASE u = s
    BY <1>2, <2>1 DEF Good
  <2>2. CASE u # s
    <3>1. GoodSlot(slots[u], pool.abandoned, Task, At, u) /\ slots'[u] = slots[u]
      BY <1>2, <2>2 DEF Lanes
    <3>2. \A o \in Req : A2[o] = u => At[o] = u /\ T2[o] = Task[o]
                         /\ (o \in pool.abandoned => o \in z.pl.abandoned)
      BY <2>2
    <3>3. \A o \in Req : At[o] = u => (A2[o] = u /\ T2[o] = Task[o]) \/ Task[o] = "none"
      BY <2>2
    <3>4. \A o \in Req : o \in Elems(slots[u].lq) <=> T2[o] = "lock" /\ A2[o] = u
      BY <3>1, <3>2, <3>3 DEF GoodSlot
    <3>5. \A o \in Req : slots[u].owner = o =>
             A2[o] = u /\ T2[o] \in Deciding \cup {"done"} /\ (slots[u].permit <=> T2[o] = "done")
      BY <3>1, <3>2, <3>3 DEF GoodSlot, Deciding
    <3>6. \A o \in Req : A2[o] = u /\ T2[o] \in Deciding /\ o \notin z.pl.abandoned
             => slots[u].owner = o
      BY <3>1, <3>2 DEF GoodSlot
    <3> QED
      BY <3>1, <3>4, <3>5, <3>6 DEF GoodSlot
  <2> QED
    BY <2>1, <2>2
<1>5. /\ Total(z.pl) + Cardinality(With(slots')) = Conc
      /\ z.pl.lanes = Cardinality(With(slots'))
  <2>1. /\ Total(pool) \in Int /\ Total(z.pl) \in Int /\ pool.lanes \in Nat /\ z.pl.lanes \in Nat
        /\ Bit(z.sl.permit) \in Nat /\ Bit(slots[s].permit) \in Nat
    BY <1>1, PoolFields DEF Bit
  <2>2. Total(z.pl) + Bit(z.sl.permit) = Total(pool) + Bit(slots[s].permit)
        /\ z.pl.lanes - Bit(z.sl.permit) = pool.lanes - Bit(slots[s].permit)
    BY DEF Sum, Others
  <2>3. /\ Total(pool) + Cardinality(With(slots)) = Conc
        /\ pool.lanes = Cardinality(With(slots)) /\ Conc \in Nat
    BY ConcAssumption DEF Lanes
  <2>4. \A t, u, l, m, b, c, n, k, p \in Int :
          (/\ u + b = t + c /\ m - b = l - c /\ n - b = k - c
           /\ t + k = p /\ l = k)  =>  u + n = p /\ m = n
    OBVIOUS
  <2>5. Cardinality(With(slots)) \in Int /\ Cardinality(With(slots')) \in Int /\ Conc \in Int
    BY <1>3, <2>3
  <2> QED
    BY <1>3, <2>1, <2>2, <2>3, <2>4, <2>5
<1> QED
  BY <1>1, <1>2, <1>4, <1>5 DEF Lanes, Good

-----------------------------------------------------------------------------
(* The inductive invariant.                                                *)
Untasked == \A r \in Req : req[r].pc \in {"idle", "expanding"} => req[r].task = "none"

IInv == TypeOK /\ Lanes(slots, pool, Task, At) /\ Untasked

(* x is what request r's slot s may become: its lanes agree with r's task  *)
(* at x.tk and with r on slot s.                                           *)
Fits(x, r, s) ==
  /\ x \in TaskView
  /\ Good(x, [Task EXCEPT ![r] = x.tk], [At EXCEPT ![r] = s], s)
  /\ Sum(x) = Total(pool) + Bit(slots[s].permit)
  /\ Others(x) = pool.lanes - Bit(slots[s].permit)
  /\ \A o \in Req \ {r} : o \in pool.abandoned => o \in x.pl.abandoned

(* What a request sees of its slot fits the state. *)
LEMMA HereFits ==
  ASSUME IInv, NEW r \in Req, NEW s \in Slot, req[r].at = s \/ req[r].task = "none"
  PROVE  Fits(Here(r, s), r, s)
<1> DEFINE x == Here(r, s)
           T == [Task EXCEPT ![r] = x.tk]
           A == [At EXCEPT ![r] = s]
<1>1. /\ Task \in [Req -> Tasks] /\ At \in [Req -> Slot]
      /\ slots \in [Slot -> SlotState] /\ pool \in PoolState
      /\ Task[r] = req[r].task /\ At[r] = req[r].at
  BY TaskTypes DEF IInv
<1>2. x \in TaskView /\ x.sl = slots[s] /\ x.pl = pool /\ x.tk = Task[r]
  BY <1>1, ViewFields DEF Here
<1> HIDE DEF x
<1>3. T = Task /\ A \in [Req -> Slot] /\ A[r] = s /\ \A o \in Req \ {r} : A[o] = At[o]
  BY <1>1, <1>2
<1>4. GoodSlot(slots[s], pool.abandoned, Task, At, s) /\ GoodPool(pool, Task)
  BY DEF IInv, Lanes
<1>5. GoodSlot(slots[s], pool.abandoned, Task, A, s)
  <2>1. CASE At[r] = s
    <3>1. A = At
      BY <1>1, <2>1
    <3> QED
      BY <1>4, <3>1
  <2>2. CASE Task[r] = "none"
    <3> HIDE DEF A
    <3> QED
      BY <1>3, <1>4, <2>2 DEF GoodSlot, Deciding
  <2> QED
    BY <1>1, <2>1, <2>2
<1>6. Others(x) >= 0
  <2>1. pool.lanes = Cardinality(With(slots)) /\ pool.lanes \in Nat
    BY <1>1, PoolFields DEF IInv, Lanes
  <2>2. slots[s].permit => pool.lanes # 0
    <3>1. IsFiniteSet(With(slots)) /\ (slots[s].permit => With(slots) # {})
      BY FiniteAssumption, FS_Subset DEF With
    <3> QED
      BY <2>1, <3>1, FS_EmptySet
  <2> QED
    BY <1>2, <2>1, <2>2 DEF Others, Bit
<1> QED
  BY <1>2, <1>3, <1>4, <1>5, <1>6 DEF Fits, Good, Sum, Others, x

(* Storing a fitting view keeps the lanes.                                 *)
LEMMA StoreFits ==
  ASSUME IInv, NEW r \in Req, NEW s \in Slot, req[r].at = s \/ req[r].task = "none",
         NEW x, Fits(x, r, s), Store(s, x)
  PROVE  /\ Lanes(slots', pool', [Task EXCEPT ![r] = x.tk], [At EXCEPT ![r] = s])
         /\ slots' \in [Slot -> SlotState] /\ pool' \in PoolState
<1> DEFINE T == [Task EXCEPT ![r] = x.tk]
           A == [At EXCEPT ![r] = s]
<1>1. /\ Task \in [Req -> Tasks] /\ At \in [Req -> Slot]
      /\ slots \in [Slot -> SlotState] /\ pool \in PoolState
      /\ Task[r] = req[r].task /\ At[r] = req[r].at
  BY TaskTypes DEF IInv
<1>2. x \in TaskView /\ x.tk \in Tasks /\ x.sl \in SlotState /\ x.pl \in PoolState
  BY FieldTypes DEF Fits
<1>3. /\ T \in [Req -> Tasks] /\ A \in [Req -> Slot] /\ A[r] = s
      /\ \A o \in Req \ {r} : T[o] = Task[o] /\ A[o] = At[o]
  BY <1>1, <1>2
<1>4. Lanes(slots, pool, Task, At)
  BY DEF IInv
<1>5. /\ \A o \in Req : A[o] # s => /\ A[o] = At[o] /\ T[o] = Task[o]
                                    /\ o \in pool.abandoned => o \in x.pl.abandoned
      /\ \A o \in Req : At[o] # s /\ A[o] = s => Task[o] = "none"
  BY <1>1, <1>3 DEF Fits
<1>6. Good(x, T, A, s) /\ Sum(x) = Total(pool) + Bit(slots[s].permit)
      /\ Others(x) = pool.lanes - Bit(slots[s].permit)
  BY DEF Fits
<1> HIDE DEF T, A
<1> QED
  <2>1. TypeOK /\ Store(s, x)
    BY DEF IInv
  <2> HIDE DEF T, A
  <2>2. Lanes(slots', pool', T, A)
    BY <1>2, <1>3, <1>4, <1>5, <1>6, <2>1, Reassemble
  <2>3. slots' \in [Slot -> SlotState] /\ pool' \in PoolState
    BY <1>1, <1>2, <2>1 DEF Store
  <2> QED
    BY <2>2, <2>3 DEF T, A

(* A view that keeps a fitting one fits. *)
LEMMA KeepsFits ==
  ASSUME IInv, NEW r \in Req, NEW s \in Slot, NEW x, Fits(x, r, s),
         NEW y \in TaskView, y.tk = x.tk, Keeps(x, y),
         \A T \in [Req -> Tasks] : \A A \in [Req -> Slot] :
           Good(x, T, A, s) => Good(y, T, A, s)
  PROVE  Fits(y, r, s)
<1>1. Task \in [Req -> Tasks] /\ At \in [Req -> Slot] /\ x.tk \in Tasks
  BY TaskTypes, FieldTypes DEF IInv, Fits
<1>2. [Task EXCEPT ![r] = x.tk] \in [Req -> Tasks] /\ [At EXCEPT ![r] = s] \in [Req -> Slot]
  BY <1>1
<1>3. Good(y, [Task EXCEPT ![r] = y.tk], [At EXCEPT ![r] = s], s)
  BY <1>2 DEF Fits
<1> QED
  BY <1>3 DEF Fits, Keeps

(* Recovery fits. *)
LEMMA RecoverFits ==
  ASSUME IInv, NEW r \in Req, NEW s \in Slot, NEW x, Fits(x, r, s)
  PROVE  Fits(RecoverLane(x, s), r, s) /\ RecoverLane(x, s).tk = x.tk
<1> DEFINE y == RecoverLane(x, s)
<1>1. /\ Task \in [Req -> Tasks] /\ At \in [Req -> Slot] /\ x.tk \in Tasks /\ x \in TaskView
  BY TaskTypes, FieldTypes DEF IInv, Fits
<1>2. [Task EXCEPT ![r] = x.tk] \in [Req -> Tasks] /\ [At EXCEPT ![r] = s] \in [Req -> Slot]
  BY <1>1
<1>3. \A T \in [Req -> Tasks] : \A A \in [Req -> Slot] : Good(x, T, A, s) =>
        y \in TaskView /\ y.tk = x.tk /\ Good(y, T, A, s) /\ Keeps(x, y)
  BY <1>1, RecoverLaneGood
<1> HIDE DEF y
<1>4. y \in TaskView /\ y.tk = x.tk /\ Keeps(x, y)
  BY <1>2, <1>3 DEF Fits
<1>5. Fits(y, r, s)
  BY <1>3, <1>4, KeepsFits
<1> QED
  BY <1>4, <1>5 DEF y

(* Finalizing fits. *)
LEMMA FinalizeFits ==
  ASSUME IInv, NEW r \in Req, NEW s \in Slot, NEW x, Fits(x, r, s)
  PROVE  Fits(Finalize(x, r), r, s) /\ Finalize(x, r).tk = x.tk
<1> DEFINE y == Finalize(x, r)
<1>1. /\ Task \in [Req -> Tasks] /\ At \in [Req -> Slot] /\ x.tk \in Tasks /\ x \in TaskView
  BY TaskTypes, FieldTypes DEF IInv, Fits
<1>2. [Task EXCEPT ![r] = x.tk] \in [Req -> Tasks] /\ [At EXCEPT ![r] = s] \in [Req -> Slot]
  BY <1>1
<1>3. \A T \in [Req -> Tasks] : \A A \in [Req -> Slot] : Good(x, T, A, s) =>
        y \in TaskView /\ y.tk = x.tk /\ Good(y, T, A, s) /\ Keeps(x, y)
  BY <1>1, FinalizeGood
<1> HIDE DEF y
<1>4. y \in TaskView /\ y.tk = x.tk /\ Keeps(x, y)
  BY <1>2, <1>3 DEF Fits
<1>5. Fits(y, r, s)
  BY <1>3, <1>4, KeepsFits
<1> QED
  BY <1>4, <1>5 DEF y

(* Bookkeeping on the slot fits. *)
LEMMA QuietFits ==
  ASSUME IInv, NEW r \in Req, NEW s \in Slot, NEW x, Fits(x, r, s),
         NEW sl, SameLane(sl, x.sl)
  PROVE  Fits(View(sl, x.pl, x.tk), r, s) /\ View(sl, x.pl, x.tk).tk = x.tk
         /\ View(sl, x.pl, x.tk).sl = sl
<1> DEFINE y == View(sl, x.pl, x.tk)
<1>1. /\ Task \in [Req -> Tasks] /\ At \in [Req -> Slot] /\ x.tk \in Tasks /\ x \in TaskView
      /\ MoreMarked(x.pl, x.pl)
  BY TaskTypes, FieldTypes DEF IInv, Fits, MoreMarked
<1>2. [Task EXCEPT ![r] = x.tk] \in [Req -> Tasks] /\ [At EXCEPT ![r] = s] \in [Req -> Slot]
  BY <1>1
<1>3. \A T \in [Req -> Tasks] : \A A \in [Req -> Slot] : Good(x, T, A, s) =>
        y \in TaskView /\ y.tk = x.tk /\ y.sl = sl /\ Good(y, T, A, s) /\ Keeps(x, y)
  BY <1>1, QuietGood
<1> HIDE DEF y
<1>4. y \in TaskView /\ y.tk = x.tk /\ y.sl = sl /\ Keeps(x, y)
  BY <1>2, <1>3 DEF Fits
<1>5. Fits(y, r, s)
  BY <1>3, <1>4, KeepsFits
<1> QED
  BY <1>4, <1>5 DEF y

(* A request without a task in flight may be unmarked. *)
LEMMA UnmarkFits ==
  ASSUME IInv, NEW r \in Req, NEW s \in Slot, NEW x, Fits(x, r, s), x.tk \notin InFlight
  PROVE  LET y == View(x.sl, [x.pl EXCEPT !.abandoned = @ \ {r}], x.tk) IN
         Fits(y, r, s) /\ y.tk = x.tk
<1> DEFINE pl == [x.pl EXCEPT !.abandoned = @ \ {r}]
           y == View(x.sl, pl, x.tk)
           T == [Task EXCEPT ![r] = x.tk]
           A == [At EXCEPT ![r] = s]
<1>1. /\ Task \in [Req -> Tasks] /\ At \in [Req -> Slot] /\ x \in TaskView
      /\ x.sl \in SlotState /\ x.pl \in PoolState /\ x.tk \in Tasks
  BY TaskTypes, FieldTypes DEF IInv, Fits
<1>2. /\ pl \in PoolState /\ pl.free = x.pl.free /\ pl.sq = x.pl.sq
      /\ pl.sgrant = x.pl.sgrant /\ pl.raw = x.pl.raw /\ pl.lanes = x.pl.lanes
      /\ pl.tasks = x.pl.tasks /\ pl.abandoned = x.pl.abandoned \ {r}
  BY <1>1 DEF PoolState
<1> HIDE DEF pl
<1>3. y \in TaskView /\ y.sl = x.sl /\ y.pl = pl /\ y.tk = x.tk
  BY <1>1, <1>2, ViewFields
<1> HIDE DEF y
<1>4. T[r] = x.tk
  BY <1>1
<1>5. GoodSlot(x.sl, x.pl.abandoned, T, A, s) /\ GoodPool(x.pl, T) /\ Others(x) >= 0
  BY DEF Fits, Good
<1> HIDE DEF T, A
<1>6. GoodSlot(y.sl, y.pl.abandoned, T, A, s)
  BY <1>2, <1>3, <1>4, <1>5 DEF GoodSlot, Deciding, InFlight
<1>7. GoodPool(y.pl, T)
  BY <1>2, <1>3, <1>5 DEF GoodPool, SemOK
<1>8. Sum(y) = Sum(x) /\ Others(y) = Others(x)
  BY <1>2, <1>3 DEF Sum, Others, Total
<1>9. Good(y, [Task EXCEPT ![r] = y.tk], [At EXCEPT ![r] = s], s)
  BY <1>3, <1>5, <1>6, <1>7, <1>8 DEF Good, T, A
<1> QED
  BY <1>2, <1>3, <1>8, <1>9 DEF Fits, y, pl

(* Spawning the acquisition task fits. *)
LEMMA SpawnFits ==
  ASSUME IInv, NEW r \in Req, NEW s \in Slot, NEW x, Fits(x, r, s), x.tk = "none",
         NEW sl, SameLane(sl, x.sl)
  PROVE  LET y == View(sl, x.pl, "spawned") IN Fits(y, r, s) /\ y.tk = "spawned"
<1> DEFINE v == View(sl, x.pl, x.tk)
           y == View(sl, x.pl, "spawned")
           T == [Task EXCEPT ![r] = "none"]
           U == [Task EXCEPT ![r] = "spawned"]
           A == [At EXCEPT ![r] = s]
<1>1. /\ Task \in [Req -> Tasks] /\ At \in [Req -> Slot] /\ x \in TaskView
      /\ sl \in SlotState /\ x.pl \in PoolState /\ "none" \in Tasks /\ "spawned" \in Tasks
  BY TaskTypes, FieldTypes DEF IInv, Fits, SameLane, Tasks
<1>2. Fits(v, r, s)
  BY QuietFits
<1>3. /\ y \in TaskView /\ y.sl = sl /\ y.pl = x.pl /\ y.tk = "spawned"
      /\ v.sl = sl /\ v.pl = x.pl /\ v.tk = "none"
  BY <1>1, ViewFields
<1> HIDE DEF y, v
<1>4. /\ T[r] = "none" /\ U[r] = "spawned" /\ \A o \in Req \ {r} : U[o] = T[o]
      /\ Good(v, T, A, s)
  BY <1>1, <1>2, <1>3 DEF Fits
<1> HIDE DEF T, U, A
<1>5. GoodSlot(y.sl, y.pl.abandoned, U, A, s)
  BY <1>3, <1>4 DEF Good, GoodSlot, Deciding
<1>6. GoodPool(y.pl, U)
  BY <1>3, <1>4 DEF Good, GoodPool, InFlight
<1>7. Sum(y) = Sum(v) /\ Others(y) = Others(v) /\ Others(v) >= 0
  BY <1>3, <1>4 DEF Sum, Others, Good
<1> QED
  BY <1>2, <1>3, <1>5, <1>6, <1>7 DEF Fits, Good, U, A, y

(* Starting the acquisition fits. *)
LEMMA StartFits ==
  ASSUME IInv, NEW r \in Req, NEW s \in Slot, NEW x, Fits(x, r, s), x.tk = "none",
         NEW z \in StartAcquire(x, r)
  PROVE  Fits(z, r, s) /\ z.tk \in InFlight \cup {"done"}
<1> DEFINE A == [At EXCEPT ![r] = s]
<1>1. /\ Task \in [Req -> Tasks] /\ At \in [Req -> Slot] /\ x \in TaskView
  BY TaskTypes DEF IInv, Fits
<1>2. A \in [Req -> Slot] /\ A[r] = s
  BY <1>1
<1>3. Good(x, As(Task, r, "none"), A, s)
  BY DEF Fits, As
<1> HIDE DEF A
<1>4. /\ z \in TaskView /\ Good(z, As(Task, r, z.tk), A, s) /\ Same(x, z, r)
      /\ z.tk \in InFlight \cup {"done"}
  BY <1>1, <1>2, <1>3, StartAcquireGood
<1> QED
  BY <1>4 DEF Fits, Same, As, A

(* A step of the acquisition task fits. *)
LEMMA TaskFits ==
  ASSUME IInv, NEW r \in Req, NEW z \in TaskOutcomes(r)
  PROVE  /\ Fits(z, r, req[r].at) /\ z.tk \in InFlight \cup {"done"}
         /\ req[r].kill => z.tk = "done"
         /\ req[r].task # "none"
<1> DEFINE s == req[r].at
           x == Here(r, s)
<1>1. /\ Task \in [Req -> Tasks] /\ At \in [Req -> Slot] /\ s \in Slot
      /\ req[r].kill \in BOOLEAN /\ At[r] = s /\ Task[r] = req[r].task
      /\ slots[s] \in SlotState /\ pool \in PoolState
  BY TaskTypes DEF IInv, TypeOK
<1>2. Fits(x, r, s)
  BY <1>1, HereFits
<1>3. x \in TaskView /\ x.tk = Task[r] /\ x.sl = slots[s] /\ x.pl = pool
  BY <1>1, ViewFields DEF Here
<1> HIDE DEF x
<1>4. [Task EXCEPT ![r] = x.tk] = Task /\ [At EXCEPT ![r] = s] = At
  BY <1>1, <1>3
<1>5. Good(x, Task, At, s)
  BY <1>2, <1>4 DEF Fits
<1>6. /\ z \in TaskView /\ Good(z, As(Task, r, z.tk), At, s) /\ Same(x, z, r)
      /\ z.tk \in InFlight \cup {"done"}
      /\ req[r].kill => z.tk = "done"
      /\ req[r].task \notin {"none", "done"}
  BY <1>1, <1>3, <1>5, TaskOutcomesGood DEF x
<1>7. Fits(z, r, s)
  BY <1>2, <1>3, <1>4, <1>6 DEF Fits, Same, As
<1> QED
  BY <1>6, <1>7

-----------------------------------------------------------------------------
(* A step of request r that stores a fitting view of its slot.             *)
ReqState == [pc : PCs, at : Slot, task : Tasks, kill : BOOLEAN, cancel : BOOLEAN]

(* A request that stores a fitting view keeps the inductive invariant. *)
LEMMA Moves ==
  ASSUME IInv, NEW r \in Req, NEW s \in Slot, req[r].at = s \/ req[r].task = "none",
         NEW x, Fits(x, r, s), Store(s, x),
         NEW q \in ReqState, q.at = s, q.task = x.tk,
         q.pc \in {"idle", "expanding"} => q.task = "none",
         req' = [req EXCEPT ![r] = q], active' \in [Slot -> SUBSET Req]
  PROVE  IInv'
<1>1. /\ Lanes(slots', pool', [Task EXCEPT ![r] = x.tk], [At EXCEPT ![r] = s])
      /\ slots' \in [Slot -> SlotState] /\ pool' \in PoolState
  BY StoreFits
<1>2. req \in [Req -> ReqState]
  BY DEF IInv, TypeOK, ReqState
<1>3. req' \in [Req -> ReqState] /\ req'[r] = q /\ \A o \in Req \ {r} : req'[o] = req[o]
  BY <1>2
<1>4. Task' = [Task EXCEPT ![r] = x.tk]
  BY <1>2, <1>3 DEF Task
<1>5. At' = [At EXCEPT ![r] = s]
  BY <1>2, <1>3 DEF At
<1>6. Lanes(slots, pool, Task, At)'
  BY <1>1, <1>4, <1>5
<1>7. Untasked'
  BY <1>3 DEF IInv, Untasked
<1>8. TypeOK'
  BY <1>1, <1>3 DEF TypeOK, ReqState
<1> QED
  BY <1>6, <1>7, <1>8 DEF IInv

(* A step of request r that touches neither slots nor pool.                *)
LEMMA Stays ==
  ASSUME IInv, NEW r \in Req, NEW q \in ReqState,
         q.at = req[r].at \/ req[r].task = "none", q.task = req[r].task,
         q.pc \in {"idle", "expanding"} => q.task = "none",
         req' = [req EXCEPT ![r] = q], UNCHANGED <<slots, pool>>,
         active' \in [Slot -> SUBSET Req]
  PROVE  IInv'
<1> DEFINE s == q.at
           x == Here(r, s)
<1>1. s \in Slot /\ (req[r].at = s \/ req[r].task = "none")
  BY DEF ReqState
<1>2. Fits(x, r, s)
  BY <1>1, HereFits
<1>3. x.sl = slots[s] /\ x.pl = pool /\ x.tk = req[r].task
  BY DEF Here, View
<1>4. slots = [slots EXCEPT ![s] = slots[s]]
  BY <1>1 DEF IInv, TypeOK
<1>5. Store(s, x)
  BY <1>3, <1>4 DEF Store
<1> HIDE DEF x
<1> QED
  BY <1>1, <1>2, <1>3, <1>5, Moves

-----------------------------------------------------------------------------
(* The actions.                                                            *)
LEMMA ReqFacts ==
  ASSUME IInv, NEW r \in Req
  PROVE  /\ req[r] \in ReqState /\ req[r].at \in Slot /\ req[r].task \in Tasks
         /\ req \in [Req -> ReqState] /\ active \in [Slot -> SUBSET Req]
BY DEF IInv, TypeOK, ReqState

(* Moving on with a fitting view keeps the inductive invariant. *)
LEMMA MoveInv ==
  ASSUME IInv, NEW r \in Req, NEW x, Fits(x, r, req[r].at), Store(req[r].at, x),
         NEW p \in PCs \ {"idle", "expanding"}, Move(r, p, x),
         active' \in [Slot -> SUBSET Req]
  PROVE  IInv'
<1> DEFINE q == [req[r] EXCEPT !.pc = p, !.task = x.tk]
<1>1. req[r] \in ReqState /\ req[r].at \in Slot /\ x.tk \in Tasks
  BY ReqFacts, FieldTypes DEF Fits
<1>2. q \in ReqState /\ q.at = req[r].at /\ q.task = x.tk /\ q.pc = p
  BY <1>1 DEF ReqState
<1>3. req' = [req EXCEPT ![r] = q]
  BY DEF Move
<1> HIDE DEF q
<1> QED
  BY <1>1, <1>2, <1>3, Moves

(* Handing the request to the worker keeps the inductive invariant. *)
LEMMA ToWorkerInv ==
  ASSUME IInv, NEW r \in Req, NEW x, Fits(x, r, req[r].at), ToWorker(r, req[r].at, x)
  PROVE  IInv'
<1>1. active' \in [Slot -> SUBSET Req] /\ Store(req[r].at, x)
  BY ReqFacts DEF ToWorker
<1>2. \E p \in {"running", "handed"} : Move(r, p, x)
  BY DEF ToWorker
<1> QED
  BY <1>1, <1>2, MoveInv DEF PCs

(* Leaving the lease keeps the inductive invariant. *)
LEMMA LeaveInv ==
  ASSUME IInv, NEW r \in Req, NEW x, Fits(x, r, req[r].at),
         req[r].pc = "acquiring" => x.tk = "done",
         Leave(r, req[r].at, x), active' \in [Slot -> SUBSET Req]
  PROVE  IInv'
<1> DEFINE s == req[r].at
           y == Finalize(x, r)
           slow == x.tk # "none" /\ req[r].pc # "acquiring"
           u == View(y.sl, [y.pl EXCEPT !.abandoned = @ \ {r}], y.tk)
           z == IF slow THEN y ELSE u
           q == [req[r] EXCEPT !.pc = IF slow THEN "closing" ELSE "done",
                               !.task = x.tk, !.kill = slow /\ x.tk # "done"]
<1>1. req[r] \in ReqState /\ s \in Slot /\ x.tk \in Tasks
  BY ReqFacts, FieldTypes DEF Fits
<1>2. Fits(y, r, s) /\ y.tk = x.tk
  BY <1>1, FinalizeFits
<1>3. Store(s, z) /\ req' = [req EXCEPT ![r] = q]
  BY DEF Leave
<1>4. q \in ReqState /\ q.at = s /\ q.task = x.tk /\ q.pc \in {"closing", "done"}
  BY <1>1 DEF ReqState, PCs
<1> HIDE DEF y, q
<1>5. Fits(z, r, s) /\ z.tk = x.tk
  <2>1. CASE slow
    BY <1>2, <2>1
  <2>2. CASE ~slow
    <3>1. y.tk \notin InFlight
      BY <1>2, <2>2 DEF InFlight
    <3>2. Fits(u, r, s) /\ u.tk = y.tk
      BY <1>1, <1>2, <3>1, UnmarkFits
    <3> QED
      BY <1>2, <2>2, <3>2
  <2> QED
    BY <2>1, <2>2
<1> HIDE DEF z
<1> QED
  BY <1>1, <1>3, <1>4, <1>5, Moves

(* Entering the pool keeps the inductive invariant. *)
LEMMA EnterInv ==
  ASSUME IInv, NEW r \in Req, NEW s \in Slot, req[r].pc \in {"idle", "expanding"},
         Enter(r, s)
  PROVE  IInv'
<1> DEFINE x == RecoverLane(Here(r, s), s)
           sl == [x.sl EXCEPT !.leases = @ + 1]
           y == View(sl, x.pl, x.tk)
           sq == [y.sl EXCEPT !.queued = @ \cup {r}]
           v == View(sq, y.pl, "spawned")
           q == RecoverLane(v, s)
<1>1. /\ req[r] \in ReqState /\ active \in [Slot -> SUBSET Req] /\ req[r].task = "none"
  BY ReqFacts DEF IInv, Untasked
<1>2. Fits(Here(r, s), r, s) /\ Here(r, s).tk = "none"
  BY <1>1, HereFits DEF Here, View
<1>3. Fits(x, r, s) /\ x.tk = "none"
  BY <1>2, RecoverFits
<1> HIDE DEF x
<1>4. SameLane(sl, x.sl)
  <2>1. x.sl \in SlotState /\ x.sl.leases + 1 \in Nat
    BY <1>3, FieldTypes DEF Fits, SlotState
  <2> QED
    BY <2>1 DEF SameLane, SlotState
<1> HIDE DEF sl
<1>5. Fits(y, r, s) /\ y.tk = "none" /\ y.sl = sl
  BY <1>3, <1>4, QuietFits
<1> HIDE DEF y
<1>6. SameLane(sq, y.sl)
  BY <1>5, FieldTypes DEF Fits, SameLane, SlotState
<1> HIDE DEF sq
<1>7. Fits(v, r, s) /\ v.tk = "spawned"
  BY <1>5, <1>6, SpawnFits
<1> HIDE DEF v
<1>8. Fits(q, r, s) /\ q.tk = "spawned"
  BY <1>7, RecoverFits
<1> HIDE DEF q
<1>9. ASSUME NEW p \in PCs \ {"idle", "expanding"}, NEW z, Fits(z, r, s), Store(s, z),
             req' = [req EXCEPT ![r].at = s, ![r].pc = p, ![r].task = z.tk],
             active' \in [Slot -> SUBSET Req]
      PROVE  IInv'
  <2> DEFINE new == [req[r] EXCEPT !.at = s, !.pc = p, !.task = z.tk]
  <2>1. z.tk \in Tasks
    BY <1>9, FieldTypes DEF Fits
  <2>2. new \in ReqState /\ new.at = s /\ new.task = z.tk /\ new.pc = p
    BY <1>1, <2>1 DEF ReqState
  <2>3. req' = [req EXCEPT ![r] = new]
    BY <1>9
  <2>4. Fits(z, r, s) /\ Store(s, z) /\ active' \in [Slot -> SUBSET Req]
        /\ (req[r].at = s \/ req[r].task = "none") /\ new.pc \notin {"idle", "expanding"}
    BY <1>1, <1>9, <2>2
  <2> HIDE DEF new
  <2> QED
    BY <2>2, <2>3, <2>4, Moves
<1>10. CASE /\ MustWait(y) /\ TotalQueued(y, s) >= MaxQueued
            /\ Store(s, x) /\ UNCHANGED active
            /\ req' = [req EXCEPT ![r].at = s, ![r].pc = "done", ![r].task = x.tk]
  BY <1>1, <1>3, <1>9, <1>10 DEF PCs
<1>11. CASE /\ MustWait(y) /\ TotalQueued(y, s) < MaxQueued
            /\ Store(s, q) /\ UNCHANGED active
            /\ req' = [req EXCEPT ![r].at = s, ![r].pc = "waiting", ![r].task = q.tk]
  BY <1>1, <1>8, <1>9, <1>11 DEF PCs
<1>12. CASE /\ ~MustWait(y)
            /\ \E z \in StartAcquire(y, r) :
                 /\ Store(s, z) /\ active' \in [Slot -> SUBSET Req]
                 /\ \E p \in {"acquiring", "running", "handed"} :
                      req' = [req EXCEPT ![r].at = s, ![r].pc = p, ![r].task = z.tk]
  <2>1. PICK z \in StartAcquire(y, r) :
          /\ Store(s, z) /\ active' \in [Slot -> SUBSET Req]
          /\ \E p \in {"acquiring", "running", "handed"} :
               req' = [req EXCEPT ![r].at = s, ![r].pc = p, ![r].task = z.tk]
    BY <1>12
  <2>2. Fits(z, r, s)
    BY <1>5, StartFits
  <2> QED
    BY <1>9, <2>1, <2>2 DEF PCs
<1> QED
  <2>1. active' \in [Slot -> SUBSET Req]
    BY <1>1 DEF Enter
  <2> QED
    BY <1>10, <1>11, <1>12, <2>1 DEF Enter, x, y, sl, sq, v, q

(* Arrive keeps the inductive invariant. *)
LEMMA ArriveInv ==
  ASSUME IInv, NEW r \in Req, Arrive(r)
  PROVE  IInv'
<1>1. req[r] \in ReqState /\ active \in [Slot -> SUBSET Req] /\ req[r].pc = "idle"
      /\ req[r].task = "none"
  BY ReqFacts DEF Arrive, IInv, Untasked
<1>2. PICK s \in Slot :
        \/ Enter(r, s)
        \/ /\ req' = [req EXCEPT ![r].pc = "expanding", ![r].at = s]
           /\ UNCHANGED <<slots, pool, active>>
  BY DEF Arrive, Pick
<1>3. CASE Enter(r, s)
  BY <1>1, <1>3, EnterInv
<1>4. CASE /\ req' = [req EXCEPT ![r].pc = "expanding", ![r].at = s]
           /\ UNCHANGED <<slots, pool, active>>
  <2> DEFINE q == [req[r] EXCEPT !.pc = "expanding", !.at = s]
  <2>1. q \in ReqState /\ q.at = s /\ q.task = "none"
    BY <1>1 DEF ReqState, PCs
  <2>2. req' = [req EXCEPT ![r] = q]
    BY <1>4
  <2> HIDE DEF q
  <2> QED
    BY <1>1, <1>4, <2>1, <2>2, Stays
<1> QED
  BY <1>2, <1>3, <1>4

(* Expanded keeps the inductive invariant. *)
LEMMA ExpandedInv ==
  ASSUME IInv, NEW r \in Req, Expanded(r)
  PROVE  IInv'
<1>1. PICK s \in Slot : Enter(r, s)
  BY ReqFacts DEF Expanded, Pick
<1> QED
  BY <1>1, EnterInv DEF Expanded

(* TaskStep keeps the inductive invariant. *)
LEMMA TaskStepInv ==
  ASSUME IInv, NEW r \in Req, TaskStep(r)
  PROVE  IInv'
<1>1. req[r] \in ReqState /\ active \in [Slot -> SUBSET Req] /\ req[r].at \in Slot
  BY ReqFacts
<1>2. PICK x \in TaskOutcomes(r) :
        IF req[r].pc # "acquiring"
          THEN /\ Store(req[r].at, x)
               /\ req' = [req EXCEPT ![r].task = x.tk, ![r].kill = @ /\ x.tk # "done"]
               /\ UNCHANGED active
        ELSE IF req[r].kill THEN Leave(r, req[r].at, x) /\ UNCHANGED active
        ELSE IF x.tk = "done" THEN ToWorker(r, req[r].at, x)
        ELSE /\ Store(req[r].at, x) /\ Move(r, "acquiring", x) /\ UNCHANGED active
  BY DEF TaskStep
<1>3. /\ Fits(x, r, req[r].at) /\ (req[r].kill => x.tk = "done")
      /\ req[r].task # "none" /\ x.tk \in Tasks
  BY TaskFits DEF InFlight, Tasks
<1>4. CASE req[r].pc # "acquiring"
  <2> DEFINE q == [req[r] EXCEPT !.task = x.tk, !.kill = @ /\ x.tk # "done"]
  <2>1. q \in ReqState /\ q.at = req[r].at /\ q.task = x.tk /\ q.pc = req[r].pc
    BY <1>1, <1>3 DEF ReqState
  <2>2. Store(req[r].at, x) /\ req' = [req EXCEPT ![r] = q] /\ UNCHANGED active
    BY <1>2, <1>4
  <2>3. q.pc \notin {"idle", "expanding"}
    BY <1>3, <2>1 DEF IInv, Untasked
  <2> HIDE DEF q
  <2> QED
    BY <1>1, <1>3, <2>1, <2>2, <2>3, Moves
<1>5. CASE req[r].pc = "acquiring" /\ req[r].kill
  BY <1>1, <1>2, <1>3, <1>5, LeaveInv
<1>6. CASE req[r].pc = "acquiring" /\ ~req[r].kill /\ x.tk = "done"
  BY <1>2, <1>3, <1>6, ToWorkerInv
<1>7. CASE req[r].pc = "acquiring" /\ ~req[r].kill /\ x.tk # "done"
  BY <1>1, <1>2, <1>3, <1>7, MoveInv DEF PCs
<1> QED
  BY <1>4, <1>5, <1>6, <1>7

(* What a request sees of its slot now fits. *)
LEMMA HereNow ==
  ASSUME IInv, NEW r \in Req
  PROVE  /\ Fits(Here(r, req[r].at), r, req[r].at)
         /\ Here(r, req[r].at).tk = req[r].task
BY ReqFacts, HereFits DEF Here, View

(* What follows the acquisition keeps the inductive invariant. *)
LEMMA AfterAcquireInv ==
  ASSUME IInv, NEW r \in Req, req[r].pc \in {"waiting", "beat"}, AfterAcquire(r)
  PROVE  IInv'
<1> DEFINE s == req[r].at
           x == Here(r, s)
           sl == Dequeued(x.sl, r)
           y == View(sl, x.pl, x.tk)
<1>1. active \in [Slot -> SUBSET Req] /\ Fits(x, r, s) /\ s \in Slot
  BY ReqFacts, HereNow
<1>2. IF x.sl.owner # r THEN Leave(r, s, x) /\ UNCHANGED active
      ELSE IF req[r].cancel
        THEN Store(s, y) /\ Move(r, "ownedYield", y) /\ UNCHANGED active
      ELSE ToWorker(r, s, y)
  BY DEF AfterAcquire
<1> HIDE DEF x
<1>3. SameLane(sl, x.sl)
  BY <1>1, FieldTypes DEF Fits, SameLane, SlotState, Dequeued
<1> HIDE DEF sl
<1>4. Fits(y, r, s)
  BY <1>1, <1>3, QuietFits
<1> HIDE DEF y
<1>5. CASE Leave(r, s, x) /\ UNCHANGED active
  BY <1>1, <1>5, LeaveInv
<1>6. CASE Store(s, y) /\ Move(r, "ownedYield", y) /\ UNCHANGED active
  BY <1>1, <1>4, <1>6, MoveInv DEF PCs
<1>7. CASE ToWorker(r, s, y)
  BY <1>4, <1>7, ToWorkerInv
<1> QED
  BY <1>2, <1>5, <1>6, <1>7

(* The program counter or a flag of one request changes, nothing else.     *)
LEMMA FlagInv ==
  ASSUME IInv, NEW r \in Req, NEW p \in PCs, NEW k \in BOOLEAN, NEW c \in BOOLEAN,
         p \in {"idle", "expanding"} => req[r].task = "none",
         req' = [req EXCEPT ![r].pc = p, ![r].kill = k, ![r].cancel = c],
         UNCHANGED <<slots, pool>>, active' \in [Slot -> SUBSET Req]
  PROVE  IInv'
<1> DEFINE q == [req[r] EXCEPT !.pc = p, !.kill = k, !.cancel = c]
<1>1. req[r] \in ReqState
  BY ReqFacts
<1>2. q \in ReqState /\ q.at = req[r].at /\ q.task = req[r].task /\ q.pc = p
  BY <1>1 DEF ReqState
<1>3. req' = [req EXCEPT ![r] = q]
  OBVIOUS
<1> HIDE DEF q
<1> QED
  BY <1>2, <1>3, Stays

(* The client's steps keep the inductive invariant. *)
LEMMA ClientInv ==
  ASSUME IInv, NEW r \in Req, Client(r)
  PROVE  IInv'
<1> DEFINE s == req[r].at
           x == Here(r, s)
<1>1. /\ req[r] \in ReqState /\ active \in [Slot -> SUBSET Req] /\ s \in Slot
      /\ Fits(x, r, s) /\ x.tk = req[r].task
  BY ReqFacts, HereNow
<1>2. req[r].kill \in BOOLEAN /\ req[r].cancel \in BOOLEAN /\ req[r].pc \in PCs
  BY <1>1 DEF ReqState
<1>3. CASE Arrive(r)
  BY <1>3, ArriveInv
<1>4. CASE Cancel(r)
  <2>1. req' = [req EXCEPT ![r].pc = req[r].pc, ![r].kill = req[r].kill, ![r].cancel = TRUE]
    BY <1>4, ReqFacts DEF Cancel, ReqState
  <2>2. req[r].pc \in {"idle", "expanding"} => req[r].task = "none"
    BY DEF IInv, Untasked
  <2> QED
    BY <1>1, <1>2, <1>4, <2>1, <2>2, FlagInv DEF Cancel
<1>5. CASE Disconnect(r)
  <2>1. CASE Leave(r, s, x) /\ req[r].pc = "waiting" /\ UNCHANGED active
    BY <1>1, <2>1, LeaveInv
  <2>2. CASE /\ req[r].pc = "expanding" /\ req' = [req EXCEPT ![r].pc = "done"]
             /\ UNCHANGED <<slots, pool, active>>
    <3>1. req' = [req EXCEPT ![r].pc = "done", ![r].kill = req[r].kill,
                             ![r].cancel = req[r].cancel]
      BY <2>2, ReqFacts DEF ReqState
    <3> QED
      BY <1>1, <1>2, <2>2, <3>1, FlagInv DEF PCs
  <2>3. CASE /\ req[r].pc = "acquiring" /\ req' = [req EXCEPT ![r].kill = TRUE]
             /\ UNCHANGED <<slots, pool, active>>
    <3>1. req' = [req EXCEPT ![r].pc = "acquiring", ![r].kill = TRUE,
                             ![r].cancel = req[r].cancel]
      BY <2>3, ReqFacts DEF ReqState
    <3> QED
      BY <1>1, <1>2, <2>3, <3>1, FlagInv DEF PCs
  <2> QED
    BY <1>5, <2>1, <2>2, <2>3 DEF Disconnect
<1>6. CASE QueueTimeout(r)
  <2>1. /\ Leave(r, s, RecoverLane(x, s)) /\ req[r].pc = "beat" /\ UNCHANGED active
    BY <1>6 DEF QueueTimeout
  <2> HIDE DEF x
  <2>2. Fits(RecoverLane(x, s), r, s)
    BY <1>1, RecoverFits
  <2> QED
    BY <1>1, <2>1, <2>2, LeaveInv
<1>7. CASE Heartbeat(r)
  <2>1. req' = [req EXCEPT ![r].pc = "beat", ![r].kill = req[r].kill,
                           ![r].cancel = req[r].cancel]
    BY <1>7, ReqFacts DEF Heartbeat, ReqState
  <2> QED
    BY <1>1, <1>2, <1>7, <2>1, FlagInv DEF Heartbeat, PCs
<1> QED
  BY <1>3, <1>4, <1>5, <1>6, <1>7 DEF Client

(* Join keeps the inductive invariant. *)
LEMMA JoinInv ==
  ASSUME IInv, NEW r \in Req, Join(r)
  PROVE  IInv'
<1> DEFINE s == req[r].at
           x == Here(r, s)
           u == View(x.sl, [x.pl EXCEPT !.abandoned = @ \ {r}], x.tk)
           z == IF r \in pool.tasks THEN x ELSE u
<1>1. /\ req[r] \in ReqState /\ active \in [Slot -> SUBSET Req] /\ s \in Slot
      /\ Fits(x, r, s) /\ x.tk = req[r].task /\ x.sl = slots[s] /\ x.pl = pool
  BY ReqFacts, HereNow DEF Here, View
<1>2. slots = [slots EXCEPT ![s] = slots[s]]
  BY <1>1 DEF IInv, TypeOK
<1>3. /\ pool' = IF r \in pool.tasks THEN pool ELSE [pool EXCEPT !.abandoned = @ \ {r}]
      /\ req' = [req EXCEPT ![r].pc = "done"] /\ UNCHANGED <<slots, active>>
  BY DEF Join
<1>4. u.sl = slots[s] /\ u.pl = [pool EXCEPT !.abandoned = @ \ {r}] /\ u.tk = x.tk
  BY <1>1 DEF View
<1>5. r \notin pool.tasks => Fits(u, r, s)
  <2>1. r \notin pool.tasks => x.tk \notin InFlight
    BY <1>1, TaskTypes DEF IInv, Lanes, GoodPool
  <2> HIDE DEF x
  <2> QED
    BY <1>1, <2>1, UnmarkFits
<1>6. Fits(z, r, s) /\ z.tk = req[r].task
  BY <1>1, <1>4, <1>5
<1>7. Store(s, z)
  BY <1>1, <1>2, <1>3, <1>4 DEF Store
<1> HIDE DEF z
<1>8. Move(r, "done", z)
  BY <1>1, <1>3, <1>6, ReqFacts DEF Move, ReqState
<1> QED
  BY <1>1, <1>3, <1>6, <1>7, <1>8, MoveInv DEF PCs

(* The steps of the event loop keep the inductive invariant. *)
LEMMA LoopInv ==
  ASSUME IInv, NEW r \in Req, Loop(r)
  PROVE  IInv'
<1> DEFINE s == req[r].at
           x == Here(r, s)
<1>1. /\ req[r] \in ReqState /\ active \in [Slot -> SUBSET Req] /\ s \in Slot
      /\ Fits(x, r, s) /\ x.tk = req[r].task
  BY ReqFacts, HereNow
<1>2. req[r].kill \in BOOLEAN /\ req[r].cancel \in BOOLEAN /\ req[r].pc \in PCs
  BY <1>1 DEF ReqState
<1>3. CASE Expanded(r)
  BY <1>3, ExpandedInv
<1>4. CASE TaskStep(r)
  BY <1>4, TaskStepInv
<1>5. CASE WaitReturns(r)
  <2>1. CASE /\ req' = [req EXCEPT ![r].pc = "cancelYield"]
             /\ UNCHANGED <<slots, pool, active>>
    <3>1. req' = [req EXCEPT ![r].pc = "cancelYield", ![r].kill = req[r].kill,
                             ![r].cancel = req[r].cancel]
      BY <2>1, ReqFacts DEF ReqState
    <3> QED
      BY <1>1, <1>2, <2>1, <3>1, FlagInv DEF PCs
  <2>2. CASE AfterAcquire(r) /\ req[r].pc = "waiting"
    BY <2>2, AfterAcquireInv
  <2> QED
    BY <1>5, <2>1, <2>2 DEF WaitReturns
<1>6. CASE BeatResumes(r)
  <2>1. CASE AfterAcquire(r) /\ req[r].pc = "beat"
    BY <2>1, AfterAcquireInv
  <2>2. CASE /\ Store(s, RecoverLane(x, s)) /\ Move(r, "waiting", RecoverLane(x, s))
             /\ UNCHANGED active
    <3> HIDE DEF x
    <3>1. Fits(RecoverLane(x, s), r, s)
      BY <1>1, RecoverFits
    <3> QED
      BY <1>1, <2>2, <3>1, MoveInv DEF PCs
  <2> QED
    BY <1>6, <2>1, <2>2 DEF BeatResumes
<1>7. CASE Finish(r) \/ Close(r)
  <2>1. Leave(r, s, x) /\ req[r].pc # "acquiring" /\ active' \in [Slot -> SUBSET Req]
    BY <1>1, <1>7 DEF Finish, Close
  <2> QED
    BY <1>1, <2>1, LeaveInv
<1>8. CASE Drain(r)
  <2>1. UNCHANGED <<slots, pool, req>> /\ active' \in [Slot -> SUBSET Req]
    BY <1>1, <1>8 DEF Drain
  <2> QED
    BY <2>1 DEF IInv, TypeOK, Untasked, Task, At
<1>9. CASE WorkerAdmits(r)
  BY <1>1, <1>9, ToWorkerInv DEF WorkerAdmits
<1>10. CASE Join(r)
  BY <1>10, JoinInv
<1> QED
  BY <1>3, <1>4, <1>5, <1>6, <1>7, <1>8, <1>9, <1>10 DEF Loop

(* The polls: no task moves.                                               *)
LEMMA SeenGood ==
  ASSUME IInv, NEW s \in Slot
  PROVE  /\ Seen(s) \in TaskView /\ Good(Seen(s), Task, At, s)
         /\ Seen(s).sl = slots[s] /\ Seen(s).pl = pool
         /\ Sum(Seen(s)) = Total(pool) + Bit(slots[s].permit)
         /\ Others(Seen(s)) = pool.lanes - Bit(slots[s].permit)
<1> DEFINE x == Seen(s)
<1>1. /\ Task \in [Req -> Tasks] /\ At \in [Req -> Slot]
      /\ slots \in [Slot -> SlotState] /\ pool \in PoolState
  BY TaskTypes DEF IInv
<1>2. x \in TaskView /\ x.sl = slots[s] /\ x.pl = pool
  BY <1>1, ViewFields DEF Seen, Tasks
<1>3. GoodSlot(slots[s], pool.abandoned, Task, At, s) /\ GoodPool(pool, Task)
  BY DEF IInv, Lanes
<1>4. pool.lanes = Cardinality(With(slots)) /\ pool.lanes \in Nat
  BY <1>1, PoolFields DEF IInv, Lanes
<1>5. slots[s].permit => pool.lanes # 0
  <2>1. IsFiniteSet(With(slots)) /\ (slots[s].permit => With(slots) # {})
    BY FiniteAssumption, FS_Subset DEF With
  <2> QED
    BY <1>4, <2>1, FS_EmptySet
<1> HIDE DEF x
<1>6. Others(x) >= 0
  BY <1>2, <1>4, <1>5 DEF Others, Bit
<1> QED
  BY <1>2, <1>3, <1>6 DEF Good, Sum, Others, x

(* A poll that keeps the slot good keeps the inductive invariant. *)
LEMMA PollStores ==
  ASSUME IInv, NEW s \in Slot, NEW z \in TaskView, Keeps(Seen(s), z), Good(z, Task, At, s),
         Store(s, z), UNCHANGED <<req, active>>
  PROVE  IInv'
<1>1. /\ Task \in [Req -> Tasks] /\ At \in [Req -> Slot]
  BY TaskTypes DEF IInv
<1>2. /\ Seen(s).pl = pool /\ Sum(Seen(s)) = Total(pool) + Bit(slots[s].permit)
      /\ Others(Seen(s)) = pool.lanes - Bit(slots[s].permit)
  BY SeenGood
<1>3. /\ Sum(z) = Total(pool) + Bit(slots[s].permit)
      /\ Others(z) = pool.lanes - Bit(slots[s].permit)
      /\ pool.abandoned \subseteq z.pl.abandoned
  BY <1>2 DEF Keeps
<1>4. /\ Lanes(slots', pool', Task, At)
      /\ slots' \in [Slot -> SlotState] /\ pool' \in PoolState
  <2>1. TypeOK /\ Lanes(slots, pool, Task, At)
    BY DEF IInv
  <2> QED
    BY <1>1, <1>3, <2>1, Reassemble
<1>5. Task' = Task /\ At' = At
  BY DEF Task, At
<1>6. TypeOK' /\ Untasked'
  BY <1>4 DEF IInv, TypeOK, Untasked
<1> QED
  BY <1>4, <1>5, <1>6 DEF IInv

(* The polls keep the inductive invariant. *)
LEMMA PollInv ==
  ASSUME IInv, NEW s \in Slot, Poll(s)
  PROVE  IInv'
<1> DEFINE x == Seen(s)
<1>1. /\ Task \in [Req -> Tasks] /\ At \in [Req -> Slot]
      /\ slots \in [Slot -> SlotState]
  BY TaskTypes DEF IInv
<1>2. x \in TaskView /\ Good(x, Task, At, s) /\ x.sl = slots[s] /\ x.pl = pool
  BY SeenGood
<1>3. CASE StatusPoll(s)
  <2> DEFINE z == RecoverSlotState(x, s)
  <2>1. Store(s, z) /\ UNCHANGED <<req, active>>
    BY <1>3 DEF StatusPoll
  <2>2. z \in TaskView /\ Good(z, Task, At, s) /\ Keeps(x, z)
    BY <1>1, <1>2, RecoverSlotStateGood
  <2> HIDE DEF z
  <2> QED
    BY <2>1, <2>2, PollStores
<1>4. CASE CapacityCheck(s)
  <2> DEFINE z == RecoverLane(x, s)
  <2>1. Store(s, z) /\ UNCHANGED <<req, active>>
    BY <1>4 DEF CapacityCheck
  <2>2. z \in TaskView /\ Good(z, Task, At, s) /\ Keeps(x, z)
    BY <1>1, <1>2, RecoverLaneGood
  <2> HIDE DEF z
  <2> QED
    BY <2>1, <2>2, PollStores
<1>5. CASE GraceElapses(s)
  <2> DEFINE sl == [slots[s] EXCEPT !.aged = TRUE]
             z == View(sl, pool, "none")
  <2>1. slots' = [slots EXCEPT ![s] = sl] /\ UNCHANGED <<pool, req, active>>
    BY <1>5 DEF GraceElapses
  <2>2. SameLane(sl, x.sl) /\ MoreMarked(pool, x.pl) /\ "none" \in Tasks
    BY <1>1, <1>2, FieldTypes DEF SameLane, MoreMarked, SlotState, Tasks
  <2> HIDE DEF sl, x
  <2>3. z \in TaskView /\ z.sl = sl /\ z.pl = pool /\ Good(z, Task, At, s) /\ Keeps(x, z)
    BY <1>1, <1>2, <2>2, QuietGood
  <2> HIDE DEF z
  <2>4. Store(s, z)
    BY <2>1, <2>3 DEF Store
  <2> QED
    BY <2>1, <2>3, <2>4, PollStores DEF x
<1> QED
  BY <1>3, <1>4, <1>5 DEF Poll

-----------------------------------------------------------------------------

(* The inductive invariant holds at start-up. *)
LEMMA InitInv == Init => IInv
<1> SUFFICES ASSUME Init PROVE IInv
  OBVIOUS
<1>1. /\ slots = [s \in Slot |-> Idle] /\ active = [s \in Slot |-> {}]
      /\ pool = [free |-> Conc, sq |-> <<>>, sgrant |-> {}, raw |-> {}, lanes |-> 0,
                 abandoned |-> {}, tasks |-> {}]
  BY DEF Init
<1> DEFINE fresh == [pc |-> "idle", at |-> CHOOSE s \in Slot : TRUE,
                     task |-> "none", kill |-> FALSE, cancel |-> FALSE]
<1>8. req = [r \in Req |-> fresh]
  BY DEF Init
<1>9. fresh \in ReqState /\ fresh.pc = "idle" /\ fresh.task = "none"
  BY SlotAssumption DEF ReqState, PCs, Tasks
<1> HIDE DEF fresh
<1>2. \A r \in Req : req[r] = fresh
  BY <1>8
<1>3. TypeOK
  <2>1. Idle \in SlotState /\ pool \in PoolState
    BY <1>1, ConcAssumption DEF Idle, SlotState, PoolState
  <2>2. req \in [Req -> ReqState]
    BY <1>8, <1>9
  <2> QED
    BY <1>1, <2>1, <2>2 DEF TypeOK, ReqState
<1>4. Untasked /\ \A r \in Req : Task[r] = "none"
  BY <1>2, <1>9 DEF Untasked, Task
<1>5. ASSUME NEW u \in Slot PROVE GoodSlot(slots[u], pool.abandoned, Task, At, u)
  <2>1. slots[u] = Idle /\ Idle \in SlotState
    BY <1>1, <1>3 DEF TypeOK
  <2>2. /\ Idle.lq = <<>> /\ Idle.lgrant = {} /\ ~Idle.held /\ Idle.owner = None
        /\ ~Idle.permit
    BY DEF Idle
  <2>3. LockOK(Idle)
    BY <2>2 DEF LockOK, NoDup, Elems
  <2> QED
    BY <1>4, <2>1, <2>2, <2>3, NoneAssumption DEF GoodSlot, Elems, Deciding
<1>6. GoodPool(pool, Task)
  <2>1. pool.sq = <<>> /\ pool.sgrant = {} /\ pool.raw = {} /\ pool.tasks = {}
    BY <1>1
  <2> QED
    BY <1>3, <1>4, <2>1 DEF GoodPool, SemOK, NoDup, Elems, InFlight, TypeOK
<1>7. With(slots) = {} /\ Total(pool) = Conc /\ pool.lanes = 0
  BY <1>1, FS_EmptySet, ConcAssumption DEF With, Idle, Total
<1> QED
  BY <1>3, <1>4, <1>5, <1>6, <1>7, FS_EmptySet, ConcAssumption DEF IInv, Lanes, TypeOK

(* Every step keeps the inductive invariant. *)
LEMMA NextInv == IInv /\ [Next]_vars => IInv'
<1> SUFFICES ASSUME IInv, [Next]_vars PROVE IInv'
  OBVIOUS
<1>1. CASE \E r \in Req : Client(r)
  BY <1>1, ClientInv
<1>2. CASE \E r \in Req : Loop(r)
  BY <1>2, LoopInv
<1>3. CASE \E s \in Slot : Poll(s)
  BY <1>3, PollInv
<1>4. CASE UNCHANGED vars
  <2>1. UNCHANGED <<slots, pool, req, active>>
    BY <1>4 DEF vars
  <2> QED
    BY <2>1 DEF IInv, TypeOK, Untasked, Task, At
<1> QED
  BY <1>1, <1>2, <1>3, <1>4 DEF Next, Stop

(* Every reachable state satisfies the inductive invariant. *)
LEMMA Inductive == Spec => []IInv
BY InitInv, NextInv, PTL DEF Spec

(* The lanes' state keeps its type: counters never go below zero and no    *)
(* queue, owner or marker names anything but a request.                    *)
THEOREM TypeCorrect == Spec => []TypeOK
<1>1. IInv => TypeOK
  BY DEF IInv
<1> QED
  BY <1>1, Inductive, PTL

(* Permits are neither lost nor invented by any order of acquisition,      *)
(* cancellation, recovery and release, for any number of requests, slots   *)
(* and permits.                                                            *)
THEOREM PermitsConserved == Spec => []PermitConservation
<1>1. IInv => PermitConservation
  BY DEF IInv, Lanes, PermitConservation, Total, With, Permitted
<1> QED
  BY <1>1, Inductive, PTL

(* The active-lane counter of the pool is the number of lanes that hold a  *)
(* permit.                                                                 *)
THEOREM LanesAreCounted == Spec => []LanesCounted
<1>1. IInv => LanesCounted
  BY DEF IInv, Lanes, LanesCounted, With, Permitted
<1> QED
  BY <1>1, Inductive, PTL

(* No lane lock is held without an owner and no permit flag is up on an    *)
(* unowned lane.                                                           *)
THEOREM LanesAreOwned == Spec => []LaneOwned
<1>1. IInv => LaneOwned
  BY DEF IInv, Lanes, GoodSlot, LaneOwned
<1> QED
  BY <1>1, Inductive, PTL

(* The two together, as the runs check them: what decides between waiting  *)
(* and running never drifts from the lanes.                                *)
THEOREM PermitsAreAccounted == Spec => []PermitsAccounted
BY PermitsConserved, LanesAreCounted, PTL DEF PermitsAccounted
-----------------------------------------------------------------------------
(***************************************************************************)
(* What a request leaves behind in the lanes, and the lane service they    *)
(* implement.  Above, the types and the permits (IInv); here the           *)
(* bookkeeping of every request (Books) is shown to be inductive beside    *)
(* it, and the two together give the safety invariants of the lanes and    *)
(* the refinement of LaneService.                                          *)
(***************************************************************************)
Queuing == {"waiting", "beat", "cancelYield"}
Running == {"waiting", "beat", "cancelYield", "ownedYield", "acquiring", "handed", "running"}
Inside(s) == {r \in Req : Entered(r) /\ req[r].at = s}

(* A request's own state q, seen beside the slot and the pool of view x.   *)
Tracks(x, r, q) ==
  /\ q.pc \in {"idle", "expanding"} => ~q.kill
  /\ q.pc \in {"closing", "done"} /\ q.task \notin {"none", "done"} => q.kill
  /\ q.pc \in {"waiting", "beat"} =>
       ~q.kill /\ r \notin x.pl.abandoned /\ (q.task = "done" => x.sl.owner = r)
  /\ r \in x.pl.abandoned =>
       q.pc \notin {"idle", "expanding", "done"} \/ q.task \in InFlight

Tracked(r) == Tracks(View(slots[req[r].at], pool, req[r].task), r, req[r])

Booked(s) ==
  /\ slots[s].queued = {r \in Req : req[r].pc \in Queuing /\ req[r].at = s}
  /\ slots[s].owner # None =>
       Entered(slots[s].owner) \/ req[slots[s].owner].task \in Deciding
  /\ slots[s].leases <= Cardinality(Inside(s))

(* The inductive invariant beside IInv: a request queued for a lane is not *)
(* marked and keeps the lane it acquired, one past its finalizer with a    *)
(* task in flight is being cancelled, owners are known, and leases are     *)
(* those of the requests inside.                                           *)
Books == (\A r \in Req : Tracked(r)) /\ (\A s \in Slot : Booked(s))

-----------------------------------------------------------------------------
(* The fields that matter here, whatever the types of the others.          *)
SlotLike(sl) ==
  DOMAIN sl = {"held", "lq", "lgrant", "owner", "permit", "queued", "leases", "pend", "aged"}
PoolLike(pl) ==
  DOMAIN pl = {"free", "sq", "sgrant", "raw", "lanes", "abandoned", "tasks"}
Like(x) == SlotLike(x.sl) /\ PoolLike(x.pl)

SameBook(t, sl) ==
  /\ SlotLike(t) /\ t.owner = sl.owner /\ t.queued = sl.queued /\ t.leases = sl.leases
SameMarks(p, pl) ==
  PoolLike(p) /\ p.abandoned = pl.abandoned /\ p.tasks = pl.tasks

(* The states of the model have these fields. *)
LEMMA LikeTypes ==
  ASSUME NEW sl \in SlotState, NEW pl \in PoolState
  PROVE  SlotLike(sl) /\ PoolLike(pl)
BY DEF SlotLike, PoolLike, SlotState, PoolState

(* A view holds what it was made of. *)
LEMMA ViewIs ==
  ASSUME NEW sl, NEW pl, NEW tk
  PROVE  View(sl, pl, tk).sl = sl /\ View(sl, pl, tk).pl = pl /\ View(sl, pl, tk).tk = tk
BY DEF View

(* The lock's operators leave the books of a slot alone. *)
LEMMA LockBooks ==
  ASSUME NEW sl, SlotLike(sl), NEW r
  PROVE  /\ SameBook(WakeFirst(sl), sl) /\ WakeFirst(sl).held = sl.held
         /\ SameBook(LockRelease(sl), sl) /\ ~LockRelease(sl).held
         /\ SameBook(LockLeave(sl, r), sl) /\ LockLeave(sl, r).held = sl.held
<1>1. ASSUME NEW t, SlotLike(t) PROVE SameBook(WakeFirst(t), t) /\ WakeFirst(t).held = t.held
  BY <1>1 DEF WakeFirst, SameBook, SlotLike
<1>2. SameBook(LockLeave(sl, r), sl) /\ LockLeave(sl, r).held = sl.held
  BY DEF LockLeave, SameBook, SlotLike
<1>3. SameBook([sl EXCEPT !.held = FALSE], sl) /\ [sl EXCEPT !.held = FALSE].held = FALSE
  BY DEF SameBook, SlotLike
<1> QED
  BY <1>1, <1>2, <1>3 DEF LockRelease, SameBook

(* The semaphore's operators leave markers and tasks alone. *)
LEMMA SemBooks ==
  ASSUME NEW pl, PoolLike(pl), NEW n, NEW r
  PROVE  /\ SameMarks(SemWake(pl, n), pl)
         /\ SameMarks(SemRelease(pl), pl)
         /\ SameMarks(GiveBackPermit(pl, r), pl)
         /\ SameMarks(LaneEnds(pl), pl)
<1>1. ASSUME NEW p, PoolLike(p), NEW k PROVE SameMarks(SemWake(p, k), p)
  BY <1>1 DEF SemWake, SameMarks, PoolLike
<1>2. ASSUME NEW p, PoolLike(p) PROVE SameMarks(SemRelease(p), p)
  <2>1. SameMarks([p EXCEPT !.free = @ + 1], p)
    BY <1>2 DEF SameMarks, PoolLike
  <2> QED
    BY <1>1, <2>1 DEF SemRelease, SameMarks
<1>3. SameMarks([pl EXCEPT !.raw = @ \ {r}], pl)
  BY DEF SameMarks, PoolLike
<1>4. SameMarks([pl EXCEPT !.lanes = IF @ > 0 THEN @ - 1 ELSE 0], pl)
  BY DEF SameMarks, PoolLike
<1>5. SameMarks(pl, pl)
  BY DEF SameMarks
<1> QED
  BY <1>1, <1>2, <1>3, <1>4, <1>5 DEF GiveBackPermit, LaneEnds, SameMarks

-----------------------------------------------------------------------------
(* What a step of the acquisition of r does to the books: only r's own     *)
(* ownership and marker may change.                                        *)
Acts(x, z, r) ==
  /\ Like(z)
  /\ z.sl.queued = x.sl.queued /\ z.sl.leases = x.sl.leases
  /\ z.sl.owner = x.sl.owner \/ (x.sl.owner \in {None, r} /\ z.sl.owner \in {None, r})
  /\ z.pl.abandoned \subseteq x.pl.abandoned
  /\ x.pl.abandoned \subseteq z.pl.abandoned \cup {r}

(* One step after the other acts as one. *)
LEMMA ActsTrans ==
  ASSUME NEW x, NEW y, NEW z, NEW r, Acts(x, y, r), Acts(y, z, r)
  PROVE  Acts(x, z, r)
BY DEF Acts

(* The same books and markers: nothing acted. *)
LEMMA QuietActs ==
  ASSUME NEW x, NEW r, NEW sl, NEW pl, NEW tk, SameBook(sl, x.sl), SameMarks(pl, x.pl)
  PROVE  Acts(x, View(sl, pl, tk), r)
BY ViewIs DEF Acts, Like, SameBook, SameMarks

(* The end of a task drops its marker and nothing else. *)
LEMMA EndTaskActs ==
  ASSUME NEW x, Like(x), NEW r
  PROVE  /\ Acts(x, EndTask(x, r), r) /\ EndTask(x, r).sl = x.sl
         /\ EndTask(x, r).tk = "done" /\ r \notin EndTask(x, r).pl.abandoned
BY DEF EndTask, Acts, Like, View, PoolLike

(* A commit keeps the owner. *)
LEMMA CommitActs ==
  ASSUME NEW x, Like(x), NEW r
  PROVE  Acts(x, Commit(x, r), r) /\ Commit(x, r).sl.owner = x.sl.owner
<1> DEFINE sl == [x.sl EXCEPT !.permit = TRUE]
           pl == [x.pl EXCEPT !.lanes = @ + 1, !.raw = @ \ {r}]
           y == View(sl, pl, x.tk)
<1>1. SameBook(sl, x.sl) /\ SameMarks(pl, x.pl)
  BY DEF Like, SlotLike, PoolLike, SameBook, SameMarks
<1>2. Commit(x, r) = EndTask(y, r)
  BY DEF Commit
<1> HIDE DEF sl, pl
<1>3. Acts(x, y, r) /\ y.sl = sl
  BY <1>1, QuietActs, ViewIs
<1> HIDE DEF y
<1>4. Acts(y, EndTask(y, r), r) /\ EndTask(y, r).sl = y.sl
  BY <1>3, EndTaskActs DEF Acts
<1> QED
  BY <1>1, <1>2, <1>3, <1>4, ActsTrans DEF SameBook

(* An abort leaves the lane to others. *)
LEMMA AbortActs ==
  ASSUME NEW x, Like(x), NEW r \in Req
  PROVE  /\ Acts(x, Abort(x, r), r) /\ Abort(x, r).sl.owner # r
         /\ r \notin Abort(x, r).pl.abandoned
<1> DEFINE sl == DropLane(x.sl, r)
           pl == GiveBackPermit(x.pl, r)
           y == View(sl, pl, x.tk)
           u == [x.sl EXCEPT !.owner = None]
<1>1. SameMarks(pl, x.pl)
  BY SemBooks DEF Like
<1>2. /\ SlotLike(sl) /\ sl.queued = x.sl.queued /\ sl.leases = x.sl.leases
      /\ sl.owner = IF x.sl.owner = r THEN None ELSE x.sl.owner
  <2>1. SlotLike(u) /\ u.owner = None /\ u.queued = x.sl.queued /\ u.leases = x.sl.leases
    BY DEF Like, SlotLike
  <2> HIDE DEF u
  <2>2. SameBook(LockRelease(u), u)
    BY <2>1, LockBooks
  <2>3. sl = IF x.sl.owner = r THEN LockRelease(u) ELSE x.sl
    BY DEF DropLane, u
  <2> QED
    BY <2>1, <2>2, <2>3 DEF SameBook, Like
<1>3. Abort(x, r) = EndTask(y, r)
  BY DEF Abort
<1> HIDE DEF sl, pl
<1>4. Acts(x, y, r) /\ y.sl = sl
  BY <1>1, <1>2, ViewIs DEF Acts, Like, SameMarks
<1> HIDE DEF y
<1>5. /\ Acts(y, EndTask(y, r), r) /\ EndTask(y, r).sl = y.sl
      /\ r \notin EndTask(y, r).pl.abandoned
  BY <1>4, EndTaskActs DEF Acts
<1>6. r # None
  BY NoneAssumption
<1> QED
  BY <1>2, <1>3, <1>4, <1>5, <1>6, ActsTrans

(* With a permit in hand: an unmarked request that is done has its lane.   *)
LEMMA HavePermitActs ==
  ASSUME NEW x, Like(x), NEW r \in Req, NEW z \in HavePermit(x, r)
  PROVE  /\ Acts(x, z, r)
         /\ r \notin x.pl.abandoned => z.sl.owner = x.sl.owner
<1>1. CASE r \in x.pl.abandoned
  <2>1. z = Abort(x, r)
    BY <1>1 DEF HavePermit
  <2> QED
    BY <1>1, <2>1, AbortActs
<1>2. CASE r \notin x.pl.abandoned /\ z = Commit(x, r)
  BY <1>2, CommitActs
<1>3. CASE z = View(x.sl, GiveBackPermit(x.pl, r), "nap") \/ z = View(x.sl, x.pl, "probe")
  <2>1. SameBook(x.sl, x.sl) /\ SameMarks(x.pl, x.pl)
        /\ SameMarks(GiveBackPermit(x.pl, r), x.pl)
    BY SemBooks DEF Like, SameBook, SameMarks
  <2> QED
    BY <1>3, <2>1, QuietActs, ViewIs
<1> QED
  BY <1>1, <1>2, <1>3 DEF HavePermit

(* The same at the semaphore. *)
LEMMA TrySemActs ==
  ASSUME NEW x, Like(x), NEW r \in Req, NEW z \in TrySem(x, r)
  PROVE  /\ Acts(x, z, r)
         /\ r \notin x.pl.abandoned => z.sl.owner = x.sl.owner
<1>1. CASE SemLocked(x.pl)
  <2> DEFINE pl == [x.pl EXCEPT !.sq = Append(@, r)]
  <2>1. z = View(x.sl, pl, "sem")
    BY <1>1 DEF TrySem
  <2>2. SameBook(x.sl, x.sl) /\ SameMarks(pl, x.pl)
    BY DEF Like, SameBook, SameMarks, PoolLike
  <2> HIDE DEF pl
  <2> QED
    BY <2>1, <2>2, QuietActs, ViewIs
<1>2. CASE ~SemLocked(x.pl)
  <2> DEFINE pl == [x.pl EXCEPT !.free = @ - 1, !.raw = @ \cup {r}]
             y == View(x.sl, pl, x.tk)
  <2>1. z \in HavePermit(y, r)
    BY <1>2 DEF TrySem
  <2>2. SameBook(x.sl, x.sl) /\ SameMarks(pl, x.pl)
    BY DEF Like, SameBook, SameMarks, PoolLike
  <2> HIDE DEF pl
  <2>3. Acts(x, y, r) /\ y.sl = x.sl /\ y.pl = pl
    BY <2>2, QuietActs, ViewIs
  <2> HIDE DEF y
  <2>4. Acts(y, z, r) /\ (r \notin y.pl.abandoned => z.sl.owner = y.sl.owner)
    BY <2>1, <2>3, HavePermitActs DEF Acts
  <2> QED
    BY <2>2, <2>3, <2>4, ActsTrans DEF SameMarks
<1> QED
  BY <1>1, <1>2

(* And at a lane that nobody owns. *)
LEMMA TakeLockActs ==
  ASSUME NEW x, Like(x), NEW r \in Req, x.sl.owner = None, NEW z \in TakeLock(x, r)
  PROVE  Acts(x, z, r) /\ (r \notin x.pl.abandoned => z.sl.owner = r)
<1>1. CASE r \in x.pl.abandoned
  <2> DEFINE sl == LockRelease(x.sl)
             y == View(sl, x.pl, x.tk)
  <2>1. z = EndTask(y, r)
    BY <1>1 DEF TakeLock
  <2>2. SameBook(sl, x.sl) /\ SameMarks(x.pl, x.pl)
    BY LockBooks DEF Like, SameMarks
  <2> HIDE DEF sl
  <2>3. Acts(x, y, r)
    BY <2>2, QuietActs
  <2> HIDE DEF y
  <2>4. Acts(y, EndTask(y, r), r)
    BY <2>3, EndTaskActs DEF Acts
  <2> QED
    BY <1>1, <2>1, <2>3, <2>4, ActsTrans
<1>2. CASE r \notin x.pl.abandoned
  <2> DEFINE sl == [x.sl EXCEPT !.held = TRUE, !.owner = r]
             y == View(sl, x.pl, x.tk)
  <2>1. z \in TrySem(y, r)
    BY <1>2 DEF TakeLock
  <2>2. SlotLike(sl) /\ sl.owner = r /\ sl.queued = x.sl.queued /\ sl.leases = x.sl.leases
    BY DEF Like, SlotLike
  <2> HIDE DEF sl
  <2>3. Acts(x, y, r) /\ y.sl = sl /\ y.pl = x.pl
    BY <2>2, ViewIs DEF Acts, Like
  <2> HIDE DEF y
  <2>4. Acts(y, z, r) /\ (r \notin y.pl.abandoned => z.sl.owner = y.sl.owner)
    BY <2>1, <2>3, TrySemActs DEF Acts
  <2> QED
    BY <1>2, <2>2, <2>3, <2>4, ActsTrans
<1> QED
  BY <1>1, <1>2

(* And at the start, where a request already marked ends at once.          *)
LEMMA StartActs ==
  ASSUME NEW x, Like(x), NEW r \in Req, ~x.sl.held => x.sl.owner = None,
         NEW z \in StartAcquire(x, r)
  PROVE  Acts(x, z, r) /\ (r \notin x.pl.abandoned /\ z.tk = "done" => z.sl.owner = r)
<1> DEFINE pl == [x.pl EXCEPT !.tasks = @ \cup {r}]
           y == View(x.sl, pl, x.tk)
<1>1. z \in (IF r \in y.pl.abandoned THEN {EndTask(y, r)}
             ELSE IF LockFree(y.sl) THEN TakeLock(y, r)
             ELSE {View([y.sl EXCEPT !.lq = Append(@, r)], y.pl, "lock")})
  BY DEF StartAcquire
<1>2. PoolLike(pl) /\ pl.abandoned = x.pl.abandoned
  BY DEF Like, PoolLike
<1> HIDE DEF pl
<1>3. Acts(x, y, r) /\ y.sl = x.sl /\ y.pl = pl /\ Like(y)
  BY <1>2, ViewIs DEF Acts, Like
<1> HIDE DEF y
<1>4. CASE r \in y.pl.abandoned
  BY <1>1, <1>2, <1>3, <1>4, EndTaskActs, ActsTrans
<1>5. CASE r \notin y.pl.abandoned /\ LockFree(y.sl)
  <2>1. z \in TakeLock(y, r) /\ y.sl.owner = None
    BY <1>1, <1>3, <1>5 DEF LockFree
  <2> QED
    BY <1>2, <1>3, <1>5, <2>1, TakeLockActs, ActsTrans
<1>6. CASE r \notin y.pl.abandoned /\ ~LockFree(y.sl)
  <2> DEFINE sl == [y.sl EXCEPT !.lq = Append(@, r)]
  <2>1. z = View(sl, y.pl, "lock")
    BY <1>1, <1>6
  <2>2. SameBook(sl, y.sl) /\ SameMarks(y.pl, y.pl)
    BY <1>3 DEF Like, SameBook, SameMarks, SlotLike
  <2> HIDE DEF sl
  <2>3. Acts(y, z, r) /\ z.tk # "done"
    BY <2>1, <2>2, QuietActs, ViewIs
  <2> QED
    BY <1>3, <2>3, ActsTrans
<1> QED
  BY <1>4, <1>5, <1>6

(* A step of the acquire task of r: a task that is not cancelled and whose *)
(* request is not marked only ends with the lane, a cancelled one never.   *)
LEMMA TaskActs ==
  ASSUME IInv, NEW r \in Req, NEW z \in TaskOutcomes(r)
  PROVE  /\ Acts(Here(r, req[r].at), z, r)
         /\ ~req[r].kill /\ r \notin pool.abandoned /\ z.tk = "done" => z.sl.owner = r
         /\ req[r].kill => z.sl.owner # r
         /\ req[r].kill /\ req[r].task # "spawned" => r \notin z.pl.abandoned
<1> DEFINE s == req[r].at
           x == Here(r, s)
           unlocked == LockLeave(x.sl, r)
           left == [pool EXCEPT !.sq = Without(@, r), !.sgrant = @ \ {r}]
           refunded == [left EXCEPT !.free = @ + (IF r \in pool.sgrant THEN 1 ELSE 0)]
           taken == [left EXCEPT !.raw = @ \cup {r}]
           Nudge(pl) == View(x.sl, SemWake(pl, pl.free), x.tk)
<1>1. /\ s \in Slot /\ slots[s] \in SlotState /\ pool \in PoolState
      /\ Task[r] = req[r].task /\ At[r] = s
      /\ GoodSlot(slots[s], pool.abandoned, Task, At, s)
  BY ReqFacts, TaskTypes DEF IInv, Lanes
<1>2. x.sl = slots[s] /\ x.pl = pool /\ x.tk = req[r].task /\ Like(x)
  BY <1>1, LikeTypes, ViewIs DEF Here, Like
<1>3. /\ x.sl.held <=> x.sl.owner # None
      /\ x.sl.lgrant # {} => ~x.sl.held
      /\ req[r].task \in {"spawned", "lock"} => x.sl.owner # r
      /\ req[r].task \in Deciding /\ r \notin pool.abandoned => x.sl.owner = r
  BY <1>1, <1>2 DEF GoodSlot, LockOK, Deciding
<1>4. CASE req[r].task = "spawned"
  <2>1. CASE req[r].kill
    <3>1. z = View(x.sl, x.pl, "done")
      BY <1>4, <2>1 DEF TaskOutcomes
    <3>2. SameBook(x.sl, x.sl) /\ SameMarks(x.pl, x.pl)
      BY <1>2 DEF Like, SameBook, SameMarks
    <3> QED
      BY <1>3, <1>4, <2>1, <3>1, <3>2, QuietActs, ViewIs
  <2>2. CASE ~req[r].kill
    <3>1. z \in StartAcquire(x, r)
      BY <1>4, <2>2 DEF TaskOutcomes
    <3> QED
      BY <1>2, <1>3, <2>2, <3>1, StartActs
  <2> QED
    BY <2>1, <2>2
<1>5. CASE req[r].task = "lock"
  <2>1. SameBook(unlocked, x.sl) /\ SlotLike(unlocked)
    BY <1>2, LockBooks DEF Like, SameBook
  <2>2. CASE req[r].kill
    <3> DEFINE u == IF x.sl.held THEN unlocked ELSE WakeFirst(unlocked)
               y == View(u, x.pl, x.tk)
    <3>1. z = EndTask(y, r)
      BY <1>5, <2>2 DEF TaskOutcomes
    <3>2. SameBook(u, x.sl) /\ SameMarks(x.pl, x.pl)
      BY <1>2, <2>1, LockBooks DEF Like, SameBook, SameMarks
    <3> HIDE DEF u
    <3>3. Acts(x, y, r) /\ y.sl = u
      BY <3>2, QuietActs, ViewIs
    <3> HIDE DEF y
    <3>4. Acts(y, z, r) /\ z.sl = y.sl /\ r \notin z.pl.abandoned
      BY <3>1, <3>3, EndTaskActs DEF Acts
    <3> QED
      BY <1>3, <1>5, <2>2, <3>2, <3>3, <3>4, ActsTrans DEF SameBook
  <2>3. CASE ~req[r].kill
    <3> DEFINE y == View(unlocked, x.pl, x.tk)
    <3>1. r \in x.sl.lgrant /\ z \in TakeLock(y, r)
      BY <1>5, <2>3 DEF TaskOutcomes
    <3>2. unlocked.owner = None /\ SameMarks(x.pl, x.pl)
      BY <1>2, <1>3, <2>1, <3>1 DEF SameBook, SameMarks, Like
    <3> HIDE DEF unlocked
    <3>3. Acts(x, y, r) /\ y.sl = unlocked /\ y.pl = x.pl
      BY <2>1, <3>2, QuietActs, ViewIs
    <3> HIDE DEF y
    <3>4. Acts(y, z, r) /\ (r \notin y.pl.abandoned => z.sl.owner = r)
      BY <3>1, <3>2, <3>3, TakeLockActs DEF Acts
    <3> QED
      BY <1>2, <2>3, <3>3, <3>4, ActsTrans
  <2> QED
    BY <2>2, <2>3
<1>6. CASE req[r].task = "sem"
  <2>1. SameMarks(left, pool)
    BY <1>2 DEF Like, PoolLike, SameMarks
  <2> HIDE DEF left
  <2>2. SameMarks(refunded, pool) /\ SameMarks(taken, pool)
    BY <2>1 DEF PoolLike, SameMarks
  <2> HIDE DEF refunded, taken
  <2>3. ASSUME NEW p, SameMarks(p, pool)
        PROVE  Acts(x, Nudge(p), r) /\ Nudge(p).sl = x.sl /\ Nudge(p).pl.abandoned = pool.abandoned
    <3>1. SameMarks(SemWake(p, p.free), p)
      BY <2>3, SemBooks DEF SameMarks
    <3>2. SameMarks(SemWake(p, p.free), x.pl) /\ SameBook(x.sl, x.sl)
      BY <1>2, <2>3, <3>1 DEF SameMarks, SameBook, Like
    <3> QED
      BY <1>2, <3>2, QuietActs, ViewIs DEF SameMarks
  <2>4. CASE req[r].kill
    <3>1. z = Abort(Nudge(refunded), r)
      BY <1>6, <2>4 DEF TaskOutcomes, refunded, left
    <3> DEFINE y == Nudge(refunded)
    <3>2. Acts(x, y, r) /\ Like(y) /\ z = Abort(y, r)
      BY <2>2, <2>3, <3>1 DEF Acts
    <3> HIDE DEF y
    <3>3. Acts(y, z, r) /\ z.sl.owner # r /\ r \notin z.pl.abandoned
      BY <3>2, AbortActs
    <3> QED
      BY <2>4, <3>2, <3>3, ActsTrans
  <2>5. CASE ~req[r].kill
    <3>1. z \in HavePermit(Nudge(taken), r)
      BY <1>6, <2>5 DEF TaskOutcomes, taken, left
    <3> DEFINE y == Nudge(taken)
    <3>2. Acts(x, y, r) /\ y.sl = x.sl /\ y.pl.abandoned = pool.abandoned /\ z \in HavePermit(y, r)
      BY <2>2, <2>3, <3>1
    <3> HIDE DEF y
    <3>3. Acts(y, z, r) /\ (r \notin y.pl.abandoned => z.sl.owner = y.sl.owner)
      BY <3>2, HavePermitActs DEF Acts
    <3> QED
      BY <1>3, <1>6, <2>5, <3>2, <3>3, ActsTrans DEF Deciding
  <2> QED
    BY <2>4, <2>5
<1>7. CASE req[r].task = "probe"
  <2>1. CASE req[r].kill \/ r \in pool.abandoned
    <3>1. z = Abort(x, r)
      BY <1>7, <2>1 DEF TaskOutcomes
    <3> QED
      BY <1>2, <2>1, <3>1, AbortActs
  <2>2. CASE ~(req[r].kill \/ r \in pool.abandoned)
    <3>1. z \in {Commit(x, r), View(x.sl, GiveBackPermit(x.pl, r), "nap")}
      BY <1>2, <1>7, <2>2 DEF TaskOutcomes
    <3>2. SameBook(x.sl, x.sl) /\ SameMarks(GiveBackPermit(x.pl, r), x.pl)
      BY <1>2, SemBooks DEF Like, SameBook
    <3>3. Acts(x, z, r) /\ z.sl.owner = x.sl.owner
      BY <1>2, <3>1, <3>2, CommitActs, QuietActs, ViewIs
    <3> QED
      BY <1>3, <1>7, <2>2, <3>3 DEF Deciding
  <2> QED
    BY <2>1, <2>2
<1>8. CASE req[r].task = "nap"
  <2>1. CASE req[r].kill
    <3>1. z = Abort(x, r)
      BY <1>8, <2>1 DEF TaskOutcomes
    <3> QED
      BY <1>2, <2>1, <3>1, AbortActs
  <2>2. CASE ~req[r].kill
    <3>1. z \in TrySem(x, r)
      BY <1>8, <2>2 DEF TaskOutcomes
    <3>2. Acts(x, z, r) /\ (r \notin x.pl.abandoned => z.sl.owner = x.sl.owner)
      BY <1>2, <3>1, TrySemActs
    <3> QED
      BY <1>2, <1>3, <1>8, <2>2, <3>2 DEF Deciding
  <2> QED
    BY <2>1, <2>2
<1>9. req[r].task \in {"spawned", "lock", "sem", "probe", "nap"}
  BY DEF TaskOutcomes
<1> QED
  BY <1>4, <1>5, <1>6, <1>7, <1>8, <1>9

-----------------------------------------------------------------------------
(* What a recovery does to the books: an owner that is not queued may lose *)
(* its lane, and is marked when its task is in flight.                     *)
LockAgrees(sl) == sl.held <=> sl.owner # None
Recovers(x, z) ==
  /\ Like(z) /\ z.tk = x.tk /\ (LockAgrees(x.sl) => LockAgrees(z.sl))
  /\ z.sl.queued = x.sl.queued /\ z.sl.leases = x.sl.leases
  /\ z.sl.owner # x.sl.owner => z.sl.owner = None /\ x.sl.owner \notin x.sl.queued
  /\ \A o \in z.pl.abandoned \ x.pl.abandoned :
       o \in x.pl.tasks /\ o = x.sl.owner /\ o \notin x.sl.queued
  /\ x.pl.abandoned \subseteq z.pl.abandoned
  /\ z.pl.tasks = x.pl.tasks

(* Releasing a lane: the owner is gone, the rest of the books stays. *)
LEMMA ReleaseBooks ==
  ASSUME NEW x, Like(x), NEW o
  PROVE  LET z == ReleaseLane(x, o) IN
         /\ Like(z) /\ z.tk = x.tk /\ (z.sl.held <=> x.sl.held /\ x.sl.owner # o)
         /\ z.sl.queued = x.sl.queued /\ z.sl.leases = x.sl.leases
         /\ z.sl.owner = (IF x.sl.owner = o THEN None ELSE x.sl.owner)
         /\ z.pl.abandoned = x.pl.abandoned /\ z.pl.tasks = x.pl.tasks
<1> DEFINE u == [x.sl EXCEPT !.owner = None, !.permit = FALSE]
           pl == IF x.sl.permit THEN LaneEnds(x.pl) ELSE x.pl
<1>1. SlotLike(u) /\ u.owner = None /\ u.queued = x.sl.queued /\ u.leases = x.sl.leases
  BY DEF Like, SlotLike
<1>2. Unowned(x.sl) = LockRelease(u)
  BY DEF Unowned
<1> HIDE DEF u
<1>3. SameBook(Unowned(x.sl), u) /\ ~Unowned(x.sl).held
  BY <1>1, <1>2, LockBooks
<1>4. SameMarks(pl, x.pl)
  BY SemBooks DEF Like, SameMarks
<1>5. ReleaseLane(x, o) = IF x.sl.owner # o THEN x ELSE View(Unowned(x.sl), pl, x.tk)
  BY DEF ReleaseLane
<1> HIDE DEF pl
<1> QED
  BY <1>1, <1>3, <1>4, <1>5, ViewIs DEF SameBook, SameMarks, Like

(* _recover_lane only takes a lane from an owner that is not queued. *)
LEMMA RecoverBooks ==
  ASSUME NEW x, Like(x), NEW s
  PROVE  Recovers(x, RecoverLane(x, s))
<1> DEFINE o == x.sl.owner
           Back(sl) == View(sl, x.pl, x.tk)
           p == IF o \in x.pl.tasks THEN Marked(x.pl, o) ELSE x.pl
           y == RecoverLane(x, s)
<1>1. \A n : SameBook(Verdict(x.sl, n), x.sl) /\ Verdict(x.sl, n).held = x.sl.held
  BY DEF Verdict, Like, SlotLike, SameBook
<1>2. /\ PoolLike(p) /\ p.tasks = x.pl.tasks /\ x.pl.abandoned \subseteq p.abandoned
      /\ \A r \in p.abandoned \ x.pl.abandoned : r \in x.pl.tasks /\ r = o
  BY DEF Marked, Like, PoolLike
<1>3. CASE y = x
  BY <1>3 DEF Recovers, LockAgrees
<1>4. CASE ~x.sl.held /\ o \notin x.sl.queued /\ y = Back([x.sl EXCEPT !.owner = None])
  <2> DEFINE u == [x.sl EXCEPT !.owner = None]
  <2>1. /\ SlotLike(u) /\ u.owner = None /\ u.queued = x.sl.queued
        /\ u.leases = x.sl.leases /\ u.held = x.sl.held
    BY DEF Like, SlotLike
  <2>2. y = View(u, x.pl, x.tk)
    BY <1>4
  <2> HIDE DEF u
  <2>3. y.sl = u /\ y.pl = x.pl /\ y.tk = x.tk
    BY <2>2, ViewIs
  <2> QED
    BY <1>4, <2>1, <2>3 DEF Recovers, Like, LockAgrees
<1>5. CASE \E n : y = Back(Verdict(x.sl, n))
  <2>1. PICK n : y = Back(Verdict(x.sl, n))
    BY <1>5
  <2>2. y.sl = Verdict(x.sl, n) /\ y.pl = x.pl /\ y.tk = x.tk
    BY <2>1, ViewIs
  <2> QED
    BY <1>1, <2>2 DEF Recovers, Like, SameBook, LockAgrees
<1>6. CASE o \notin x.sl.queued /\ y = ReleaseLane(View(Verdict(x.sl, None), p, x.tk), o)
  <2> DEFINE v == View(Verdict(x.sl, None), p, x.tk)
  <2>1. v.sl = Verdict(x.sl, None) /\ v.pl = p /\ v.tk = x.tk
    BY ViewIs
  <2>2. SameBook(v.sl, x.sl) /\ Like(v)
    BY <1>1, <1>2, <2>1 DEF Like, SameBook
  <2> HIDE DEF v, p
  <2>3. /\ Like(y) /\ y.tk = v.tk
        /\ (y.sl.held <=> v.sl.held /\ v.sl.owner # o)
        /\ y.sl.queued = v.sl.queued /\ y.sl.leases = v.sl.leases
        /\ y.sl.owner = (IF v.sl.owner = o THEN None ELSE v.sl.owner)
        /\ y.pl.abandoned = v.pl.abandoned /\ y.pl.tasks = v.pl.tasks
    BY <1>6, <2>2, ReleaseBooks DEF v
  <2> QED
    BY <1>2, <1>6, <2>1, <2>2, <2>3 DEF Recovers, SameBook, LockAgrees
<1>7. \/ y = x
      \/ ~x.sl.held /\ o \notin x.sl.queued /\ y = Back([x.sl EXCEPT !.owner = None])
      \/ \E n : y = Back(Verdict(x.sl, n))
      \/ o \notin x.sl.queued /\ y = ReleaseLane(View(Verdict(x.sl, None), p, x.tk), o)
  BY DEF RecoverLane, Alive
<1> QED
  BY <1>3, <1>4, <1>5, <1>6, <1>7

(* The finalizer unqueues, unowns and marks its request.                   *)
LEMMA FinalizeBooks ==
  ASSUME NEW x, Like(x), NEW r
  PROVE  LET z == Finalize(x, r) IN
         /\ Like(z) /\ z.tk = x.tk
         /\ z.sl.queued = x.sl.queued \ {r}
         /\ z.sl.leases = (IF x.sl.leases > 0 THEN x.sl.leases - 1 ELSE 0)
         /\ z.sl.owner = (IF x.sl.owner = r THEN None ELSE x.sl.owner)
         /\ z.pl.abandoned = x.pl.abandoned \cup {r} /\ z.pl.tasks = x.pl.tasks
<1> DEFINE d == Dequeued(x.sl, r)
           p == Marked(x.pl, r)
           v == View(d, p, x.tk)
           y == ReleaseLane(v, r)
           n == IF y.sl.leases > 0 THEN y.sl.leases - 1 ELSE 0
           z == Returned(y, n)
<1>1. /\ SlotLike(d) /\ d.owner = x.sl.owner /\ d.leases = x.sl.leases
      /\ d.queued = x.sl.queued \ {r}
      /\ PoolLike(p) /\ p.abandoned = x.pl.abandoned \cup {r} /\ p.tasks = x.pl.tasks
  BY DEF Dequeued, Marked, Like, SlotLike, PoolLike
<1> HIDE DEF d, p
<1>2. v.sl = d /\ v.pl = p /\ v.tk = x.tk /\ Like(v)
  BY <1>1, ViewIs DEF Like
<1> HIDE DEF v
<1>3. /\ Like(y) /\ y.tk = v.tk
      /\ y.sl.queued = v.sl.queued /\ y.sl.leases = v.sl.leases
      /\ y.sl.owner = (IF v.sl.owner = r THEN None ELSE v.sl.owner)
      /\ y.pl.abandoned = v.pl.abandoned /\ y.pl.tasks = v.pl.tasks
  BY <1>2, ReleaseBooks
<1> HIDE DEF y
<1> DEFINE t == [y.sl EXCEPT !.leases = n]
<1>4. /\ SlotLike(t) /\ t.owner = y.sl.owner /\ t.queued = y.sl.queued /\ t.leases = n
  BY <1>3 DEF Like, SlotLike
<1>5. z = View(t, y.pl, y.tk)
  BY DEF Returned
<1>6. n = IF x.sl.leases > 0 THEN x.sl.leases - 1 ELSE 0
  BY <1>1, <1>2, <1>3
<1> HIDE DEF t, n
<1>7. z.sl = t /\ z.pl = y.pl /\ z.tk = y.tk
  BY <1>5, ViewIs
<1>8. Finalize(x, r) = z
  BY DEF Finalize, z, n, y, v, d, p
<1> HIDE DEF z
<1> QED
  BY <1>1, <1>2, <1>3, <1>4, <1>6, <1>7, <1>8 DEF Like

-----------------------------------------------------------------------------
(* What the books need of a step of request r that stores view x on slot s *)
(* and leaves the request in state q.                                      *)
Here1(r, q) == IF q.pc \in Running THEN {r} ELSE {}
Steps(x, r, q, s) ==
  /\ x.sl.queued = (slots[s].queued \ {r}) \cup (IF q.pc \in Queuing THEN {r} ELSE {})
  /\ x.sl.owner # slots[s].owner =>
       x.sl.owner \in {None, r} /\ slots[s].owner \notin slots[s].queued \ {r}
  /\ \A o \in x.pl.abandoned \ pool.abandoned : o # r =>
       o \in pool.tasks /\ o = slots[s].owner /\ o \notin slots[s].queued
  /\ Tracks(x, r, q)
  /\ x.sl.owner = r => q.pc \in Running \/ q.task \in Deciding
  /\ x.sl.leases <= Cardinality((Inside(s) \ {r}) \cup Here1(r, q))

(* Where a request stands, from the two invariants. *)
LEMMA BookFacts ==
  ASSUME IInv, Books, NEW r \in Req
  PROVE  /\ req[r] \in ReqState /\ req[r].at \in Slot /\ req[r].task \in Tasks
         /\ req \in [Req -> ReqState]
         /\ Tracks(View(slots[req[r].at], pool, req[r].task), r, req[r])
         /\ r \in slots[req[r].at].queued <=> req[r].pc \in Queuing
         /\ \A s \in Slot : r \in slots[s].queued => req[r].at = s
         /\ \A s \in Slot : slots[s].owner = r =>
              /\ req[r].at = s /\ req[r].task \in Deciding \cup {"done"}
              /\ req[r].pc \in Running \/ req[r].task \in Deciding
         /\ r \in pool.tasks <=> req[r].task \in InFlight
         /\ req[r].pc \in {"idle", "expanding"} => req[r].task = "none"
<1>1. /\ req \in [Req -> ReqState] /\ Task[r] = req[r].task /\ At[r] = req[r].at
      /\ \A s \in Slot : GoodSlot(slots[s], pool.abandoned, Task, At, s)
      /\ GoodPool(pool, Task)
  BY ReqFacts, TaskTypes DEF IInv, Lanes
<1>2. \A s \in Slot : Booked(s)
  BY DEF Books
<1>3. \A s \in Slot : slots[s].owner = r =>
        /\ req[r].at = s /\ req[r].task \in Deciding \cup {"done"}
        /\ req[r].pc \in Running \/ req[r].task \in Deciding
  BY <1>1, <1>2, NoneAssumption DEF GoodSlot, Booked, Entered, Running
<1> QED
  BY <1>1, <1>2, <1>3, ReqFacts DEF Books, Tracked, Booked, GoodPool, IInv, Untasked

(* A step that meets this keeps the books. *)
LEMMA BooksStep ==
  ASSUME IInv, Books, NEW r \in Req, NEW s \in Slot,
         req[r].at = s \/ req[r].pc \in {"idle", "expanding"},
         NEW x, Store(s, x), NEW q \in ReqState, q.at = s, Steps(x, r, q, s),
         req' = [req EXCEPT ![r] = q]
  PROVE  Books'
<1>1. /\ slots' = [slots EXCEPT ![s] = x.sl] /\ pool' = x.pl
      /\ slots \in [Slot -> SlotState] /\ pool \in PoolState /\ req \in [Req -> ReqState]
  BY TaskTypes, ReqFacts DEF Store, IInv
<1>2. /\ slots'[s] = x.sl /\ \A u \in Slot \ {s} : slots'[u] = slots[u]
      /\ req'[r] = q /\ \A o \in Req \ {r} : req'[o] = req[o]
  BY <1>1
<1>3. ASSUME NEW o \in Req PROVE Tracked(o)'
  <2>1. CASE o = r
    <3>1. Tracks(View(x.sl, x.pl, q.task), r, q)
      BY ViewIs DEF Steps, Tracks
    <3> QED
      BY <1>1, <1>2, <2>1, <3>1 DEF Tracked
  <2>2. CASE o # r
    <3> DEFINE t == req[o].at
               v == View(slots[t], pool, req[o].task)
               w == View(slots'[t], pool', req[o].task)
    <3>1. /\ Tracks(v, o, req[o]) /\ t \in Slot
          /\ o \in slots[t].queued <=> req[o].pc \in Queuing
          /\ \A u \in Slot : slots[u].owner = o => t = u
          /\ o \in pool.tasks <=> req[o].task \in InFlight
      BY BookFacts
    <3>2. /\ v.sl = slots[t] /\ v.pl = pool /\ w.sl = slots'[t] /\ w.pl = x.pl
      BY <1>1, ViewIs
    <3> HIDE DEF v
    <3>3. o \in x.pl.abandoned \ pool.abandoned =>
            o \in pool.tasks /\ o = slots[s].owner /\ o \notin slots[s].queued
      BY <2>2 DEF Steps
    <3>4. req[o].pc \in {"waiting", "beat"} =>
            /\ ~req[o].kill /\ o \notin x.pl.abandoned
            /\ req[o].task = "done" => slots'[t].owner = o
      <4>1. SUFFICES ASSUME req[o].pc \in {"waiting", "beat"}
                     PROVE  /\ ~req[o].kill /\ o \notin x.pl.abandoned
                            /\ req[o].task = "done" => slots'[t].owner = o
        OBVIOUS
      <4>2. o \in slots[t].queued /\ ~req[o].kill /\ o \notin pool.abandoned
            /\ (req[o].task = "done" => slots[t].owner = o)
        BY <3>1, <3>2, <4>1 DEF Tracks, Queuing
      <4>3. o \notin x.pl.abandoned
        BY <3>1, <3>3, <4>2
      <4>4. slots[t].owner = o => slots'[t].owner = o
        <5>1. CASE t = s
          BY <1>2, <2>2, <4>2, <5>1 DEF Steps
        <5>2. CASE t # s
          BY <1>2, <3>1, <5>2
        <5> QED
          BY <5>1, <5>2
      <4> QED
        BY <4>2, <4>3, <4>4
    <3>5. o \in x.pl.abandoned =>
            req[o].pc \notin {"idle", "expanding", "done"} \/ req[o].task \in InFlight
      BY <3>1, <3>2, <3>3 DEF Tracks
    <3>6. Tracks(w, o, req[o])
      BY <3>1, <3>2, <3>4, <3>5 DEF Tracks
    <3>7. Tracked(o)' = Tracks(w, o, req[o])
      BY <1>2, <2>2 DEF Tracked
    <3> HIDE DEF w
    <3> QED
      BY <3>6, <3>7
  <2> QED
    BY <2>1, <2>2
<1>4. ASSUME NEW u \in Slot PROVE Booked(u)'
  <2>1. Booked(u)
    BY DEF Books
  <2>2. \A o \in Req : Entered(o) <=> req[o].pc \in Running
    BY DEF Entered, Running
  <2>3. \A o \in Req : Entered(o)' <=> req'[o].pc \in Running
    BY DEF Entered, Running
  <2>4. CASE u = s
    <3>1. x.sl.queued = {o \in Req : req'[o].pc \in Queuing /\ req'[o].at = s}
      <4>1. slots[s].queued = {o \in Req : req[o].pc \in Queuing /\ req[o].at = s}
        BY <2>1, <2>4 DEF Booked
      <4>2. x.sl.queued = (slots[s].queued \ {r}) \cup (IF q.pc \in Queuing THEN {r} ELSE {})
        BY DEF Steps
      <4>3. \A o \in Req : o \in x.sl.queued <=> req'[o].pc \in Queuing /\ req'[o].at = s
        BY <1>2, <4>1, <4>2
      <4> QED
        BY <4>1, <4>2, <4>3
    <3>2. x.sl.owner # None => Entered(x.sl.owner)' \/ req'[x.sl.owner].task \in Deciding
      <4>1. CASE x.sl.owner = r
        BY <1>2, <2>3, <4>1 DEF Steps
      <4>2. CASE x.sl.owner \notin {None, r}
        <5>1. x.sl.owner = slots[s].owner
          BY <4>2 DEF Steps
        <5>2. x.sl.owner \in Req
          BY <1>1, <4>2, <5>1 DEF SlotState
        <5>3. Entered(x.sl.owner) \/ req[x.sl.owner].task \in Deciding
          BY <2>1, <2>4, <4>2, <5>1 DEF Booked
        <5> QED
          BY <1>2, <2>2, <2>3, <4>2, <5>2, <5>3
      <4> QED
        BY <4>1, <4>2
    <3>3. x.sl.leases <= Cardinality(Inside(s)')
      <4>1. Inside(s)' = (Inside(s) \ {r}) \cup Here1(r, q)
        BY <1>2, <2>2, <2>3 DEF Inside, Here1
      <4> QED
        BY <4>1 DEF Steps
    <3> QED
      BY <1>2, <2>4, <3>1, <3>2, <3>3 DEF Booked
  <2>5. CASE u # s
    <3>1. slots'[u] = slots[u]
      BY <1>2, <2>5
    <3>2. slots[u].queued = {o \in Req : req'[o].pc \in Queuing /\ req'[o].at = u}
      <4>1. slots[u].queued = {o \in Req : req[o].pc \in Queuing /\ req[o].at = u}
        BY <2>1 DEF Booked
      <4>2. \A o \in Req : (req[o].pc \in Queuing /\ req[o].at = u)
                             <=> (req'[o].pc \in Queuing /\ req'[o].at = u)
        BY <1>2, <2>5 DEF Queuing
      <4> QED
        BY <4>1, <4>2
    <3>3. ASSUME NEW o \in Req, slots[u].owner = o
          PROVE  Entered(o)' \/ req'[o].task \in Deciding
      <4>1. req[o].at = u /\ req[o].pc \notin {"idle", "expanding"}
        BY <3>3, BookFacts DEF Deciding
      <4>2. o # None /\ o # r
        BY <2>5, <4>1, NoneAssumption
      <4>3. Entered(o) \/ req[o].task \in Deciding
        BY <2>1, <3>3, <4>2 DEF Booked
      <4>4. req'[o] = req[o]
        BY <1>2, <4>2
      <4> QED
        BY <4>3, <4>4 DEF Entered
    <3>5. slots[u].owner \in Req \cup {None}
      BY <1>1 DEF SlotState
    <3>4. Inside(u)' = Inside(u)
      <4>1. \A o \in Req : (req[o].pc \in Running /\ req[o].at = u)
                             <=> (req'[o].pc \in Running /\ req'[o].at = u)
        BY <1>2, <2>5 DEF Running
      <4> QED
        BY <2>2, <2>3, <4>1 DEF Inside
    <3> QED
      BY <2>1, <3>1, <3>2, <3>3, <3>4, <3>5 DEF Booked
  <2> QED
    BY <2>4, <2>5
<1> QED
  BY <1>3, <1>4 DEF Books

(* A view whose books differ from the slot's only by r's own lane, or by   *)
(* what a recovery took from an owner that is not queued.                  *)
Near(x, r, s) ==
  /\ Like(x)
  /\ x.sl.queued = slots[s].queued /\ x.sl.leases = slots[s].leases
  /\ x.sl.owner # slots[s].owner =>
       x.sl.owner \in {None, r} /\ slots[s].owner \notin slots[s].queued \ {r}
  /\ \A o \in x.pl.abandoned \ pool.abandoned : o # r =>
       o \in pool.tasks /\ o = slots[s].owner /\ o \notin slots[s].queued

(* What a request sees, after a recovery and after its task's step, is near. *)
LEMMA NearHere ==
  ASSUME IInv, NEW r \in Req, NEW s \in Slot
  PROVE  /\ Like(Here(r, s)) /\ Near(Here(r, s), r, s)
         /\ Here(r, s).sl = slots[s] /\ Here(r, s).pl = pool
         /\ Here(r, s).tk = req[r].task
         /\ LockAgrees(slots[s]) /\ slots[s].queued \subseteq Req /\ slots[s].leases \in Nat
         /\ slots[s].owner \in Req \cup {None}
         /\ pool.tasks \subseteq Req
         /\ slots \in [Slot -> SlotState] /\ pool \in PoolState
<1>1. /\ slots \in [Slot -> SlotState] /\ slots[s] \in SlotState /\ pool \in PoolState
      /\ GoodSlot(slots[s], pool.abandoned, Task, At, s)
  BY TaskTypes DEF IInv, Lanes
<1>2. SlotLike(slots[s]) /\ PoolLike(pool)
  BY <1>1, LikeTypes
<1>3. Here(r, s).sl = slots[s] /\ Here(r, s).pl = pool /\ Here(r, s).tk = req[r].task
  BY ViewIs DEF Here
<1>4. /\ slots[s].queued \subseteq Req /\ slots[s].leases \in Nat
      /\ slots[s].owner \in Req \cup {None} /\ pool.tasks \subseteq Req
  BY <1>1 DEF SlotState, PoolState
<1> QED
  BY <1>1, <1>2, <1>3, <1>4 DEF Like, Near, GoodSlot, LockAgrees

(* So is what it sees after a recovery of its slot. *)
LEMMA NearRecovered ==
  ASSUME IInv, NEW r \in Req, NEW s \in Slot
  PROVE  /\ Near(RecoverLane(Here(r, s), s), r, s)
         /\ Recovers(Here(r, s), RecoverLane(Here(r, s), s))
BY NearHere, RecoverBooks DEF Near, Recovers

(* And what a step of its own task makes of it. *)
LEMMA NearActed ==
  ASSUME IInv, NEW r \in Req, NEW s \in Slot, NEW z, Acts(Here(r, s), z, r)
  PROVE  Near(z, r, s)
BY NearHere, NoneAssumption DEF Near, Acts

(* Requests inside a slot are counted one by one. *)
LEMMA LeaseCounts ==
  ASSUME NEW r \in Req, NEW s \in Slot
  PROVE  /\ Cardinality(Inside(s)) \in Nat
         /\ Cardinality(Inside(s) \ {r}) \in Nat
         /\ Cardinality((Inside(s) \ {r}) \cup {r}) = Cardinality(Inside(s) \ {r}) + 1
         /\ r \in Inside(s) => Cardinality(Inside(s)) = Cardinality(Inside(s) \ {r}) + 1
         /\ r \notin Inside(s) => Inside(s) \ {r} = Inside(s)
<1>1. Inside(s) \in SUBSET Req /\ Inside(s) \ {r} \in SUBSET Req
  BY DEF Inside
<1>2. /\ IsFiniteSet(Inside(s) \ {r}) /\ Cardinality(Inside(s) \ {r}) \in Nat
      /\ Cardinality(Inside(s)) \in Nat
  BY <1>1, ReqSetsFinite
<1>3. Cardinality((Inside(s) \ {r}) \cup {r}) = Cardinality(Inside(s) \ {r}) + 1
  BY <1>2, FS_AddElement
<1>4. r \in Inside(s) => Inside(s) = (Inside(s) \ {r}) \cup {r}
  OBVIOUS
<1>5. r \notin Inside(s) => Inside(s) \ {r} = Inside(s)
  OBVIOUS
<1> QED
  BY <1>2, <1>3, <1>4, <1>5

(* Who is inside a slot. *)
LEMMA InsideIs ==
  ASSUME NEW r \in Req, NEW s \in Slot
  PROVE  r \in Inside(s) <=> req[r].pc \in Running /\ req[r].at = s
BY DEF Inside, Entered, Running

(* A step of a request that stays inside, or outside, with a near view.    *)
LEMMA NearSteps ==
  ASSUME IInv, Books, NEW r \in Req, NEW q \in ReqState, q.at = req[r].at,
         NEW x, Store(q.at, x), Near(x, r, q.at), Tracks(x, r, q),
         q.pc \in Queuing <=> req[r].pc \in Queuing,
         q.pc \in Running <=> req[r].pc \in Running,
         x.sl.owner = r => q.pc \in Running \/ q.task \in Deciding,
         req' = [req EXCEPT ![r] = q]
  PROVE  Books'
<1> DEFINE s == q.at
<1>1. s \in Slot /\ Booked(s) /\ (r \in slots[s].queued <=> req[r].pc \in Queuing)
      /\ slots[s].queued \subseteq Req
  BY BookFacts, NearHere DEF Books, ReqState
<1>2. x.sl.leases <= Cardinality((Inside(s) \ {r}) \cup Here1(r, q))
  <2>1. slots[s].leases <= Cardinality(Inside(s)) /\ x.sl.leases = slots[s].leases
    BY <1>1 DEF Booked, Near
  <2>2. (Inside(s) \ {r}) \cup Here1(r, q) = Inside(s)
    BY <1>1, InsideIs DEF Here1
  <2> QED
    BY <2>1, <2>2
<1>3. x.sl.queued = (slots[s].queued \ {r}) \cup (IF q.pc \in Queuing THEN {r} ELSE {})
  BY <1>1 DEF Near
<1>4. Steps(x, r, q, s)
  BY <1>2, <1>3 DEF Steps, Near
<1> QED
  BY <1>1, <1>4, BooksStep

(* The program counter or a flag of a request changes, nothing else.       *)
LEMMA FlagBooks ==
  ASSUME IInv, Books, NEW r \in Req, NEW q \in ReqState, q.at = req[r].at,
         q.task = req[r].task, UNCHANGED <<slots, pool>>,
         Tracks(Here(r, q.at), r, q),
         q.pc \in Queuing <=> req[r].pc \in Queuing,
         q.pc \in Running <=> req[r].pc \in Running,
         req' = [req EXCEPT ![r] = q]
  PROVE  Books'
<1>1. q.at \in Slot
  BY DEF ReqState
<1>2. Near(Here(r, q.at), r, q.at) /\ Here(r, q.at).sl = slots[q.at] /\ Here(r, q.at).pl = pool
  BY <1>1, NearHere
<1>3. Store(q.at, Here(r, q.at))
  BY <1>1, <1>2, NearHere DEF Store
<1>4. slots[q.at].owner = r => q.pc \in Running \/ q.task \in Deciding
  BY <1>1, BookFacts
<1> HIDE DEF Here
<1> QED
  BY <1>2, <1>3, <1>4, NearSteps

(* The finalizer runs: the request is outside, without lane or lease.      *)
LEMMA LeaveBooks ==
  ASSUME IInv, Books, NEW r \in Req, req[r].pc \in Running,
         NEW x, x.tk \in Tasks, Near(x, r, req[r].at),
         req[r].pc = "acquiring" => x.tk = "done",
         Leave(r, req[r].at, x)
  PROVE  Books'
<1> DEFINE s == req[r].at
           y == Finalize(x, r)
           slow == x.tk # "none" /\ req[r].pc # "acquiring"
           p == [y.pl EXCEPT !.abandoned = @ \ {r}]
           u == View(y.sl, p, y.tk)
           z == IF slow THEN y ELSE u
           q == [req[r] EXCEPT !.pc = IF slow THEN "closing" ELSE "done",
                               !.task = x.tk, !.kill = slow /\ x.tk # "done"]
<1>1. req[r] \in ReqState /\ s \in Slot
  BY BookFacts
<1>2. /\ Like(y) /\ y.tk = x.tk
      /\ y.sl.queued = x.sl.queued \ {r}
      /\ y.sl.leases = (IF x.sl.leases > 0 THEN x.sl.leases - 1 ELSE 0)
      /\ y.sl.owner = (IF x.sl.owner = r THEN None ELSE x.sl.owner)
      /\ y.pl.abandoned = x.pl.abandoned \cup {r}
  BY FinalizeBooks DEF Near
<1>3. Store(s, z) /\ req' = [req EXCEPT ![r] = q]
  BY DEF Leave
<1>4. /\ q \in ReqState /\ q.at = s /\ q.task = x.tk
      /\ q.pc = (IF slow THEN "closing" ELSE "done") /\ q.kill = (slow /\ x.tk # "done")
  BY <1>1 DEF ReqState, PCs
<1> HIDE DEF y, q
<1>5. p.abandoned = y.pl.abandoned \ {r}
  BY <1>2 DEF Like, PoolLike
<1>6. /\ z.sl = y.sl /\ z.pl.abandoned \subseteq x.pl.abandoned \cup {r}
      /\ ~slow => r \notin z.pl.abandoned
  <2> HIDE DEF p
  <2>1. u.sl = y.sl /\ u.pl = p
    BY ViewIs
  <2>2. CASE slow
    BY <1>2, <2>2
  <2>3. CASE ~slow
    BY <1>2, <1>5, <2>1, <2>3
  <2> QED
    BY <2>2, <2>3
<1> HIDE DEF z
<1>7. Steps(z, r, q, s)
  <2>1. Booked(s) /\ slots[s].leases \in Nat /\ slots[s].queued \subseteq Req
    BY <1>1, NearHere DEF Books
  <2>2. z.sl.queued = (slots[s].queued \ {r}) \cup (IF q.pc \in Queuing THEN {r} ELSE {})
    BY <1>2, <1>4, <1>6 DEF Near, Queuing
  <2>3. z.sl.owner # slots[s].owner =>
          z.sl.owner \in {None, r} /\ slots[s].owner \notin slots[s].queued \ {r}
    BY <1>2, <1>6 DEF Near
  <2>4. \A o \in z.pl.abandoned \ pool.abandoned : o # r =>
          o \in pool.tasks /\ o = slots[s].owner /\ o \notin slots[s].queued
    BY <1>6 DEF Near
  <2>5. Tracks(z, r, q)
    BY <1>4, <1>6 DEF Tracks
  <2>6. z.sl.owner # r
    BY <1>2, <1>6, NoneAssumption
  <2>7. z.sl.leases <= Cardinality((Inside(s) \ {r}) \cup Here1(r, q))
    <3>1. (Inside(s) \ {r}) \cup Here1(r, q) = Inside(s) \ {r}
      BY <1>4 DEF Here1, Running
    <3>2. slots[s].leases <= Cardinality(Inside(s) \ {r}) + 1
      BY <1>1, <2>1, LeaseCounts, InsideIs DEF Booked
    <3>3. z.sl.leases = (IF slots[s].leases > 0 THEN slots[s].leases - 1 ELSE 0)
      BY <1>2, <1>6 DEF Near
    <3>4. Cardinality(Inside(s) \ {r}) \in Nat
      BY <1>1, LeaseCounts
    <3>5. \A l, n \in Nat : l <= n + 1 => (IF l > 0 THEN l - 1 ELSE 0) <= n
      OBVIOUS
    <3>6. (IF slots[s].leases > 0 THEN slots[s].leases - 1 ELSE 0) <= Cardinality(Inside(s) \ {r})
      BY <2>1, <3>2, <3>4, <3>5
    <3> QED
      BY <3>1, <3>3, <3>6
  <2> QED
    BY <2>2, <2>3, <2>4, <2>5, <2>6, <2>7 DEF Steps
<1> QED
  BY <1>1, <1>3, <1>4, <1>7, BooksStep

(* The request moves on inside with a near view, or goes to its worker.    *)
LEMMA MoveBooks ==
  ASSUME IInv, Books, NEW r \in Req, NEW p \in {"acquiring", "running", "handed"},
         NEW x, x.tk \in Tasks, Near(x, r, req[r].at), Store(req[r].at, x), Move(r, p, x),
         req[r].pc \in {"acquiring", "running", "handed"}
  PROVE  Books'
<1> DEFINE q == [req[r] EXCEPT !.pc = p, !.task = x.tk]
<1>1. req[r] \in ReqState
  BY BookFacts
<1>2. q \in ReqState /\ q.at = req[r].at /\ q.task = x.tk /\ q.pc = p /\ req' = [req EXCEPT ![r] = q]
  BY <1>1 DEF ReqState, PCs, Move
<1> HIDE DEF q
<1>3. Tracks(x, r, q)
  BY <1>2 DEF Tracks
<1> QED
  BY <1>2, <1>3, NearSteps DEF Queuing, Running

(* The request leaves the queue with its lane.                             *)
LEMMA DequeueBooks ==
  ASSUME IInv, Books, NEW r \in Req, NEW p \in {"ownedYield", "running", "handed"},
         req[r].pc \in {"waiting", "beat"},
         LET y == View(Dequeued(slots[req[r].at], r), pool, req[r].task) IN
         Store(req[r].at, y) /\ Move(r, p, y)
  PROVE  Books'
<1> DEFINE s == req[r].at
           y == View(Dequeued(slots[s], r), pool, req[r].task)
           q == [req[r] EXCEPT !.pc = p, !.task = req[r].task]
<1>1. req[r] \in ReqState /\ s \in Slot /\ Booked(s) /\ slots[s] \in SlotState
  BY BookFacts, NearHere DEF Books
<1>2. /\ y.sl.queued = slots[s].queued \ {r} /\ y.sl.owner = slots[s].owner
      /\ y.sl.leases = slots[s].leases /\ y.pl = pool /\ y.tk = req[r].task
  BY <1>1, ViewIs DEF Dequeued, SlotState
<1>3. /\ q \in ReqState /\ q.at = s /\ q.pc = p
      /\ Store(s, y) /\ req' = [req EXCEPT ![r] = q]
  BY <1>1, <1>2 DEF ReqState, PCs, Move
<1> HIDE DEF q, y
<1>4. Tracks(y, r, q)
  BY <1>3 DEF Tracks
<1>5. y.sl.leases <= Cardinality((Inside(s) \ {r}) \cup Here1(r, q))
  <2>1. (Inside(s) \ {r}) \cup Here1(r, q) = Inside(s)
    BY <1>1, <1>3, InsideIs DEF Here1, Running
  <2> QED
    BY <1>1, <1>2, <2>1 DEF Booked
<1>6. Steps(y, r, q, s)
  BY <1>2, <1>3, <1>4, <1>5 DEF Steps, Queuing, Running
<1> QED
  BY <1>1, <1>3, <1>6, BooksStep

(* ToWorker stores its view and moves the request to running or handed. *)
LEMMA ToWorkerIs ==
  ASSUME NEW r, NEW s, NEW x, ToWorker(r, s, x)
  PROVE  Store(s, x) /\ \E p \in {"running", "handed"} : Move(r, p, x)
BY DEF ToWorker

(* A step of the acquire task keeps the books. *)
LEMMA TaskStepBooks ==
  ASSUME IInv, Books, NEW r \in Req, TaskStep(r)
  PROVE  Books'
<1> DEFINE s == req[r].at
<1>1. PICK x \in TaskOutcomes(r) :
        IF req[r].pc # "acquiring"
          THEN /\ Store(s, x)
               /\ req' = [req EXCEPT ![r].task = x.tk, ![r].kill = @ /\ x.tk # "done"]
        ELSE IF req[r].kill THEN Leave(r, s, x)
        ELSE IF x.tk = "done" THEN ToWorker(r, s, x)
        ELSE Store(s, x) /\ Move(r, "acquiring", x)
  BY DEF TaskStep
<1>2. /\ (req[r].kill => x.tk = "done") /\ req[r].task # "none" /\ x.tk \in Tasks
      /\ x.tk \in InFlight \cup {"done"}
  BY TaskFits DEF InFlight, Tasks
<1>3. /\ Acts(Here(r, s), x, r)
      /\ ~req[r].kill /\ r \notin pool.abandoned /\ x.tk = "done" => x.sl.owner = r
      /\ req[r].kill => x.sl.owner # r
      /\ req[r].kill /\ req[r].task # "spawned" => r \notin x.pl.abandoned
  BY TaskActs
<1>4. /\ s \in Slot /\ req[r] \in ReqState /\ Tracks(View(slots[s], pool, req[r].task), r, req[r])
      /\ req[r].pc \in {"idle", "expanding"} => req[r].task = "none"
      /\ req[r].kill \in BOOLEAN /\ req[r].pc \in PCs
  BY BookFacts DEF ReqState
<1>5. Near(x, r, s) /\ x.pl.abandoned \subseteq pool.abandoned
  BY <1>3, <1>4, NearActed, NearHere DEF Acts
<1>6. req[r].task # "done"
  BY DEF TaskOutcomes
<1>7. CASE req[r].pc # "acquiring"
  <2> DEFINE q == [req[r] EXCEPT !.task = x.tk, !.kill = @ /\ x.tk # "done"]
  <2>1. /\ q \in ReqState /\ q.at = s /\ q.task = x.tk /\ q.pc = req[r].pc
        /\ q.kill = (req[r].kill /\ x.tk # "done")
    BY <1>2, <1>4 DEF ReqState
  <2>2. Store(s, x) /\ req' = [req EXCEPT ![r] = q]
    BY <1>1, <1>7
  <2> HIDE DEF q
  <2>3. req[r].pc \in {"closing", "done"} => req[r].kill /\ x.tk = "done"
    BY <1>2, <1>4, <1>6 DEF Tracks
  <2>4. r \in pool.abandoned =>
          req[r].pc \notin {"idle", "expanding", "done"} \/ req[r].task \in InFlight
    BY <1>4, ViewIs DEF Tracks
  <2>5. req[r].pc \in {"waiting", "beat"} => ~req[r].kill /\ r \notin pool.abandoned
    BY <1>4, ViewIs DEF Tracks
  <2>6. r \in x.pl.abandoned => q.pc \notin {"idle", "expanding", "done"}
    <3>1. SUFFICES ASSUME r \in x.pl.abandoned, req[r].pc = "done" PROVE FALSE
      BY <1>2, <1>4, <2>1
    <3>2. req[r].task \in InFlight /\ req[r].kill
      BY <1>5, <2>3, <2>4, <3>1
    <3> QED
      BY <1>3, <3>1, <3>2 DEF InFlight
  <2>7. Tracks(x, r, q)
    BY <1>2, <1>3, <1>4, <1>5, <2>1, <2>3, <2>5, <2>6 DEF Tracks
  <2>8. x.sl.owner = r => q.pc \in Running
    BY <1>2, <1>3, <1>4, <1>7, <2>1, <2>3 DEF Running, PCs
  <2> QED
    BY <1>5, <2>1, <2>2, <2>7, <2>8, NearSteps
<1>8. CASE req[r].pc = "acquiring" /\ req[r].kill
  BY <1>1, <1>2, <1>5, <1>8, LeaveBooks DEF Running
<1>9. CASE req[r].pc = "acquiring" /\ ~req[r].kill
  <2>1. Store(s, x) /\ \E p \in {"acquiring", "running", "handed"} : Move(r, p, x)
    BY <1>1, <1>9, ToWorkerIs
  <2> QED
    BY <1>2, <1>5, <1>9, <2>1, MoveBooks
<1> QED
  BY <1>7, <1>8, <1>9

(* A queued request whose acquisition is over leaves or goes on. *)
LEMMA AfterAcquireBooks ==
  ASSUME IInv, Books, NEW r \in Req, req[r].pc \in {"waiting", "beat"}, AfterAcquire(r)
  PROVE  Books'
<1> DEFINE s == req[r].at
           x == Here(r, s)
           y == View(Dequeued(x.sl, r), x.pl, x.tk)
<1>1. s \in Slot /\ req[r].task \in Tasks
  BY BookFacts
<1>2. Near(x, r, s) /\ x.sl = slots[s] /\ x.pl = pool /\ x.tk = req[r].task
  BY <1>1, NearHere
<1>3. \/ Leave(r, s, x)
      \/ Store(s, y) /\ Move(r, "ownedYield", y)
      \/ ToWorker(r, s, y)
  BY DEF AfterAcquire
<1>4. y = View(Dequeued(slots[s], r), pool, req[r].task)
  BY <1>2
<1> HIDE DEF x, y
<1>5. CASE Leave(r, s, x)
  BY <1>1, <1>2, <1>5, LeaveBooks DEF Running
<1>6. CASE (Store(s, y) /\ Move(r, "ownedYield", y)) \/ ToWorker(r, s, y)
  <2>1. Store(s, y) /\ \E p \in {"ownedYield", "running", "handed"} : Move(r, p, y)
    BY <1>6, ToWorkerIs
  <2> QED
    BY <1>4, <2>1, DequeueBooks
<1> QED
  BY <1>3, <1>5, <1>6

(* The request goes round its waiting loop once more. *)
LEMMA BeatBooks ==
  ASSUME IInv, Books, NEW r \in Req, BeatResumes(r)
  PROVE  Books'
<1> DEFINE s == req[r].at
           x == RecoverLane(Here(r, s), s)
           q == [req[r] EXCEPT !.pc = "waiting", !.task = x.tk]
<1>1. /\ s \in Slot /\ req[r] \in ReqState /\ req[r].pc = "beat"
      /\ Tracks(View(slots[s], pool, req[r].task), r, req[r])
      /\ r \in slots[s].queued
  BY BookFacts DEF BeatResumes, Queuing
<1>2. /\ Near(x, r, s) /\ x.tk = req[r].task
      /\ r \in x.pl.abandoned => r \in pool.abandoned
  BY <1>1, NearHere, NearRecovered DEF Recovers
<1>3. CASE req[r].task = "done"
  BY <1>1, <1>3, AfterAcquireBooks DEF BeatResumes
<1>4. CASE req[r].task # "done"
  <2>1. Store(s, x) /\ req' = [req EXCEPT ![r] = q]
    BY <1>4 DEF BeatResumes, Move
  <2>2. /\ q \in ReqState /\ q.at = s /\ q.pc = "waiting" /\ q.task = req[r].task
        /\ q.kill = req[r].kill
    BY <1>1, <1>2 DEF ReqState, PCs
  <2> HIDE DEF x, q
  <2>3. ~req[r].kill /\ r \notin pool.abandoned
    BY <1>1, ViewIs DEF Tracks
  <2>4. Tracks(x, r, q)
    BY <1>2, <1>4, <2>2, <2>3 DEF Tracks
  <2> QED
    BY <1>1, <1>2, <2>1, <2>2, <2>4, NearSteps DEF Queuing, Running
<1> QED
  BY <1>3, <1>4

(* A new request takes its lease. *)
LEMMA EnterBooks ==
  ASSUME IInv, Books, NEW r \in Req, NEW s \in Slot, req[r].pc \in {"idle", "expanding"},
         Enter(r, s)
  PROVE  Books'
<1> DEFINE x == RecoverLane(Here(r, s), s)
           sl == [x.sl EXCEPT !.leases = @ + 1]
           y == View(sl, x.pl, x.tk)
           sq == [y.sl EXCEPT !.queued = @ \cup {r}]
           v == View(sq, y.pl, "spawned")
           w == RecoverLane(v, s)
<1>1. /\ req[r] \in ReqState /\ req[r].task = "none" /\ ~req[r].kill
      /\ r \notin pool.abandoned /\ r \notin pool.tasks /\ r \notin slots[s].queued
      /\ slots[s].owner # r /\ r \notin Inside(s)
  <2>1. /\ req[r] \in ReqState /\ req[r].task = "none"
        /\ Tracks(View(slots[req[r].at], pool, req[r].task), r, req[r])
        /\ r \in slots[req[r].at].queued <=> req[r].pc \in Queuing
        /\ r \in slots[s].queued => req[r].at = s
        /\ slots[s].owner = r => req[r].task \in Deciding \cup {"done"}
        /\ r \in pool.tasks <=> req[r].task \in InFlight
    BY BookFacts
  <2> QED
    BY <2>1, ViewIs, InsideIs DEF Tracks, InFlight, Deciding, Queuing, Running
<1>2. /\ Like(x) /\ Near(x, r, s) /\ x.tk = "none" /\ r \notin x.pl.abandoned
      /\ x.pl.tasks = pool.tasks /\ LockAgrees(x.sl)
      /\ x.sl.owner \in {slots[s].owner, None}
  BY <1>1, NearHere, NearRecovered DEF Recovers
<1> HIDE DEF x
<1>3. /\ SlotLike(sl) /\ sl.leases = slots[s].leases + 1 /\ sl.owner = x.sl.owner
      /\ sl.queued = slots[s].queued /\ LockAgrees(sl)
  BY <1>2 DEF Like, Near, SlotLike, LockAgrees
<1> HIDE DEF sl
<1>4. y.sl = sl /\ y.pl = x.pl /\ y.tk = "none" /\ Like(y)
  BY <1>2, <1>3, ViewIs DEF Like
<1> HIDE DEF y
<1>5. /\ SlotLike(sq) /\ sq.leases = sl.leases /\ sq.owner = x.sl.owner
      /\ sq.queued = slots[s].queued \cup {r}
  BY <1>3, <1>4 DEF SlotLike
<1> HIDE DEF sq
<1>6. v.sl = sq /\ v.pl = x.pl /\ v.tk = "spawned" /\ Like(v)
  BY <1>2, <1>4, <1>5, ViewIs DEF Like
<1> HIDE DEF v
<1>7. Recovers(v, w)
  BY <1>6, RecoverBooks
<1> HIDE DEF w
<1>8. slots[s].leases <= Cardinality(Inside(s)) /\ slots[s].leases \in Nat
      /\ slots[s].queued \subseteq Req /\ pool.tasks \subseteq Req
      /\ slots[s].owner \in Req \cup {None}
  BY NearHere DEF Books, Booked
<1>9. ASSUME NEW q
      PROVE  Cardinality((Inside(s) \ {r}) \cup Here1(r, q))
               = Cardinality(Inside(s)) + (IF q.pc \in Running THEN 1 ELSE 0)
  <2>1. /\ Inside(s) \ {r} = Inside(s)
        /\ Cardinality((Inside(s) \ {r}) \cup {r}) = Cardinality(Inside(s)) + 1
        /\ Cardinality(Inside(s)) \in Nat
    BY <1>1, LeaseCounts
  <2>2. CASE q.pc \in Running
    <3>1. Here1(r, q) = {r}
      BY <2>2 DEF Here1
    <3> QED
      BY <2>1, <2>2, <3>1
  <2>3. CASE q.pc \notin Running
    <3>1. (Inside(s) \ {r}) \cup Here1(r, q) = Inside(s)
      BY <2>1, <2>3 DEF Here1
    <3>2. Cardinality(Inside(s)) = Cardinality(Inside(s)) + 0
      BY <2>1
    <3> QED
      BY <2>3, <3>1, <3>2
  <2> QED
    BY <2>2, <2>3
<1>11. CASE Store(s, x) /\ req' = [req EXCEPT ![r].at = s, ![r].pc = "done", ![r].task = x.tk]
  <2> DEFINE q == [req[r] EXCEPT !.at = s, !.pc = "done", !.task = x.tk]
  <2>10. q \in ReqState /\ q.at = s /\ q.pc = "done" /\ q.task = "none" /\ ~q.kill
    BY <1>1, <1>2 DEF ReqState, PCs, Tasks
  <2>11. Store(s, x) /\ req' = [req EXCEPT ![r] = q]
    BY <1>11
  <2> HIDE DEF q
  <2>1. /\ q.pc = "done" /\ q.task = "none" /\ ~q.kill
        /\ Cardinality((Inside(s) \ {r}) \cup Here1(r, q)) = Cardinality(Inside(s)) + 0
    BY <2>10, <1>9 DEF Running
  <2>2. Cardinality(Inside(s)) \in Nat
    BY LeaseCounts
  <2>3. x.sl.leases <= Cardinality((Inside(s) \ {r}) \cup Here1(r, q))
    BY <1>2, <1>8, <2>1, <2>2 DEF Near
  <2>4. Tracks(x, r, q)
    BY <1>2, <2>1 DEF Tracks
  <2>5. x.sl.queued = (slots[s].queued \ {r}) \cup (IF q.pc \in Queuing THEN {r} ELSE {})
    BY <1>1, <1>2, <2>1 DEF Near, Queuing
  <2>6. x.sl.owner # r
    BY <1>1, <1>2, NoneAssumption
  <2>7. Steps(x, r, q, s)
    BY <1>2, <2>3, <2>4, <2>5, <2>6 DEF Steps, Near
  <2> QED
    BY <1>1, <2>10, <2>11, <2>7, BooksStep
<1>12. CASE Store(s, w) /\ req' = [req EXCEPT ![r].at = s, ![r].pc = "waiting", ![r].task = w.tk]
  <2> DEFINE q == [req[r] EXCEPT !.at = s, !.pc = "waiting", !.task = w.tk]
  <2>10. q \in ReqState /\ q.at = s /\ q.pc = "waiting" /\ q.task = "spawned" /\ ~q.kill
    <3>1. w.tk = "spawned"
      BY <1>6, <1>7 DEF Recovers
    <3> QED
      BY <1>1, <3>1 DEF ReqState, PCs, Tasks
  <2>11. Store(s, w) /\ req' = [req EXCEPT ![r] = q]
    BY <1>12
  <2> HIDE DEF q
  <2>1. /\ q.pc = "waiting" /\ q.task = "spawned" /\ ~q.kill
        /\ Cardinality((Inside(s) \ {r}) \cup Here1(r, q)) = Cardinality(Inside(s)) + 1
    BY <2>10, <1>9 DEF Running
  <2>2. Cardinality(Inside(s)) \in Nat
    BY LeaseCounts
  <2>3. w.sl.leases <= Cardinality((Inside(s) \ {r}) \cup Here1(r, q))
    BY <1>3, <1>5, <1>6, <1>7, <1>8, <2>1, <2>2 DEF Recovers
  <2>4. r \notin w.pl.abandoned
    BY <1>2, <1>5, <1>6, <1>7 DEF Recovers
  <2>5. Tracks(w, r, q)
    BY <2>1, <2>4 DEF Tracks
  <2>6. w.sl.queued = (slots[s].queued \ {r}) \cup (IF q.pc \in Queuing THEN {r} ELSE {})
    BY <1>1, <1>5, <1>6, <1>7, <2>1 DEF Recovers, Queuing
  <2>7. w.sl.owner # slots[s].owner =>
          w.sl.owner \in {None, r} /\ slots[s].owner \notin slots[s].queued \ {r}
    BY <1>2, <1>5, <1>6, <1>7 DEF Recovers, Near
  <2>8. \A o \in w.pl.abandoned \ pool.abandoned : o # r =>
          o \in pool.tasks /\ o = slots[s].owner /\ o \notin slots[s].queued
    <3>1. SUFFICES ASSUME NEW o \in w.pl.abandoned \ pool.abandoned, o # r
                   PROVE  o \in pool.tasks /\ o = slots[s].owner /\ o \notin slots[s].queued
      OBVIOUS
    <3>2. CASE o \in x.pl.abandoned
      BY <1>2, <3>1, <3>2 DEF Near
    <3>3. CASE o \notin x.pl.abandoned
      BY <1>2, <1>5, <1>6, <1>7, <1>8, <3>1, <3>3, NoneAssumption DEF Recovers
    <3> QED
      BY <3>2, <3>3
  <2>9. Steps(w, r, q, s)
    BY <2>1, <2>3, <2>5, <2>6, <2>7, <2>8 DEF Steps, Running
  <2> QED
    BY <1>1, <2>10, <2>11, <2>9, BooksStep
<1>13. CASE \E z \in StartAcquire(y, r) :
              /\ Store(s, z)
              /\ \E p \in {"acquiring", "running", "handed"} :
                   req' = [req EXCEPT ![r].at = s, ![r].pc = p, ![r].task = z.tk]
  <2>1. PICK z \in StartAcquire(y, r), p \in {"acquiring", "running", "handed"} :
          Store(s, z) /\ req' = [req EXCEPT ![r].at = s, ![r].pc = p, ![r].task = z.tk]
    BY <1>13
  <2>2. z.tk \in Tasks
    <3>1. Fits(y, r, s) /\ y.tk = "none"
      <4>1. Fits(Here(r, s), r, s)
        BY <1>1, HereFits
      <4>2. Fits(x, r, s)
        BY <4>1, RecoverFits DEF x
      <4>3. SameLane(sl, x.sl)
        <5>1. x.sl \in SlotState /\ x.sl.leases + 1 \in Nat
          BY <4>2, FieldTypes DEF Fits, SlotState
        <5> QED
          BY <5>1 DEF SameLane, SlotState, sl
      <4> QED
        BY <1>4, <4>2, <4>3, QuietFits DEF y
    <3> QED
      BY <2>1, <3>1, StartFits DEF InFlight, Tasks
  <2> DEFINE q == [req[r] EXCEPT !.at = s, !.pc = p, !.task = z.tk]
  <2>11. q \in ReqState /\ q.at = s /\ q.pc = p /\ q.task = z.tk
    BY <1>1, <2>2 DEF ReqState, PCs
  <2>12. Store(s, z) /\ req' = [req EXCEPT ![r] = q]
    BY <2>1
  <2> HIDE DEF q
  <2>3. /\ q.pc = p /\ q.task = z.tk
        /\ Cardinality((Inside(s) \ {r}) \cup Here1(r, q)) = Cardinality(Inside(s)) + 1
    BY <2>11, <1>9 DEF Running
  <2>4. Acts(y, z, r)
    BY <1>3, <1>4, <2>1, StartActs DEF LockAgrees
  <2>5. z.sl.leases <= Cardinality((Inside(s) \ {r}) \cup Here1(r, q))
    <3>1. Cardinality(Inside(s)) \in Nat
      BY LeaseCounts
    <3> QED
      BY <1>3, <1>4, <1>8, <2>3, <2>4, <3>1 DEF Acts
  <2>6. Tracks(z, r, q)
    BY <2>3 DEF Tracks
  <2>7. z.sl.queued = (slots[s].queued \ {r}) \cup (IF q.pc \in Queuing THEN {r} ELSE {})
    BY <1>1, <1>3, <1>4, <2>3, <2>4 DEF Acts, Queuing
  <2>8. z.sl.owner # slots[s].owner =>
          z.sl.owner \in {None, r} /\ slots[s].owner \notin slots[s].queued \ {r}
    BY <1>2, <1>3, <1>4, <1>8, <2>4, NoneAssumption DEF Acts, Near
  <2>9. \A o \in z.pl.abandoned \ pool.abandoned : o # r =>
          o \in pool.tasks /\ o = slots[s].owner /\ o \notin slots[s].queued
    BY <1>2, <1>4, <2>4 DEF Acts, Near
  <2>10. Steps(z, r, q, s)
    BY <2>3, <2>5, <2>6, <2>7, <2>8, <2>9 DEF Steps, Running
  <2> QED
    BY <1>1, <2>10, <2>11, <2>12, BooksStep
<1> QED
  BY <1>11, <1>12, <1>13 DEF Enter, x, y, sl, sq, v, w

(* A new request enters a slot or waits for a replica to be loaded. *)
LEMMA ArriveBooks ==
  ASSUME IInv, Books, NEW r \in Req, Arrive(r)
  PROVE  Books'
<1>1. /\ req[r].pc = "idle" /\ req[r] \in ReqState /\ req[r].task = "none"
      /\ Tracks(View(slots[req[r].at], pool, req[r].task), r, req[r])
      /\ r \notin slots[req[r].at].queued
      /\ \A u \in Slot : r \in slots[u].queued => req[r].at = u
      /\ \A u \in Slot : slots[u].owner # r
  BY BookFacts DEF Arrive, Queuing, Deciding
<1>2. PICK s \in Slot :
        \/ Enter(r, s)
        \/ /\ req' = [req EXCEPT ![r].pc = "expanding", ![r].at = s]
           /\ UNCHANGED <<slots, pool>>
  BY DEF Arrive, Pick
<1>3. CASE Enter(r, s)
  BY <1>1, <1>3, EnterBooks
<1>4. CASE req' = [req EXCEPT ![r].pc = "expanding", ![r].at = s] /\ UNCHANGED <<slots, pool>>
  <2> DEFINE q == [req[r] EXCEPT !.pc = "expanding", !.at = s]
             x == Here(r, s)
  <2>1. /\ q \in ReqState /\ q.at = s /\ q.pc = "expanding" /\ q.task = "none"
        /\ q.kill = req[r].kill /\ req' = [req EXCEPT ![r] = q]
    BY <1>1, <1>4 DEF ReqState, PCs
  <2> HIDE DEF q
  <2>2. /\ x.sl = slots[s] /\ x.pl = pool /\ Booked(s)
        /\ slots \in [Slot -> SlotState]
    BY NearHere DEF Books
  <2> HIDE DEF x
  <2>3. Store(s, x)
    BY <1>4, <2>2 DEF Store
  <2>4. ~req[r].kill /\ r \notin pool.abandoned
    BY <1>1, ViewIs DEF Tracks, InFlight
  <2>5. Tracks(x, r, q)
    BY <2>1, <2>2, <2>4 DEF Tracks
  <2>6. x.sl.leases <= Cardinality((Inside(s) \ {r}) \cup Here1(r, q))
    <3>1. r \notin Inside(s)
      BY <1>1, InsideIs DEF Running
    <3>2. (Inside(s) \ {r}) \cup Here1(r, q) = Inside(s)
      BY <2>1, <3>1 DEF Here1, Running
    <3> QED
      BY <2>2, <3>2 DEF Booked
  <2>7. x.sl.queued = (slots[s].queued \ {r}) \cup (IF q.pc \in Queuing THEN {r} ELSE {})
    BY <1>1, <2>1, <2>2 DEF Queuing
  <2>8. x.sl.owner = slots[s].owner /\ slots[s].owner # r
    BY <1>1, <2>2
  <2>9. Steps(x, r, q, s)
    BY <2>2, <2>5, <2>6, <2>7, <2>8 DEF Steps
  <2> QED
    BY <1>1, <2>1, <2>3, <2>9, BooksStep
<1> QED
  BY <1>2, <1>3, <1>4

(* What changes neither a slot, the pool nor a request keeps the books. *)
LEMMA QuietBooks ==
  ASSUME Books, UNCHANGED <<slots, pool, req>>
  PROVE  Books'
BY DEF Books, Tracked, Booked, Inside, Entered

(* The finalizer of a request that sees its slot as it is. *)
LEMMA LeaveHere ==
  ASSUME IInv, Books, NEW r \in Req, req[r].pc \in Running \ {"acquiring"},
         Leave(r, req[r].at, Here(r, req[r].at))
  PROVE  Books'
<1> DEFINE x == Here(r, req[r].at)
<1>1. Near(x, r, req[r].at) /\ x.tk = req[r].task /\ req[r].task \in Tasks
  BY BookFacts, NearHere
<1> HIDE DEF x
<1> QED
  BY <1>1, LeaveBooks DEF x

(* A request that changes a flag keeps what its state says of the books. *)
LEMMA FlagTracks ==
  ASSUME IInv, Books, NEW r \in Req, NEW q \in ReqState, q.at = req[r].at,
         q.task = req[r].task, UNCHANGED <<slots, pool>>,
         \/ q.pc = req[r].pc /\ q.kill = req[r].kill
         \/ q.pc = "acquiring" /\ req[r].pc = "acquiring"
         \/ q.pc = "beat" /\ req[r].pc = "waiting" /\ q.kill = req[r].kill
         \/ q.pc = "cancelYield" /\ req[r].pc = "waiting",
         req' = [req EXCEPT ![r] = q]
  PROVE  Books'
<1>1. /\ Here(r, q.at).sl = slots[q.at] /\ Here(r, q.at).pl = pool
      /\ Tracks(View(slots[q.at], pool, req[r].task), r, req[r])
  BY BookFacts, ViewIs DEF Here
<1>2. Tracks(Here(r, q.at), r, q)
  BY <1>1, ViewIs DEF Tracks
<1> QED
  BY <1>2, FlagBooks DEF Queuing, Running

(* What the client's side does to a request keeps the books. *)
LEMMA ClientBooks ==
  ASSUME IInv, Books, NEW r \in Req, Client(r)
  PROVE  Books'
<1>1. /\ req[r] \in ReqState /\ req[r].at \in Slot
      /\ Tracks(View(slots[req[r].at], pool, req[r].task), r, req[r])
      /\ req[r].pc \in {"idle", "expanding"} => req[r].task = "none"
  BY BookFacts
<1>2. CASE Arrive(r)
  BY <1>2, ArriveBooks
<1>3. CASE Cancel(r)
  <2> DEFINE q == [req[r] EXCEPT !.cancel = TRUE]
  <2>1. /\ q \in ReqState /\ q.at = req[r].at /\ q.task = req[r].task
        /\ q.pc = req[r].pc /\ q.kill = req[r].kill
    BY <1>1 DEF ReqState
  <2>2. req' = [req EXCEPT ![r] = q] /\ UNCHANGED <<slots, pool>>
    BY <1>3 DEF Cancel
  <2> HIDE DEF q
  <2> QED
    BY <2>1, <2>2, FlagTracks
<1>4. CASE req[r].pc = "expanding" /\ Disconnect(r)
  <2> DEFINE q == [req[r] EXCEPT !.pc = "done"]
  <2>1. /\ q \in ReqState /\ q.at = req[r].at /\ q.task = req[r].task
        /\ q.pc = "done" /\ q.kill = req[r].kill
    BY <1>1 DEF ReqState, PCs
  <2>2. req' = [req EXCEPT ![r] = q] /\ UNCHANGED <<slots, pool>>
    BY <1>4 DEF Disconnect
  <2> HIDE DEF q
  <2>3. Here(r, q.at).sl = slots[q.at] /\ Here(r, q.at).pl = pool
    BY ViewIs DEF Here
  <2>4. r \notin pool.abandoned
    BY <1>1, <1>4, ViewIs DEF Tracks, InFlight
  <2>5. Tracks(Here(r, q.at), r, q)
    BY <1>1, <1>4, <2>1, <2>3, <2>4 DEF Tracks
  <2> QED
    BY <1>4, <2>1, <2>2, <2>5, FlagBooks DEF Queuing, Running
<1>5. CASE req[r].pc = "acquiring" /\ Disconnect(r)
  <2> DEFINE q == [req[r] EXCEPT !.kill = TRUE]
  <2>1. /\ q \in ReqState /\ q.at = req[r].at /\ q.task = req[r].task
        /\ q.pc = req[r].pc
    BY <1>1 DEF ReqState
  <2>2. req' = [req EXCEPT ![r] = q] /\ UNCHANGED <<slots, pool>>
    BY <1>5 DEF Disconnect
  <2> HIDE DEF q
  <2> QED
    BY <1>5, <2>1, <2>2, FlagTracks
<1>6. CASE req[r].pc = "waiting" /\ Disconnect(r)
  BY <1>6, LeaveHere DEF Disconnect, Running
<1>7. CASE QueueTimeout(r)
  <2> DEFINE x == RecoverLane(Here(r, req[r].at), req[r].at)
  <2>1. Near(x, r, req[r].at) /\ x.tk = req[r].task /\ req[r].task \in Tasks
    BY <1>1, NearHere, NearRecovered, BookFacts DEF Recovers
  <2>2. req[r].pc = "beat" /\ Leave(r, req[r].at, x)
    BY <1>7 DEF QueueTimeout
  <2> HIDE DEF x
  <2> QED
    BY <2>1, <2>2, LeaveBooks DEF Running
<1>8. CASE Heartbeat(r)
  <2> DEFINE q == [req[r] EXCEPT !.pc = "beat"]
  <2>1. /\ q \in ReqState /\ q.at = req[r].at /\ q.task = req[r].task
        /\ q.pc = "beat" /\ q.kill = req[r].kill
    BY <1>1 DEF ReqState, PCs
  <2>2. /\ req' = [req EXCEPT ![r] = q] /\ UNCHANGED <<slots, pool>>
        /\ req[r].pc = "waiting"
    BY <1>8 DEF Heartbeat
  <2> HIDE DEF q
  <2> QED
    BY <2>1, <2>2, FlagTracks
<1>9. Disconnect(r) => req[r].pc \in {"expanding", "acquiring", "waiting"}
  BY DEF Disconnect
<1> QED
  BY <1>2, <1>3, <1>4, <1>5, <1>6, <1>7, <1>8, <1>9 DEF Client

(* The finalizer's join drops the marker of a request whose task is over. *)
LEMMA JoinBooks ==
  ASSUME IInv, Books, NEW r \in Req, Join(r)
  PROVE  Books'
<1> DEFINE s == req[r].at
           x == View(slots[s], pool', req[r].task)
           q == [req[r] EXCEPT !.pc = "done"]
<1>1. /\ req[r] \in ReqState /\ s \in Slot /\ req[r].pc = "closing"
      /\ Tracks(View(slots[s], pool, req[r].task), r, req[r])
      /\ r \in pool.tasks <=> req[r].task \in InFlight
      /\ slots[s].owner = r => req[r].pc \in Running \/ req[r].task \in Deciding
      /\ slots \in [Slot -> SlotState] /\ SlotLike(slots[s]) /\ PoolLike(pool)
  BY BookFacts, NearHere DEF Join, Like
<1>2. /\ q \in ReqState /\ q.at = s /\ q.task = req[r].task /\ q.pc = "done"
      /\ q.kill = req[r].kill
  BY <1>1 DEF ReqState, PCs
<1>3. req' = [req EXCEPT ![r] = q] /\ slots' = slots
  BY DEF Join
<1> HIDE DEF q
<1>4. /\ PoolLike(pool') /\ pool'.abandoned \subseteq pool.abandoned
      /\ r \in pool'.abandoned => r \in pool.tasks
  BY <1>1 DEF Join, PoolLike
<1>5. x.sl = slots[s] /\ x.pl = pool' /\ x.tk = req[r].task
  BY ViewIs
<1> HIDE DEF x
<1>6. Store(s, x)
  BY <1>1, <1>3, <1>5 DEF Store
<1>7. Near(x, r, s)
  BY <1>1, <1>4, <1>5 DEF Near, Like
<1>8. Tracks(x, r, q)
  BY <1>1, <1>2, <1>4, <1>5 DEF Tracks
<1> QED
  BY <1>1, <1>2, <1>3, <1>5, <1>6, <1>7, <1>8, NearSteps DEF Queuing, Running

(* What the event loop does for a request keeps the books. *)
LEMMA LoopBooks ==
  ASSUME IInv, Books, NEW r \in Req, Loop(r)
  PROVE  Books'
<1>1. CASE Expanded(r)
  <2>1. req[r].pc = "expanding" /\ \E s \in Slot : Enter(r, s)
    BY <1>1, BookFacts DEF Expanded, Pick
  <2> QED
    BY <2>1, EnterBooks
<1>2. CASE TaskStep(r)
  BY <1>2, TaskStepBooks
<1>3. CASE WaitReturns(r)
  <2>1. CASE AfterAcquire(r)
    BY <1>3, <2>1, AfterAcquireBooks DEF WaitReturns
  <2>2. CASE req' = [req EXCEPT ![r].pc = "cancelYield"] /\ UNCHANGED <<slots, pool>>
    <3> DEFINE q == [req[r] EXCEPT !.pc = "cancelYield"]
    <3>1. req[r] \in ReqState /\ req[r].pc = "waiting"
      BY <1>3, BookFacts DEF WaitReturns
    <3>2. /\ q \in ReqState /\ q.at = req[r].at /\ q.task = req[r].task
          /\ q.pc = "cancelYield" /\ req' = [req EXCEPT ![r] = q]
      BY <2>2, <3>1 DEF ReqState, PCs
    <3> HIDE DEF q
    <3> QED
      BY <2>2, <3>1, <3>2, FlagTracks
  <2> QED
    BY <1>3, <2>1, <2>2 DEF WaitReturns
<1>4. CASE BeatResumes(r)
  BY <1>4, BeatBooks
<1>5. CASE Finish(r)
  BY <1>5, LeaveHere DEF Finish, Running
<1>6. CASE Close(r)
  BY <1>6, LeaveHere DEF Close, Running
<1>7. CASE Drain(r)
  BY <1>7, QuietBooks DEF Drain
<1>8. CASE WorkerAdmits(r)
  <2> DEFINE x == Here(r, req[r].at)
  <2>1. Near(x, r, req[r].at) /\ x.tk = req[r].task /\ req[r].task \in Tasks
    BY BookFacts, NearHere
  <2>2. req[r].pc = "handed" /\ ToWorker(r, req[r].at, x)
    BY <1>8 DEF WorkerAdmits
  <2> HIDE DEF x
  <2>3. Store(req[r].at, x) /\ \E p \in {"running", "handed"} : Move(r, p, x)
    BY <2>2, ToWorkerIs
  <2> QED
    BY <2>1, <2>2, <2>3, MoveBooks
<1>9. CASE Join(r)
  BY <1>9, JoinBooks
<1> QED
  BY <1>1, <1>2, <1>3, <1>4, <1>5, <1>6, <1>7, <1>8, <1>9 DEF Loop

-----------------------------------------------------------------------------
(* A poll may take a lane from an owner that is not queued, mark it when   *)
(* its task is in flight, and drop leases; it touches no request.          *)
LEMMA PollStep ==
  ASSUME IInv, Books, NEW s \in Slot, req' = req,
         \A u \in Slot \ {s} : slots'[u] = slots[u],
         slots'[s].queued = slots[s].queued,
         slots'[s].owner # slots[s].owner =>
           slots'[s].owner = None /\ slots[s].owner \notin slots[s].queued,
         slots'[s].leases \in {slots[s].leases, 0},
         \A o \in pool'.abandoned \ pool.abandoned :
           o \in pool.tasks /\ o = slots[s].owner /\ o \notin slots[s].queued
  PROVE  Books'
<1>1. \A u \in Slot : slots[u] \in SlotState
  BY TaskTypes DEF IInv
<1>2. ASSUME NEW o \in Req PROVE Tracked(o)'
  <2> DEFINE t == req[o].at
             v == View(slots[t], pool, req[o].task)
             w == View(slots'[t], pool', req[o].task)
  <2>1. /\ Tracks(v, o, req[o]) /\ t \in Slot
        /\ o \in slots[t].queued <=> req[o].pc \in Queuing
        /\ \A u \in Slot : slots[u].owner = o => t = u
        /\ o \in pool.tasks <=> req[o].task \in InFlight
    BY BookFacts
  <2>2. v.sl = slots[t] /\ v.pl = pool /\ w.sl = slots'[t] /\ w.pl = pool'
    BY ViewIs
  <2>3. Tracked(o)' = Tracks(w, o, req[o])
    BY DEF Tracked
  <2> HIDE DEF v, w
  <2>4. req[o].pc \in {"waiting", "beat"} =>
          /\ o \in slots[t].queued
          /\ slots[t].owner = o => slots'[t].owner = o
    <3>1. req[o].pc \in {"waiting", "beat"} => o \in slots[t].queued
      BY <2>1 DEF Queuing
    <3>2. CASE t = s
      BY <3>1, <3>2
    <3>3. CASE t # s
      BY <2>1, <3>1, <3>3
    <3> QED
      BY <3>2, <3>3
  <2>5. o \in pool'.abandoned =>
          \/ o \in pool.abandoned
          \/ /\ req[o].task \in InFlight
             /\ req[o].pc \notin {"waiting", "beat"}
    <3>1. ASSUME o \in pool'.abandoned, o \notin pool.abandoned
          PROVE  req[o].task \in InFlight /\ req[o].pc \notin {"waiting", "beat"}
      <4>1. o \in pool.tasks /\ o = slots[s].owner /\ o \notin slots[s].queued
        BY <3>1
      <4>2. t = s
        BY <2>1, <4>1
      <4> QED
        BY <2>1, <4>1, <4>2 DEF Queuing
    <3> QED
      BY <3>1
  <2>6. Tracks(w, o, req[o])
    BY <2>1, <2>2, <2>4, <2>5 DEF Tracks
  <2> QED
    BY <2>3, <2>6
<1>3. ASSUME NEW u \in Slot PROVE Booked(u)'
  <2>1. /\ Booked(u) /\ Inside(u)' = Inside(u)
        /\ slots[u].owner \in Req \cup {None} /\ slots[u].leases \in Nat
    BY <1>1 DEF Books, Inside, Entered, SlotState
  <2>2. /\ slots'[u].owner \in {slots[u].owner, None} /\ slots'[u].queued = slots[u].queued
        /\ slots'[u].leases \in {slots[u].leases, 0}
    <3>1. CASE u = s
      BY <3>1
    <3>2. CASE u # s
      BY <3>2
    <3> QED
      BY <3>1, <3>2
  <2>3. slots'[u].leases <= Cardinality(Inside(u)')
    <3>1. slots[u].leases <= Cardinality(Inside(u)) /\ Cardinality(Inside(u)) \in Nat
      <4>1. Inside(u) \in SUBSET Req
        BY DEF Inside
      <4> QED
        BY <2>1, <4>1, ReqSetsFinite DEF Booked
    <3> QED
      BY <2>1, <2>2, <3>1
  <2>4. slots'[u].queued = {r \in Req : req'[r].pc \in Queuing /\ req'[r].at = u}
    BY <2>1, <2>2 DEF Booked
  <2>5. slots'[u].owner # None =>
          \/ req'[slots'[u].owner].pc \in {"waiting", "beat", "cancelYield", "ownedYield",
                                           "acquiring", "handed", "running"}
          \/ req'[slots'[u].owner].task \in Deciding
    BY <2>1, <2>2 DEF Booked, Entered
  <2> QED
    BY <2>3, <2>4, <2>5 DEF Booked, Entered
<1> QED
  BY <1>2, <1>3 DEF Books

(* The polls keep the books. *)
LEMMA PollBooks ==
  ASSUME IInv, Books, NEW s \in Slot, Poll(s)
  PROVE  Books'
<1> DEFINE x == Seen(s)
           y == RecoverLane(x, s)
           u == [y.sl EXCEPT !.leases = 0]
<1>1. /\ slots \in [Slot -> SlotState] /\ slots[s] \in SlotState /\ pool \in PoolState
      /\ slots[s].leases \in Nat
  BY TaskTypes DEF IInv, SlotState
<1>2. x.sl = slots[s] /\ x.pl = pool /\ Like(x)
  BY <1>1, LikeTypes, ViewIs DEF Seen, Like
<1>3. Recovers(x, y)
  BY <1>2, RecoverBooks
<1>4. CASE CapacityCheck(s)
  <2>1. slots' = [slots EXCEPT ![s] = y.sl] /\ pool' = y.pl /\ req' = req
    BY <1>4 DEF CapacityCheck, Store
  <2> HIDE DEF x, y
  <2>2. slots'[s] = y.sl /\ \A t \in Slot \ {s} : slots'[t] = slots[t]
    BY <1>1, <2>1
  <2> QED
    BY <1>2, <1>3, <2>1, <2>2, PollStep DEF Recovers
<1>5. CASE StatusPoll(s)
  <2>1. \/ RecoverSlotState(x, s) = y
        \/ RecoverSlotState(x, s) = View(u, y.pl, y.tk)
    BY DEF RecoverSlotState
  <2>2. Store(s, RecoverSlotState(x, s)) /\ req' = req
    BY <1>5 DEF StatusPoll
  <2>3. u.owner = y.sl.owner /\ u.queued = y.sl.queued /\ u.leases = 0
    BY <1>3 DEF Recovers, Like, SlotLike
  <2> HIDE DEF x, y, u
  <2>4. RecoverSlotState(x, s).sl \in {y.sl, u} /\ RecoverSlotState(x, s).pl = y.pl
    <3>1. View(u, y.pl, y.tk).sl = u /\ View(u, y.pl, y.tk).pl = y.pl
      BY ViewIs
    <3>2. CASE RecoverSlotState(x, s) = y
      BY <3>2
    <3>3. CASE RecoverSlotState(x, s) = View(u, y.pl, y.tk)
      BY <3>1, <3>3
    <3> QED
      BY <2>1, <3>2, <3>3
  <2>5. slots'[s] \in {y.sl, u} /\ \A t \in Slot \ {s} : slots'[t] = slots[t]
    BY <1>1, <2>2, <2>4 DEF Store
  <2>6. pool' = y.pl
    BY <2>2, <2>4 DEF Store
  <2>7. /\ slots'[s].queued = y.sl.queued /\ slots'[s].owner = y.sl.owner
        /\ slots'[s].leases \in {y.sl.leases, 0}
    BY <2>3, <2>5
  <2> QED
    BY <1>2, <1>3, <2>2, <2>5, <2>6, <2>7, PollStep DEF Recovers
<1>6. CASE GraceElapses(s)
  <2>1. /\ slots' = [slots EXCEPT ![s] = [slots[s] EXCEPT !.aged = TRUE]]
        /\ pool' = pool /\ req' = req
    BY <1>6 DEF GraceElapses
  <2>2. /\ slots'[s].queued = slots[s].queued /\ slots'[s].owner = slots[s].owner
        /\ slots'[s].leases = slots[s].leases
        /\ \A t \in Slot \ {s} : slots'[t] = slots[t]
    BY <1>1, <2>1 DEF SlotState
  <2> QED
    BY <2>1, <2>2, PollStep
<1> QED
  BY <1>4, <1>5, <1>6 DEF Poll

-----------------------------------------------------------------------------
(* The books are straight at start-up. *)
LEMMA InitBooks == Init => Books
<1> SUFFICES ASSUME Init PROVE Books
  OBVIOUS
<1>1. /\ slots = [s \in Slot |-> Idle] /\ pool.abandoned = {}
      /\ \A r \in Req : req[r].pc = "idle" /\ req[r].task = "none" /\ ~req[r].kill
  BY DEF Init
<1>2. ASSUME NEW r \in Req PROVE Tracked(r)
  <2>1. View(slots[req[r].at], pool, req[r].task).pl = pool
    BY ViewIs
  <2> QED
    BY <1>1, <2>1 DEF Tracked, Tracks
<1>3. ASSUME NEW s \in Slot PROVE Booked(s)
  <2>1. slots[s].queued = {} /\ slots[s].owner = None /\ slots[s].leases = 0
    BY <1>1 DEF Idle
  <2>2. Inside(s) = {} /\ Cardinality(Inside(s)) = 0
    BY <1>1, FS_EmptySet DEF Inside, Entered
  <2>3. {r \in Req : req[r].pc \in Queuing /\ req[r].at = s} = {}
    BY <1>1 DEF Queuing
  <2> QED
    BY <2>1, <2>2, <2>3 DEF Booked
<1> QED
  BY <1>2, <1>3 DEF Books

(* Every step keeps the books. *)
LEMMA NextBooks == IInv /\ Books /\ [Next]_vars => Books'
<1> SUFFICES ASSUME IInv, Books, [Next]_vars PROVE Books'
  OBVIOUS
<1>1. CASE \E r \in Req : Client(r)
  BY <1>1, ClientBooks
<1>2. CASE \E r \in Req : Loop(r)
  BY <1>2, LoopBooks
<1>3. CASE \E s \in Slot : Poll(s)
  BY <1>3, PollBooks
<1>4. CASE UNCHANGED vars
  BY <1>4, QuietBooks DEF vars
<1> QED
  BY <1>1, <1>2, <1>3, <1>4 DEF Next, Stop

(* Both invariants hold in every reachable state. *)
LEMMA BooksHold == Spec => [](IInv /\ Books)
<1>1. Init => IInv /\ Books
  BY InitInv, InitBooks
<1>2. (IInv /\ Books) /\ [Next]_vars => (IInv /\ Books)'
  BY NextInv, NextBooks
<1> QED
  BY <1>1, <1>2, PTL DEF Spec

-----------------------------------------------------------------------------
(* The owner of a lane is a request of that slot. *)
LEMMA OwnerIs ==
  ASSUME IInv, NEW s \in Slot, slots[s].owner # None
  PROVE  /\ slots[s].owner \in Req /\ req[slots[s].owner].at = s
         /\ slots[s].permit <=> req[slots[s].owner].task = "done"
         /\ req[slots[s].owner].task \in Deciding \cup {"done"}
<1>1. slots[s] \in SlotState /\ GoodSlot(slots[s], pool.abandoned, Task, At, s)
  BY TaskTypes DEF IInv, Lanes
<1>2. slots[s].owner \in Req
  BY <1>1 DEF SlotState
<1> QED
  BY <1>1, <1>2, TaskTypes DEF GoodSlot, IInv

(* For any number of requests, slots and permits: a lane only ever belongs *)
(* to a request of its slot whose finalizer has not run or whose acquire   *)
(* task is still unwinding.                                                *)
THEOREM NoZombies == Spec => []NoZombieOwner
<1>1. IInv /\ Books => NoZombieOwner
  <2> SUFFICES ASSUME IInv, Books, NEW s \in Slot, slots[s].owner # None
               PROVE  /\ req[slots[s].owner].at = s
                      /\ \/ Entered(slots[s].owner)
                         \/ req[slots[s].owner].task \in {"probe", "nap", "sem"}
    BY DEF NoZombieOwner
  <2>1. Booked(s)
    BY DEF Books
  <2> QED
    BY <2>1, OwnerIs DEF Booked, Deciding
<1> QED
  BY <1>1, BooksHold, PTL

(* A lane that has its permit belongs to a request that still runs its     *)
(* finalizer, so that no permit is stranded.                               *)
LEMMA PermitsNotStranded == ASSUME IInv, Books PROVE NoStrandedPermit
<1> SUFFICES ASSUME NEW s \in Slot, slots[s].permit PROVE Entered(slots[s].owner)
  BY DEF NoStrandedPermit
<1>1. slots[s].owner # None /\ Booked(s)
  BY DEF IInv, Lanes, GoodSlot, Books
<1>2. req[slots[s].owner].task = "done"
  BY <1>1, OwnerIs
<1> QED
  BY <1>1, <1>2 DEF Booked, Deciding

(* A queued request whose acquisition completed owns its lane. *)
LEMMA QueuedKeeps == ASSUME IInv, Books PROVE QueuedKeepsLane
<1> SUFFICES ASSUME NEW r \in Req, req[r].pc \in {"waiting", "beat"}, req[r].task = "done"
             PROVE  slots[req[r].at].owner = r /\ slots[req[r].at].permit
  BY DEF QueuedKeepsLane
<1>1. req[r].at \in Slot /\ slots[req[r].at].owner = r
  BY BookFacts, ViewIs DEF Tracks
<1> QED
  BY <1>1, OwnerIs, NoneAssumption

(* No marker outlives its request and its task. *)
LEMMA MarkersFresh == ASSUME IInv, Books PROVE NoStaleMarker
<1> SUFFICES ASSUME NEW r \in pool.abandoned PROVE req[r].pc # "done" \/ r \in pool.tasks
  BY DEF NoStaleMarker
<1>1. r \in Req
  BY TaskTypes DEF IInv, PoolState
<1> QED
  BY <1>1, BookFacts, ViewIs DEF Tracks

(* When all requests and tasks are over the lanes are as at start-up. *)
LEMMA FinishedClean == ASSUME IInv, Books PROVE CleanWhenFinished
<1> SUFFICES ASSUME Finished
             PROVE  /\ \A s \in Slot : [slots[s] EXCEPT !.pend = None, !.aged = FALSE] = Idle
                    /\ pool = [free |-> Conc, sq |-> <<>>, sgrant |-> {}, raw |-> {},
                               lanes |-> 0, abandoned |-> {}, tasks |-> {}]
  BY DEF CleanWhenFinished
<1>1. /\ \A r \in Req : req[r].pc = "done" /\ Task[r] \in {"none", "done"} /\ ~Entered(r)
      /\ slots \in [Slot -> SlotState] /\ pool \in PoolState
      /\ GoodPool(pool, Task)
      /\ \A s \in Slot : GoodSlot(slots[s], pool.abandoned, Task, At, s)
  BY TaskTypes DEF Finished, IInv, Lanes, Entered
<1>2. ASSUME NEW q \in Seq(Req), Elems(q) = {} PROVE q = <<>>
  <2>1. 1 \notin 1..Len(q) /\ Len(q) \in Nat
    BY <1>2 DEF Elems
  <2>2. Len(q) = 0
    BY <2>1
  <2> QED
    BY <2>2
<1>3. ASSUME NEW s \in Slot
      PROVE  /\ ~slots[s].permit
             /\ [slots[s] EXCEPT !.pend = None, !.aged = FALSE] = Idle
  <2>1. slots[s] \in SlotState /\ Booked(s)
    BY <1>1 DEF Books
  <2>2. slots[s].owner = None
    <3>1. SUFFICES ASSUME slots[s].owner # None PROVE FALSE
      OBVIOUS
    <3>2. Entered(slots[s].owner) \/ req[slots[s].owner].task \in Deciding
      BY <2>1, <3>1 DEF Booked
    <3>3. slots[s].owner \in Req
      BY <3>1, OwnerIs
    <3>4. Task[slots[s].owner] = req[slots[s].owner].task
      BY <3>3 DEF Task
    <3> QED
      BY <1>1, <3>2, <3>3, <3>4 DEF Deciding
  <2>3. slots[s].held = FALSE /\ slots[s].permit = FALSE
    BY <1>1, <2>1, <2>2 DEF GoodSlot, SlotState
  <2>4. slots[s].lq = <<>> /\ slots[s].lgrant = {}
    <3>1. slots[s].lq \in Seq(Req) /\ slots[s].lgrant \subseteq Elems(slots[s].lq)
      BY <1>1, <2>1 DEF SlotState, GoodSlot, LockOK
    <3>2. Elems(slots[s].lq) \subseteq Req
      BY <3>1 DEF Elems
    <3>3. \A o \in Req : o \in Elems(slots[s].lq) <=> Task[o] = "lock" /\ At[o] = s
      BY <1>1 DEF GoodSlot
    <3>4. Elems(slots[s].lq) = {}
      BY <1>1, <3>2, <3>3
    <3> QED
      BY <1>2, <3>1, <3>4
  <2>5. slots[s].queued = {}
    BY <1>1, <2>1 DEF Booked, Queuing
  <2>6. slots[s].leases = 0
    <3>1. Inside(s) = {}
      BY <1>1 DEF Inside
    <3>2. slots[s].leases <= 0 /\ slots[s].leases \in Nat
      BY <2>1, <3>1, FS_EmptySet DEF Booked, SlotState
    <3> QED
      BY <3>2
  <2> DEFINE t == [slots[s] EXCEPT !.pend = None, !.aged = FALSE]
  <2>7. /\ t \in SlotState /\ t.pend = None /\ t.aged = FALSE
        /\ t.held = FALSE /\ t.lq = <<>> /\ t.lgrant = {} /\ t.owner = None
        /\ t.permit = FALSE /\ t.queued = {} /\ t.leases = 0
    BY <2>1, <2>2, <2>3, <2>4, <2>5, <2>6 DEF SlotState
  <2> HIDE DEF t
  <2>8. t = Idle
    BY <2>7 DEF SlotState, Idle
  <2> QED
    BY <2>3, <2>8 DEF t
<1>4. pool.sq = <<>> /\ pool.sgrant = {} /\ pool.raw = {} /\ pool.tasks = {}
  <2>1. /\ pool.sq \in Seq(Req) /\ pool.sgrant \subseteq Elems(pool.sq)
        /\ pool.raw \subseteq Req /\ pool.tasks \subseteq Req
    BY <1>1 DEF PoolState, GoodPool, SemOK
  <2>2. Elems(pool.sq) \subseteq Req
    BY <2>1 DEF Elems
  <2>3. Elems(pool.sq) = {} /\ pool.raw = {} /\ pool.tasks = {}
    BY <1>1, <2>1, <2>2 DEF GoodPool, InFlight
  <2> QED
    BY <1>2, <2>1, <2>3
<1>5. pool.abandoned = {}
  <2>1. pool.abandoned \subseteq Req
    BY <1>1 DEF PoolState
  <2> QED
    BY <1>1, <1>4, <2>1, MarkersFresh DEF NoStaleMarker
<1>6. pool.free = Conc /\ pool.lanes = 0
  <2>1. With(slots) = {}
    BY <1>3 DEF With
  <2>2. Total(pool) + 0 = Conc /\ pool.lanes = 0
    BY <2>1, FS_EmptySet DEF IInv, Lanes
  <2>3. Total(pool) = pool.free + 0 + 0 /\ pool.free \in Nat
    BY <1>1, <1>4, FS_EmptySet DEF Total, PoolState
  <2> QED
    BY <2>2, <2>3
<1> QED
  BY <1>1, <1>3, <1>4, <1>5, <1>6 DEF PoolState

(* For any number of requests, slots and permits: no permit is stranded on *)
(* a lane nobody will release, no queued acquisition is robbed of its      *)
(* lane, no lease or abandon marker outlives its request, and when all     *)
(* requests are over the lanes and the pool are as at start-up.            *)
THEOREM NothingIsLeftBehind == Spec => []NothingLeftBehind
<1>1. IInv /\ Books => NoPhantomLease
  BY DEF Books, Booked, NoPhantomLease, Inside
<1>2. IInv /\ Books => NothingLeftBehind
  BY <1>1, PermitsNotStranded, QueuedKeeps, MarkersFresh, FinishedClean
     DEF NothingLeftBehind
<1> QED
  BY <1>2, BooksHold, PTL

-----------------------------------------------------------------------------
(* A step touches one slot at most. *)
LEMMA OneSlot ==
  ASSUME IInv, [Next]_vars
  PROVE  \E s \in Slot : \A u \in Slot \ {s} : slots'[u] = slots[u]
<1>1. slots \in [Slot -> SlotState] /\ \A r \in Req : req[r].at \in Slot
  BY TaskTypes, BookFacts, ReqFacts DEF IInv, TypeOK
<1>2. (\/ \E s \in Slot : \E x : Store(s, x)
       \/ \E s \in Slot : \E sl : slots' = [slots EXCEPT ![s] = sl])
        => \E s \in Slot : \A u \in Slot \ {s} : slots'[u] = slots[u]
  BY <1>1 DEF Store
<1>3. slots' = slots => \E s \in Slot : \A u \in Slot \ {s} : slots'[u] = slots[u]
  BY SlotAssumption
<1>4. ASSUME NEW r \in Req, NEW s \in Slot, Enter(r, s)
      PROVE  \E u \in Slot : \E x : Store(u, x)
  BY <1>4 DEF Enter
<1>5. ASSUME NEW r \in Req, NEW x, Leave(r, req[r].at, x) \/ ToWorker(r, req[r].at, x)
      PROVE  \E u \in Slot : \E y : Store(u, y)
  BY <1>1, <1>5 DEF Leave, ToWorker
<1>6. ASSUME NEW r \in Req, AfterAcquire(r) PROVE \E u \in Slot : \E x : Store(u, x)
  BY <1>1, <1>5, <1>6 DEF AfterAcquire
<1>7. ASSUME NEW r \in Req, Client(r)
      PROVE  slots' = slots \/ \E u \in Slot : \E x : Store(u, x)
  <2>1. Arrive(r) => slots' = slots \/ \E u \in Slot : \E x : Store(u, x)
    BY <1>4 DEF Arrive, Pick
  <2>2. Cancel(r) \/ Heartbeat(r) => slots' = slots
    BY DEF Cancel, Heartbeat
  <2>3. Disconnect(r) => slots' = slots \/ \E u \in Slot : \E x : Store(u, x)
    BY <1>5 DEF Disconnect
  <2>4. QueueTimeout(r) => \E u \in Slot : \E x : Store(u, x)
    BY <1>5 DEF QueueTimeout
  <2> QED
    BY <1>7, <2>1, <2>2, <2>3, <2>4 DEF Client
<1>8. ASSUME NEW r \in Req, Loop(r)
      PROVE  slots' = slots \/ \E u \in Slot : \E x : Store(u, x)
  <2>1. Expanded(r) => \E u \in Slot : \E x : Store(u, x)
    BY <1>1, <1>4 DEF Expanded, Pick
  <2>2. TaskStep(r) => \E u \in Slot : \E x : Store(u, x)
    BY <1>1, <1>5 DEF TaskStep
  <2>3. WaitReturns(r) => slots' = slots \/ \E u \in Slot : \E x : Store(u, x)
    BY <1>6 DEF WaitReturns
  <2>4. BeatResumes(r) => \E u \in Slot : \E x : Store(u, x)
    BY <1>1, <1>6 DEF BeatResumes
  <2>5. Finish(r) \/ Close(r) \/ WorkerAdmits(r) => \E u \in Slot : \E x : Store(u, x)
    BY <1>5 DEF Finish, Close, WorkerAdmits
  <2>6. Drain(r) \/ Join(r) => slots' = slots
    BY DEF Drain, Join
  <2> QED
    BY <1>8, <2>1, <2>2, <2>3, <2>4, <2>5, <2>6 DEF Loop
<1>9. ASSUME NEW s \in Slot, Poll(s)
      PROVE  \/ \E u \in Slot : \E x : Store(u, x)
             \/ \E u \in Slot : \E sl : slots' = [slots EXCEPT ![u] = sl]
  BY <1>9 DEF Poll, StatusPoll, CapacityCheck, GraceElapses
<1> QED
  BY <1>2, <1>3, <1>7, <1>8, <1>9 DEF Next, Stop, vars

Holder == [s \in Slot |-> IF slots[s].permit THEN slots[s].owner ELSE None]

(* What the holders of the service are, in a state of the lanes.           *)
Holders ==
  /\ Holder \in [Slot -> Req \cup {None}]
  /\ \A s \in Slot : Holder[s] # None <=> s \in With(slots)
  /\ \A s \in Slot : Holder[s] # None => req[Holder[s]].at = s
  /\ Cardinality(With(slots)) \in Nat /\ Cardinality(With(slots)) <= Conc

(* Holders are requests of their slot, at most Conc of them. *)
LEMMA HolderIs == IInv => Holders
<1> SUFFICES ASSUME IInv PROVE Holders
  OBVIOUS
<1>1. \A s \in Slot : slots[s].permit => slots[s].owner # None
  BY DEF IInv, Lanes, GoodSlot
<1>2. pool \in PoolState /\ Total(pool) + Cardinality(With(slots)) = Conc
  BY DEF IInv, Lanes, TypeOK
<1>3. Total(pool) \in Int /\ Total(pool) >= 0
  <2>1. /\ pool.free \in Nat /\ Cardinality(pool.sgrant) \in Nat
        /\ Cardinality(pool.raw) \in Nat
    BY <1>2, PoolFields
  <2> QED
    BY <2>1 DEF Total
<1>4. Cardinality(With(slots)) \in Nat
  <2>1. With(slots) \subseteq Slot
    BY DEF With
  <2> QED
    BY <2>1, FiniteAssumption, FS_Subset, FS_CardinalityType
<1>5. \A s \in Slot : slots[s].permit =>
        slots[s].owner \in Req /\ req[slots[s].owner].at = s
  BY <1>1, OwnerIs
<1>6. Cardinality(With(slots)) <= Conc
  BY <1>2, <1>3, <1>4, ConcAssumption
<1>7. Holder \in [Slot -> Req \cup {None}]
  BY <1>5 DEF Holder
<1> QED
  BY <1>1, <1>4, <1>5, <1>6, <1>7 DEF With, Holders, Holder

(* A step of the lanes is a step of the lane service, or none of it. *)
LEMMA ServiceStep == IInv /\ [Next]_vars /\ IInv' => [Service!Next]_Holder
<1> SUFFICES ASSUME IInv, [Next]_vars, IInv' PROVE [Service!Next]_Holder
  OBVIOUS
<1>1. PICK s \in Slot : \A u \in Slot \ {s} : slots'[u] = slots[u]
  BY OneSlot
<1>2. Holders /\ Holders'
  <2>1. IInv' => Holders'
    BY HolderIs, PTL
  <2> QED
    BY <2>1, HolderIs
<1>3. \A u \in Slot \ {s} : Holder'[u] = Holder[u]
  BY <1>1 DEF Holder
<1>4. CASE Holder'[s] = Holder[s]
  <2>1. \A u \in Slot : Holder'[u] = Holder[u]
    BY <1>3, <1>4
  <2>2. Holder \in [Slot -> Req \cup {None}] /\ Holder' \in [Slot -> Req \cup {None}]
    BY <1>2 DEF Holders
  <2> HIDE DEF Holder
  <2> QED
    BY <2>1, <2>2
<1>5. CASE Holder'[s] # Holder[s] /\ Holder'[s] = None
  <2>1. Holder[s] # None /\ Holder' = [Holder EXCEPT ![s] = None]
    BY <1>2, <1>3, <1>5 DEF Holders
  <2>2. Service!Release(s)
    BY <2>1 DEF Service!Release, Holder
  <2> QED
    BY <2>2 DEF Service!Next
<1>6. CASE Holder'[s] # Holder[s] /\ Holder'[s] # None
  <2>1. PICK r \in Req : Holder'[s] = r
    BY <1>2, <1>6 DEF Holders
  <2>2. Holder' = [Holder EXCEPT ![s] = r]
    BY <1>2, <1>3, <2>1 DEF Holders
  <2>3. ASSUME NEW t \in Slot, Holder[t] = r PROVE FALSE
    <3>1. t # s /\ Holder'[t] = r
      BY <1>3, <1>6, <2>1, <2>3
    <3>2. req'[r].at = t /\ req'[r].at = s
      BY <1>2, <2>1, <3>1, NoneAssumption DEF Holders
    <3> QED
      BY <3>1, <3>2
  <2>4. Holder[s] = None => Cardinality({u \in Slot : Holder[u] # None}) < Conc
    <3>1. SUFFICES ASSUME Holder[s] = None
                   PROVE  Cardinality({u \in Slot : Holder[u] # None}) < Conc
      OBVIOUS
    <3>2. {u \in Slot : Holder[u] # None} = With(slots)
      BY <1>2 DEF Holders, With
    <3>3. With(slots') = With(slots) \cup {s} /\ s \notin With(slots)
      BY <1>1, <1>2, <1>6, <3>1 DEF Holders, With
    <3>4. IsFiniteSet(With(slots))
      <4>1. With(slots) \subseteq Slot
        BY DEF With
      <4> QED
        BY <4>1, FiniteAssumption, FS_Subset
    <3>5. Cardinality(With(slots')) = Cardinality(With(slots)) + 1
      BY <3>3, <3>4, FS_AddElement
    <3>6. Cardinality(With(slots)) \in Nat /\ Cardinality(With(slots')) <= Conc
      BY <1>2 DEF Holders
    <3> QED
      BY <3>2, <3>5, <3>6, ConcAssumption
  <2>5. Service!Grant(s, r)
    <3>1. r \notin {Holder[t] : t \in Slot}
      BY <2>3
    <3> QED
      BY <2>2, <2>4, <3>1 DEF Service!Grant, Service!Held, Service!Cardinality, Cardinality, Holder
  <2> QED
    BY <2>5 DEF Service!Next
<1> QED
  BY <1>4, <1>5, <1>6

(* The lanes implement the lane service for any number of requests, slots  *)
(* and permits: a slot generates for one request at a time, no request on  *)
(* two slots, and never more than Conc slots at once.                      *)
THEOREM LanesImplementService == Spec => LaneServiceSpec
<1>1. Init => Service!Init
  BY DEF Init, Idle, Service!Init
<1>2. Spec => Init /\ [][Next]_vars
  BY DEF Spec
<1>3. Spec => [][Service!Next]_Holder
  BY <1>2, Inductive, ServiceStep, PTL
<1>4. Service!Init /\ [][Service!Next]_Holder => LaneServiceSpec
  BY DEF LaneServiceSpec, Service!Spec, Holder
<1> QED
  BY <1>1, <1>2, <1>3, <1>4, PTL
=============================================================================
