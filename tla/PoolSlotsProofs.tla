---------------------------- MODULE PoolSlotsProofs ----------------------------
(***************************************************************************)
(* Proofs about PoolSlots, for every number of models, tasks and slots and *)
(* every budget: the locks of the pool always have an owner that gives     *)
(* them back, no leased slot loses its worker, and as long as nobody is    *)
(* cancelled no load is waited for without a leader and no worker is lost. *)
(***************************************************************************)
EXTENDS PoolSlots, FiniteSetTheorems, TLAPS

PCs == {"idle", "join", "wait", "queue", "look", "admit", "evict", "pop",
        "start", "load", "close", "drop"} \cup Ended
SlotState == [key : Key \cup {"none"},
              state : {"unborn", "loading", "ready", "evicting"},
              fut : {"none", "pending", "ok", "failed", "cancelled"},
              leases : 0..Cardinality(Gen), pinned : BOOLEAN, proc : BOOLEAN, late : BOOLEAN]
ActorState == [pc : PCs, key : Key \cup {"none"}, pin : BOOLEAN, slot : Slot \cup {None},
               todo : SUBSET Slot, cur : Slot \cup {None},
               then : {"idle", "join", "start", "done"}, tries : 0..ReentryLimit]

(* The load lock is held by the one task that admits, loads or unloads,    *)
(* and the pool lock, across a suspension, by the one that admits.         *)
Locked(a) ==
  \/ act[a].pc \in {"look", "admit", "start", "load", "close", "drop"}
  \/ act[a].pc \in {"evict", "pop"} /\ act[a].then \in {"start", "done"}
Exclusive(a) == /\ locks.load = a <=> Locked(a)
                /\ locks.pool = a <=> act[a].pc = "admit"

(* The leader of a load: its slot's future is pending, and from the spawn  *)
(* on there is a worker.  A leader that failed has resolved the future.    *)
Leading(a) == \/ act[a].pc \in {"start", "load"}
              \/ act[a].pc \in {"evict", "pop"} /\ act[a].then = "start"
Leader(a) ==
  /\ Leading(a) => act[a].slot \in Slot /\ slot[act[a].slot].fut = "pending"
  /\ act[a].pc = "load" => slot[act[a].slot].proc = TRUE
  /\ act[a].pc = "close" => act[a].slot \in Slot /\ slot[act[a].slot].fut \in {"failed", "cancelled"}

(* A list of slots to evict holds slots that were ready when it was made,  *)
(* but for an unload, which keeps every load out.  A slot that is stopped  *)
(* right now is leased only by a late lease.                               *)
Evicting(a) ==
  /\ act[a].pc \notin {"evict", "pop"} => act[a].todo = {} /\ act[a].cur = None
  /\ act[a].then # "done" =>
       \A o \in Slot : o \in act[a].todo \/ o = act[a].cur => slot[o].fut = "ok"
  /\ \A o \in Slot : o \in act[a].todo \/ o = act[a].cur => slot[o].fut # "none"
  /\ act[a].cur \in Slot =>
       \/ slot[act[a].cur].late = TRUE
       \/ slot[act[a].cur].leases = 0 /\ slot[act[a].cur].state = "evicting"

(* A slot that is ready or leased has been loaded; only a late lease is    *)
(* ever without a worker.                                                  *)
Fate(o) ==
  /\ slot[o].state = "ready" \/ slot[o].leases > 0 => slot[o].fut = "ok"
  /\ (slot[o].state = "ready" \/ slot[o].leases > 0) /\ slot[o].late = FALSE => slot[o].proc = TRUE

(* A generation under way knows its slot, and each slot counts its own.    *)
Knows(g) ==
  gens[g].pc \in {"expanding", "leased"} => gens[g].slot \in Slot /\ slot[gens[g].slot].fut = "ok"
Holders(o) == {g \in Gen : gens[g].pc = "leased" /\ gens[g].slot = o}
Counted(o) == slot[o].leases = Cardinality(Holders(o))

IInv == /\ TypeOK
        /\ \A a \in Actor : Exclusive(a) /\ Leader(a) /\ Evicting(a)
        /\ \A o \in Slot : Fate(o) /\ Counted(o)
        /\ \A g \in Gen : Knows(g)
        /\ \A o \in Held : slot[o].fut # "none"

(* While nobody is cancelled, a pending future has a leader.               *)
Led == \A o \in Slot : slot[o].fut = "pending" =>
         \E l \in Loader : Leading(l) /\ act[l].slot = o

-----------------------------------------------------------------------------
(* What the state is made of.                                              *)
LEMMA Typed ==
  ASSUME TypeOK
  PROVE  /\ slots \in [Key -> Slot \cup {None}] /\ slot \in [Slot -> SlotState]
         /\ act \in [Actor -> ActorState]
         /\ locks = [load |-> locks.load, pool |-> locks.pool]
         /\ locks.load \in Actor \cup {Free} /\ locks.pool \in Loader \cup {Free}
         /\ gens \in [Gen -> [pc : {"idle", "expanding", "leased", "done"}, slot : Slot \cup {None}]]
         /\ count \in [kill : 0..MaxKill, reap : 0..MaxReap]
         /\ None \notin Slot /\ Free \notin Actor /\ Cardinality(Gen) \in Nat
BY FS_CardinalityType, GenAssumption, ActorAssumption DEF TypeOK, SlotState, ActorState, PCs, None, Slot, Free

(* The state's types, assembled.                                           *)
LEMMA Assembled ==
  ASSUME slots' \in [Key -> Slot \cup {None}], slot' \in [Slot -> SlotState],
         act' \in [Actor -> ActorState],
         locks' \in [load : Actor \cup {Free}, pool : Loader \cup {Free}],
         gens' \in [Gen -> [pc : {"idle", "expanding", "leased", "done"}, slot : Slot \cup {None}]],
         count' \in [kill : 0..MaxKill, reap : 0..MaxReap]
  PROVE  TypeOK'
BY DEF TypeOK, SlotState, ActorState, PCs

(* What a step of an actor may do to the locks and to slots it does not    *)
(* lead: it takes and gives back its own locks, it stops the worker of the *)
(* slot it evicts or of its own failed load, it touches no lease.          *)
LocksMove(a) ==
  /\ locks'.load = locks.load \/ {locks.load, locks'.load} \subseteq {a, Free}
  /\ locks'.pool = locks.pool \/ {locks.pool, locks'.pool} \subseteq {a, Free}
Mine(a, o) == slot[o].fut = "none" \/ (Leading(a) /\ o = act[a].slot)
Moves(a) ==
  /\ LocksMove(a) /\ gens' = gens
  /\ \A b \in Actor \ {a} : act'[b] = act[b]
  /\ \A o \in Slot :
       /\ slot'[o].leases = slot[o].leases
       /\ slot'[o].fut = slot[o].fut \/ (Mine(a, o) /\ slot'[o].fut # "none")
       /\ slot'[o].late = slot[o].late \/ slot[o].fut = "none"
       /\ \/ slot'[o].proc = slot[o].proc \/ slot'[o].proc = TRUE
          \/ slot[o].fut = "none" \/ o = act[a].cur
          \/ act[a].pc = "close" /\ o = act[a].slot
       /\ \/ slot[o].state = "evicting" => slot'[o].state = "evicting"
          \/ slot[o].leases > 0 \/ Mine(a, o)

(* Such a step disturbs no other actor's part of the invariant.            *)
LEMMA OthersKeep ==
  ASSUME IInv, NEW a \in Actor, NEW b \in Actor \ {a}, Moves(a)
  PROVE  Exclusive(b)' /\ Leader(b)' /\ Evicting(b)'
<1>1. /\ act'[b] = act[b] /\ Exclusive(b) /\ Leader(b) /\ Evicting(b) /\ act[b] \in ActorState
  BY Typed DEF IInv, Moves
<1>2. Exclusive(b)'
  BY <1>1, Typed DEF IInv, Moves, LocksMove, Exclusive, Locked
<1>3. \A o \in Slot : Leading(b) /\ act[b].slot = o => ~Mine(a, o) /\ slot[o].fut # "none"
  <2>1. SUFFICES ASSUME NEW o \in Slot, Leading(b), act[b].slot = o
                 PROVE  ~Mine(a, o) /\ slot[o].fut # "none"
    OBVIOUS
  <2>2. Locked(b) /\ ~Locked(a) BY <2>1, Typed DEF IInv, Exclusive, Locked, Leading
  <2> QED BY <1>1, <2>1, <2>2 DEF Mine, Leader, Leading, Locked
<1>4. Leader(b)'
  <2>1. ASSUME NEW o \in Slot, Leading(b), act[b].slot = o
        PROVE  slot'[o].fut = slot[o].fut /\ (slot[o].proc = TRUE => slot'[o].proc = TRUE)
    <3>1. slot[o].fut = "pending" /\ Locked(b) /\ ~Locked(a)
      BY <1>1, <2>1, Typed DEF IInv, Exclusive, Locked, Leading, Leader
    <3>2. act[a].pc # "close" /\ act[a].cur # o
      BY <2>1, <3>1, Typed DEF IInv, Evicting, Locked
    <3> QED BY <1>3, <2>1, <3>1, <3>2 DEF Moves, Mine
  <2>2. ASSUME NEW o \in Slot, act[b].pc = "close", act[b].slot = o PROVE slot'[o].fut = slot[o].fut
    BY <1>1, <2>2, Typed DEF IInv, Moves, Mine, Leader, Exclusive, Locked, Leading
  <2>3. Leading(b)' <=> Leading(b) BY <1>1 DEF Leading
  <2> QED BY <1>1, <2>1, <2>2, <2>3 DEF Leader, Leading
<1>5. Evicting(b)'
  <2>1. ASSUME NEW o \in Slot, slot[o].fut = "ok" PROVE slot'[o].fut = "ok"
    BY <2>1 DEF IInv, Moves, Mine, Leader
  <2>2. ASSUME act[b].cur \in Slot PROVE ~Mine(a, act[b].cur)
    <3>1. CASE act[b].then = "done"
      <4>1. Locked(b) BY <1>1, <2>2, <3>1, Typed DEF IInv, Evicting, Locked
      <4>2. ~Leading(a) BY <4>1 DEF IInv, Exclusive, Leading, Locked
      <4> QED BY <1>1, <2>2, <4>2 DEF Mine, Evicting
    <3> QED BY <1>1, <2>2, <3>1 DEF Evicting, IInv, Mine, Leader
  <2>3. ASSUME act[b].cur \in Slot
        PROVE \/ slot'[act[b].cur].late = TRUE
              \/ slot'[act[b].cur].leases = 0 /\ slot'[act[b].cur].state = "evicting"
    BY <1>1, <2>2, <2>3, Typed DEF IInv, Moves, Evicting, Mine
  <2>4. ASSUME NEW o \in Slot, slot[o].fut # "none" PROVE slot'[o].fut # "none"
    BY <2>4 DEF Moves
  <2> QED BY <1>1, <2>1, <2>3, <2>4 DEF Evicting
<1> QED BY <1>2, <1>4, <1>5

(* So the invariant holds after it when the actor's own part does, when    *)
(* each slot's fate is right and when the table holds no slot unborn.      *)
Settles(a) ==
  /\ Exclusive(a)' /\ Leader(a)' /\ Evicting(a)'
  /\ \A o \in Slot : Fate(o)'
  /\ \A o \in Slot, k \in Key : slots'[k] = o => slot'[o].fut # "none"

(* A step that settles its actor's part keeps the invariant. *)
LEMMA ActorStep ==
  ASSUME IInv, NEW a \in Actor, TypeOK', Moves(a), Settles(a)
  PROVE  IInv'
<1>1. ASSUME NEW g \in Gen PROVE Knows(g)'
  BY DEF IInv, Moves, Knows, Mine, Leader
<1>2. ASSUME NEW o \in Slot PROVE Counted(o)'
  <2>1. Holders(o)' = Holders(o) BY DEF Moves, Holders
  <2> QED BY <2>1 DEF IInv, Moves, Counted
<1>3. ASSUME NEW o \in Held' PROVE slot'[o].fut # "none"
  BY DEF Settles, Held
<1>4. \A b \in Actor : Exclusive(b)' /\ Leader(b)' /\ Evicting(b)'
  BY OthersKeep DEF Settles
<1> QED BY <1>1, <1>2, <1>3, <1>4 DEF IInv, Settles

(* A step that changes no slot, but for pinning one.                       *)
SameSlots ==
  /\ slot' \in [Slot -> SlotState]
  /\ \A o \in Slot : /\ slot'[o].state = slot[o].state /\ slot'[o].fut = slot[o].fut
                     /\ slot'[o].leases = slot[o].leases
                     /\ slot'[o].proc = slot[o].proc /\ slot'[o].late = slot[o].late

(* Pinning a slot changes nothing that matters here. *)
LEMMA Pinning ==
  ASSUME TypeOK, NEW a \in Actor, NEW o, slot' = PinnedBy(a, o) \/ slot' = slot
  PROVE  SameSlots
<1>1. CASE slot' = slot BY <1>1, Typed DEF SameSlots
<1>2. CASE slot' = [slot EXCEPT ![o].pinned = TRUE]
  <2>1. ASSUME NEW x \in Slot
        PROVE  LET t == [slot[x] EXCEPT !.pinned = TRUE] IN
               /\ t \in SlotState /\ t.state = slot[x].state /\ t.fut = slot[x].fut
               /\ t.leases = slot[x].leases /\ t.proc = slot[x].proc /\ t.late = slot[x].late
    <3>1. slot[x] \in SlotState /\ TRUE \in BOOLEAN BY Typed
    <3> QED BY <3>1 DEF SlotState
  <2>2. \A x \in Slot : slot'[x] = slot[x] \/ slot'[x] = [slot[x] EXCEPT !.pinned = TRUE]
    BY <1>2, Typed
  <2>3. slot' = [x \in Slot |-> slot'[x]] BY <1>2, Typed
  <2>4. \A x \in Slot : slot'[x] \in SlotState BY <2>1, <2>2, Typed
  <2> QED BY <2>1, <2>2, <2>3, <2>4 DEF SameSlots
<1> QED BY <1>1, <1>2 DEF PinnedBy

(* A step that leaves the slots as they are keeps the invariant when its own part holds. *)
LEMMA SlotsStay ==
  ASSUME IInv, NEW a \in Actor, SameSlots, gens' = gens,
         slots' = slots \/ \E o \in Slot \cup {None} : slots' = Without(o),
         LocksMove(a), TypeOK', \A b \in Actor \ {a} : act'[b] = act[b],
         Exclusive(a)', Leader(a)', Evicting(a)'
  PROVE  IInv'
<1>1. Moves(a) BY DEF Moves, SameSlots
<1>2. ASSUME NEW o \in Slot PROVE Fate(o)' BY DEF IInv, Fate, SameSlots
<1>3. ASSUME NEW o \in Slot, NEW k \in Key, slots'[k] = o PROVE slot'[o].fut # "none"
  BY <1>3, Typed DEF IInv, Held, Without, SameSlots
<1> QED BY <1>1, <1>2, <1>3, ActorStep DEF Settles

(* The places of an actor that holds neither lock, evicts nothing and      *)
(* leads no load.                                                          *)
Aside == {"idle", "join", "wait", "queue"} \cup Ended

(* Whoever goes aside releases its locks and keeps the invariant. *)
LEMMA GoesAside ==
  ASSUME IInv, NEW a \in Actor, NEW q \in ActorState, q.pc \in Aside, q.todo = {}, q.cur = None,
         act' = [act EXCEPT ![a] = q], locks' = Release(a),
         SameSlots, gens' = gens, count' \in [kill : 0..MaxKill, reap : 0..MaxReap],
         slots' = slots \/ \E o \in Slot \cup {None} : slots' = Without(o)
  PROVE  IInv'
<1>1. TypeOK
  BY DEF IInv
<1>2. LocksMove(a) /\ locks'.load # a /\ locks'.pool # a
      /\ locks' \in [load : Actor \cup {Free}, pool : Loader \cup {Free}]
  BY <1>1, Typed DEF LocksMove, Release
<1>3. act'[a] = q /\ act' \in [Actor -> ActorState] /\ \A b \in Actor \ {a} : act'[b] = act[b]
  BY <1>1, Typed
<1>4. TypeOK'
  BY <1>1, <1>2, <1>3, Typed, Assembled DEF Without, SameSlots
<1>5. Exclusive(a)' /\ Leader(a)' /\ Evicting(a)'
  BY <1>1, <1>2, <1>3, Typed DEF Exclusive, Leader, Evicting, Locked, Leading, Aside, Ended
<1> QED BY <1>2, <1>3, <1>4, <1>5, SlotsStay

(* Going to another place keeps the rest of an actor.                      *)
LEMMA GoDoes ==
  ASSUME TypeOK, NEW a \in Actor, NEW pc \in PCs, Go(a, pc)
  PROVE  LET q == [act[a] EXCEPT !.pc = pc] IN
         /\ act' = [act EXCEPT ![a] = q] /\ q \in ActorState /\ q.pc = pc
         /\ q.todo = act[a].todo /\ q.cur = act[a].cur /\ q.slot = act[a].slot
         /\ q.then = act[a].then /\ act'[a] = q
         /\ act' \in [Actor -> ActorState] /\ \A b \in Actor \ {a} : act'[b] = act[b]
BY Typed DEF Go, ActorState

(* Going to another place, with the new record named. *)
LEMMA GoStep ==
  ASSUME TypeOK, NEW a \in Actor, NEW pc \in PCs, Go(a, pc)
  PROVE  \E q \in ActorState :
           /\ act' = [act EXCEPT ![a] = q] /\ act'[a] = q /\ q.pc = pc
           /\ q.todo = act[a].todo /\ q.cur = act[a].cur /\ q.slot = act[a].slot
           /\ q.then = act[a].then
<1> DEFINE q == [act[a] EXCEPT !.pc = pc]
<1>1. /\ act' = [act EXCEPT ![a] = q] /\ q \in ActorState /\ q.pc = pc
      /\ q.todo = act[a].todo /\ q.cur = act[a].cur /\ q.slot = act[a].slot
      /\ q.then = act[a].then /\ act'[a] = q
  BY GoDoes
<1> HIDE DEF q
<1> QED BY <1>1

(* The same for a step that only changes the place. *)
LEMMA GoesToSide ==
  ASSUME IInv, NEW a \in Actor, NEW pc \in Aside, Go(a, pc),
         act[a].todo = {}, act[a].cur = None, locks' = Release(a),
         SameSlots, gens' = gens, count' \in [kill : 0..MaxKill, reap : 0..MaxReap],
         slots' = slots \/ \E o \in Slot \cup {None} : slots' = Without(o)
  PROVE  IInv'
<1> DEFINE q == [act[a] EXCEPT !.pc = pc]
<1>1. act' = [act EXCEPT ![a] = q] /\ q \in ActorState /\ q.pc \in Aside /\ q.todo = {} /\ q.cur = None
  BY GoDoes DEF IInv, Aside, PCs
<1> HIDE DEF q
<1> QED BY <1>1, GoesAside

(* An actor that holds no lock releases none.                              *)
LEMMA NothingHeld ==
  ASSUME IInv, NEW a \in Actor, ~Locked(a)
  PROVE  locks = Release(a)
BY Typed DEF IInv, Exclusive, Locked, Release

-----------------------------------------------------------------------------
(* The steps of load() that lead nowhere near a worker.                    *)
LEMMA JoinKeeps ==
  ASSUME IInv, NEW l \in Loader, Join(l)
  PROVE  IInv'
<1>1. TypeOK /\ l \in Actor /\ act[l].pc = "join" /\ ~Locked(l) /\ locks' = Release(l)
      /\ act[l].todo = {} /\ act[l].cur = None /\ act[l] \in ActorState
  BY NothingHeld, Typed DEF IInv, Actor, Join, Locked, Evicting
<1>2. SameSlots BY <1>1, Pinning DEF Join
<1>3. ASSUME NEW pc \in {"done", "queue"}, Go(l, pc) PROVE IInv'
  BY <1>1, <1>2, <1>3, GoesToSide, Typed DEF Join, Aside, Ended
<1>4. ASSUME NEW o \in Slot, act' = [act EXCEPT ![l] = [act[l] EXCEPT !.pc = "wait", !.slot = o]]
      PROVE  IInv'
  <2> DEFINE q == [act[l] EXCEPT !.pc = "wait", !.slot = o]
  <2>1. q \in ActorState /\ q.pc = "wait" /\ q.todo = {} /\ q.cur = None
    BY <1>1, Typed DEF ActorState, PCs
  <2> HIDE DEF q
  <2>2. act' = [act EXCEPT ![l] = q] BY <1>4 DEF q
  <2> QED BY <1>1, <1>2, <2>1, <2>2, GoesAside, Typed DEF Join, Aside
<1> QED BY <1>3, <1>4 DEF Join, HasFuture

(* Waking up keeps it. *)
LEMMA WokenKeeps ==
  ASSUME IInv, NEW l \in Loader, Woken(l)
  PROVE  IInv'
<1>1. TypeOK /\ l \in Actor /\ act[l].pc = "wait" /\ ~Locked(l) /\ locks' = Release(l)
      /\ act[l].todo = {} /\ act[l].cur = None /\ act[l] \in ActorState
  BY NothingHeld, Typed DEF IInv, Actor, Woken, Locked, Evicting
<1>2. SameSlots BY <1>1, Pinning DEF Woken
<1>3. ASSUME NEW pc \in {"done", "failed", "inherited"}, Go(l, pc) PROVE IInv'
  BY <1>1, <1>2, <1>3, GoesToSide, Typed DEF Woken, Aside, Ended
<1>4. ASSUME NEW pc \in {"done", "wait", "queue"}, NEW o \in Slot \cup {None},
             act[l].tries < ReentryLimit,
             act' = [act EXCEPT ![l] = [act[l] EXCEPT !.pc = pc, !.slot = o, !.tries = @ + 1]]
      PROVE  IInv'
  <2> DEFINE q == [act[l] EXCEPT !.pc = pc, !.slot = o, !.tries = @ + 1]
  <2>1. act[l].tries + 1 \in 0..ReentryLimit
    BY <1>1, <1>4, Typed, BoundAssumption DEF ActorState
  <2>2. q \in ActorState /\ q.pc = pc /\ q.todo = {} /\ q.cur = None
    BY <1>1, <2>1, Typed DEF ActorState, PCs, Ended
  <2> HIDE DEF q
  <2>3. act' = [act EXCEPT ![l] = q] BY <1>4 DEF q
  <2> QED BY <1>1, <1>2, <2>2, <2>3, GoesAside, Typed DEF Woken, Aside, Ended
<1>5. None \in Slot \cup {None} OBVIOUS
<1> QED BY <1>3, <1>4, <1>5 DEF Woken, HasFuture

(* A step that moves an actor between places under its locks.              *)
LEMMA Proceeds ==
  ASSUME IInv, NEW a \in Actor, NEW q \in ActorState, act' = [act EXCEPT ![a] = q],
         LocksMove(a), locks' \in [load : Actor \cup {Free}, pool : Loader \cup {Free}],
         SameSlots, UNCHANGED <<gens, count>>,
         slots' = slots \/ \E o \in Slot \cup {None} : slots' = Without(o),
         Exclusive(a)', Leader(a)', Evicting(a)'
  PROVE  IInv'
<1>1. TypeOK BY DEF IInv
<1>2. act' \in [Actor -> ActorState] /\ \A b \in Actor \ {a} : act'[b] = act[b]
  BY <1>1, Typed
<1>3. TypeOK'
  BY <1>1, <1>2, Typed, Assembled DEF Without, SameSlots
<1> QED BY <1>2, <1>3, SlotsStay

(* Taking the load lock keeps it. *)
LEMMA TakeLoadLockKeeps ==
  ASSUME IInv, NEW l \in Loader, TakeLoadLock(l)
  PROVE  IInv'
<1>1. TypeOK /\ l \in Actor /\ act[l].pc = "queue" /\ locks.load = Free /\ Evicting(l)
      /\ locks.pool # l
  BY DEF IInv, Actor, TakeLoadLock, Exclusive
<1>2. PICK q \in ActorState : act' = [act EXCEPT ![l] = q] /\ act'[l] = q /\ q.pc = "look"
                               /\ q.todo = act[l].todo /\ q.cur = act[l].cur
  BY <1>1, GoStep DEF TakeLoadLock, PCs
<1>3. locks'.load = l /\ locks'.pool = locks.pool
      /\ locks' \in [load : Actor \cup {Free}, pool : Loader \cup {Free}]
  BY <1>1, Typed DEF TakeLoadLock
<1>4. SameSlots BY <1>1, Pinning DEF TakeLoadLock
<1>5. Exclusive(l)' /\ Leader(l)' /\ Evicting(l)'
  BY <1>1, <1>2, <1>3 DEF Exclusive, Leader, Evicting, Locked, Leading, None, Slot
<1> QED BY <1>1, <1>2, <1>3, <1>4, <1>5, Proceeds DEF TakeLoadLock, LocksMove

(* Looking again under both locks keeps it. *)
LEMMA LookKeeps ==
  ASSUME IInv, NEW l \in Loader, Look(l)
  PROVE  IInv'
<1>1. TypeOK /\ l \in Actor /\ act[l].pc = "look" /\ locks.load = l /\ locks.pool = Free
      /\ act[l].todo = {} /\ act[l].cur = None /\ act[l] \in ActorState
  BY Typed DEF IInv, Actor, Look, Exclusive, Locked, Evicting, PoolFree
<1>2. SameSlots BY <1>1, Pinning DEF Look
<1>3. ASSUME NEW pc \in {"done", "failed"}, Go(l, pc), locks' = Release(l) PROVE IInv'
  BY <1>1, <1>2, <1>3, GoesToSide, Typed DEF Look, Aside, Ended
<1>4. ASSUME NEW o \in Slot, slot[o].fut = "pending", UNCHANGED <<slot, locks>>,
             act' = [act EXCEPT ![l] = [act[l] EXCEPT !.pc = "start", !.slot = o]]
      PROVE  IInv'
  <2> DEFINE q == [act[l] EXCEPT !.pc = "start", !.slot = o]
  <2>1. q \in ActorState /\ q.pc = "start" /\ q.slot = o /\ q.todo = {} /\ q.cur = None
    BY <1>1, Typed DEF ActorState, PCs
  <2>2. act' = [act EXCEPT ![l] = q] BY <1>4
  <2> HIDE DEF q
  <2>3. act'[l] = q BY <1>1, <2>2, Typed
  <2>4. Exclusive(l)' /\ Leader(l)' /\ Evicting(l)'
    BY <1>1, <1>4, <2>1, <2>3, ActorAssumption
    DEF Exclusive, Leader, Evicting, Locked, Leading, Free, None, Slot
  <2> QED BY <1>1, <1>2, <1>4, <2>1, <2>2, <2>4, Proceeds, Typed DEF Look, LocksMove
<1>5. ASSUME Go(l, "admit"), locks' = [locks EXCEPT !.pool = l] PROVE IInv'
  <2>1. PICK q \in ActorState : act' = [act EXCEPT ![l] = q] /\ act'[l] = q /\ q.pc = "admit"
                                 /\ q.todo = {} /\ q.cur = None
    BY <1>1, <1>5, GoStep DEF PCs
  <2>2. locks'.load = l /\ locks'.pool = l
        /\ locks' \in [load : Actor \cup {Free}, pool : Loader \cup {Free}]
    BY <1>1, <1>5, Typed
  <2>3. Exclusive(l)' /\ Leader(l)' /\ Evicting(l)'
    BY <1>1, <2>1, <2>2 DEF Exclusive, Leader, Evicting, Locked, Leading, None, Slot
  <2> QED BY <1>1, <1>2, <2>1, <2>2, <2>3, Proceeds DEF Look, LocksMove
<1> QED BY <1>3, <1>4, <1>5 DEF Look, HasFuture

(* A refusal and the drop of a failed load keep it. *)
LEMMA RefusedKeeps ==
  ASSUME IInv, NEW l \in Loader, Refused(l) \/ Drop(l)
  PROVE  IInv'
<1>1. TypeOK /\ l \in Actor /\ act[l].todo = {} /\ act[l].cur = None
      /\ act[l].slot \in Slot \cup {None}
  BY Typed DEF IInv, Actor, Refused, Drop, Evicting, ActorState
<1>2. SameSlots BY <1>1, Pinning DEF Refused, Drop
<1>3. "failed" \in Aside BY DEF Aside, Ended
<1> QED BY <1>1, <1>2, <1>3, GoesToSide, Typed DEF Refused, Drop

-----------------------------------------------------------------------------
(* The steps that change one slot.                                         *)
WorksOn(a, q, o, t) ==
  /\ q \in ActorState /\ act' = [act EXCEPT ![a] = q]
  /\ o \in Slot /\ t \in SlotState /\ slot' = [slot EXCEPT ![o] = t]
  /\ t.leases = slot[o].leases /\ t.late = slot[o].late
  /\ t.fut # "none" /\ (t.fut = slot[o].fut \/ Mine(a, o))
  /\ \/ t.proc = slot[o].proc \/ t.proc = TRUE \/ o = act[a].cur
     \/ act[a].pc = "close" /\ o = act[a].slot
  /\ t.state = slot[o].state \/ t.state = "evicting" \/ slot[o].leases > 0 \/ Mine(a, o)
  /\ t.state = "ready" \/ t.leases > 0 => t.fut = "ok" /\ (t.late = FALSE => t.proc = TRUE)
  /\ LocksMove(a) /\ locks' \in [load : Actor \cup {Free}, pool : Loader \cup {Free}]
  /\ gens' = gens /\ count' \in [kill : 0..MaxKill, reap : 0..MaxReap]
  /\ slots' = slots \/ slots' = Without(o)

(* A step of an actor that changes one slot within these bounds keeps the invariant. *)
LEMMA Works ==
  ASSUME IInv, NEW a \in Actor, NEW q, NEW o, NEW t, WorksOn(a, q, o, t),
         Exclusive(a)', Leader(a)', Evicting(a)'
  PROVE  IInv'
<1> USE DEF WorksOn
<1>1. TypeOK BY DEF IInv
<1>2. act' \in [Actor -> ActorState] /\ \A b \in Actor \ {a} : act'[b] = act[b]
  BY <1>1, Typed
<1>3. slot' \in [Slot -> SlotState] /\ slot'[o] = t /\ \A x \in Slot \ {o} : slot'[x] = slot[x]
  BY <1>1, Typed
<1>4. TypeOK'
  BY <1>1, <1>2, <1>3, Typed, Assembled DEF Without
<1>5. Moves(a)
  BY <1>2, <1>3 DEF Moves
<1>6. ASSUME NEW x \in Slot PROVE Fate(x)'
  <2>1. CASE x = o BY <1>3, <2>1 DEF Fate
  <2>2. CASE x # o BY <1>3, <2>2 DEF Fate, IInv
  <2> QED BY <2>1, <2>2
<1>7. ASSUME NEW x \in Slot, NEW k \in Key, slots'[k] = x PROVE slot'[x].fut # "none"
  BY <1>1, <1>3, <1>7, Typed DEF IInv, Held, Without
<1> QED BY <1>4, <1>5, <1>6, <1>7, ActorStep DEF Settles

(* What the leader of a load knows of its slot: nobody evicts it.          *)
LEMMA LeadsOnly ==
  ASSUME IInv, NEW a \in Actor, Leading(a)
  PROVE  LET o == act[a].slot IN
         /\ o \in Slot /\ slot[o] \in SlotState /\ slot[o].fut = "pending" /\ slot[o].leases = 0
         /\ slot[o].state # "ready" /\ Mine(a, o) /\ locks.load = a /\ act[a] \in ActorState
         /\ act[a].pc \notin {"evict", "pop"} => act[a].todo = {} /\ act[a].cur = None
BY Typed DEF IInv, Leader, Fate, Mine, Exclusive, Leading, Locked, Evicting, SlotState

(* Spawning the worker keeps it. *)
LEMMA StartKeeps ==
  ASSUME IInv, NEW l \in Loader, Start(l)
  PROVE  IInv'
<1> DEFINE o == act[l].slot
           t == [slot[o] EXCEPT !.proc = TRUE]
<1>1. TypeOK /\ l \in Actor /\ act[l].pc = "start" /\ Leading(l) /\ locks.pool # l
  BY DEF IInv, Actor, Start, Leading, Exclusive
<1>2. t \in SlotState /\ t.proc = TRUE /\ t.state = slot[o].state /\ t.fut = slot[o].fut
      /\ t.leases = slot[o].leases /\ t.late = slot[o].late
  <2>1. slot[o] \in SlotState /\ TRUE \in BOOLEAN BY <1>1, LeadsOnly
  <2> QED BY <2>1 DEF SlotState
<1>3. slot' = [slot EXCEPT ![o] = t] BY DEF Start
<1>4. PICK q \in ActorState : act' = [act EXCEPT ![l] = q] /\ act'[l] = q /\ q.pc = "load"
                               /\ q.todo = {} /\ q.cur = None /\ q.slot = o
  BY <1>1, GoStep, LeadsOnly DEF Start, PCs
<1>5. o \in Slot /\ Mine(l, o) /\ slot[o].fut = "pending" /\ slot[o].leases = 0
      /\ slot[o].state # "ready" /\ locks.load = l
  BY <1>1, LeadsOnly
<1> HIDE DEF o, t
<1>6. Exclusive(l)' /\ Leader(l)' /\ Evicting(l)'
  <2>1. slot'[o] = t BY <1>1, <1>3, <1>5, Typed
  <2> QED BY <1>1, <1>2, <1>4, <1>5, <2>1
      DEF Exclusive, Leader, Evicting, Locked, Leading, None, Slot, Start
<1>7. LocksMove(l) /\ locks' \in [load : Actor \cup {Free}, pool : Loader \cup {Free}]
      /\ gens' = gens /\ count' \in [kill : 0..MaxKill, reap : 0..MaxReap] /\ slots' = slots
  BY <1>1, Typed DEF Start, LocksMove
<1>8. t.state # "ready" /\ ~(t.leases > 0) /\ t.fut # "none" BY <1>2, <1>5
<1>9. WorksOn(l, q, o, t) BY <1>1, <1>2, <1>3, <1>4, <1>5, <1>7, <1>8 DEF WorksOn
<1> QED BY <1>1, <1>6, <1>9, Works

(* The end of a load keeps it: the slot was nobody's to evict. *)
LEMMA LoadedKeeps ==
  ASSUME IInv, NEW l \in Loader, Loaded(l)
  PROVE  IInv'
<1> DEFINE o == act[l].slot
           t == [slot[o] EXCEPT !.state = "ready", !.fut = "ok"]
<1>1. TypeOK /\ l \in Actor /\ act[l].pc = "load" /\ Leading(l) /\ slot[o].proc = TRUE
  BY DEF IInv, Actor, Loaded, Leading, Leader
<1>2. t \in SlotState /\ t.proc = slot[o].proc /\ t.state = "ready" /\ t.fut = "ok"
      /\ t.leases = slot[o].leases /\ t.late = slot[o].late
  <2>1. slot[o] \in SlotState BY <1>1, LeadsOnly
  <2> QED BY <2>1 DEF SlotState
<1>3. slot' = [slot EXCEPT ![o] = t] BY DEF Loaded
<1>4. PICK q \in ActorState : act' = [act EXCEPT ![l] = q] /\ act'[l] = q /\ q.pc = "done"
                               /\ q.todo = {} /\ q.cur = None
  BY <1>1, GoStep, LeadsOnly DEF Loaded, PCs, Ended
<1>5. o \in Slot /\ Mine(l, o) BY <1>1, LeadsOnly
<1> HIDE DEF o, t
<1>6. LocksMove(l) /\ locks' \in [load : Actor \cup {Free}, pool : Loader \cup {Free}]
      /\ locks'.load # l /\ locks'.pool # l
      /\ gens' = gens /\ count' \in [kill : 0..MaxKill, reap : 0..MaxReap] /\ slots' = slots
  BY <1>1, Typed DEF Loaded, LocksMove, Release
<1>7. Exclusive(l)' /\ Leader(l)' /\ Evicting(l)'
  BY <1>4, <1>6 DEF Exclusive, Leader, Evicting, Locked, Leading, None, Slot
<1>8. WorksOn(l, q, o, t) BY <1>1, <1>2, <1>3, <1>4, <1>5, <1>6 DEF WorksOn
<1> QED BY <1>1, <1>7, <1>8, Works

(* A failed or cancelled load resolves its own future and no other. *)
LEMMA FailsKeeps ==
  ASSUME IInv, NEW l \in Actor, NEW how \in {"failed", "cancelled"}, Fails(l, how),
         UNCHANGED <<slots, locks, gens>>, count' \in [kill : 0..MaxKill, reap : 0..MaxReap]
  PROVE  IInv'
<1> DEFINE o == act[l].slot
           t == [slot[o] EXCEPT !.fut = how]
<1>1. TypeOK /\ l \in Actor /\ act[l].pc = "load" /\ Leading(l) /\ locks.pool # l
  BY DEF IInv, Actor, Fails, Leading, Exclusive
<1>2. t \in SlotState /\ t.proc = slot[o].proc /\ t.state = slot[o].state /\ t.fut = how
      /\ t.leases = slot[o].leases /\ t.late = slot[o].late
  <2>1. slot[o] \in SlotState BY <1>1, LeadsOnly
  <2> QED BY <2>1 DEF SlotState
<1>3. slot' = [slot EXCEPT ![o] = t] BY DEF Fails
<1>4. PICK q \in ActorState : act' = [act EXCEPT ![l] = q] /\ act'[l] = q /\ q.pc = "close"
                               /\ q.todo = {} /\ q.cur = None /\ q.slot = o
  BY <1>1, GoStep, LeadsOnly DEF Fails, PCs
<1>5. o \in Slot /\ Mine(l, o) /\ slot[o].leases = 0 /\ slot[o].state # "ready" /\ locks.load = l
  BY <1>1, LeadsOnly
<1> HIDE DEF o, t
<1>6. Exclusive(l)' /\ Leader(l)' /\ Evicting(l)'
  <2>1. slot'[o] = t BY <1>1, <1>3, <1>5, Typed
  <2> QED BY <1>1, <1>2, <1>4, <1>5, <2>1
      DEF Exclusive, Leader, Evicting, Locked, Leading, None, Slot
<1>7. LocksMove(l) /\ locks' \in [load : Actor \cup {Free}, pool : Loader \cup {Free}]
  BY <1>1, Typed DEF LocksMove
<1>8. WorksOn(l, q, o, t) BY <1>1, <1>2, <1>3, <1>4, <1>5, <1>7 DEF WorksOn
<1> QED BY <1>1, <1>6, <1>8, Works

(* A load that fails before there is a worker keeps it. *)
LEMMA FailsEarlyKeeps ==
  ASSUME IInv, NEW l \in Actor, NEW how \in {"failed", "cancelled"}, FailsEarly(l, how),
         gens' = gens, count' \in [kill : 0..MaxKill, reap : 0..MaxReap]
  PROVE  IInv'
<1> DEFINE o == act[l].slot
           t == [slot[o] EXCEPT !.fut = how]
<1>1. TypeOK /\ l \in Actor /\ act[l].pc = "start" /\ Leading(l)
  BY DEF IInv, Actor, FailsEarly, Leading
<1>2. t \in SlotState /\ t.proc = slot[o].proc /\ t.state = slot[o].state /\ t.fut = how
      /\ t.leases = slot[o].leases /\ t.late = slot[o].late
  <2>1. slot[o] \in SlotState BY <1>1, LeadsOnly
  <2> QED BY <2>1 DEF SlotState
<1>3. slot' = [slot EXCEPT ![o] = t] /\ slots' = Without(o) BY DEF FailsEarly
<1>4. PICK q \in ActorState : act' = [act EXCEPT ![l] = q] /\ act'[l] = q /\ q.pc = "failed"
                               /\ q.todo = {} /\ q.cur = None
  BY <1>1, GoStep, LeadsOnly DEF FailsEarly, PCs, Ended
<1>5. o \in Slot /\ Mine(l, o) /\ slot[o].leases = 0 /\ slot[o].state # "ready"
  BY <1>1, LeadsOnly
<1> HIDE DEF o, t
<1>6. LocksMove(l) /\ locks' \in [load : Actor \cup {Free}, pool : Loader \cup {Free}]
      /\ locks'.load # l /\ locks'.pool # l
  BY <1>1, Typed DEF FailsEarly, LocksMove, Release
<1>7. Exclusive(l)' /\ Leader(l)' /\ Evicting(l)'
  BY <1>4, <1>6 DEF Exclusive, Leader, Evicting, Locked, Leading, None, Slot
<1>8. WorksOn(l, q, o, t) BY <1>1, <1>2, <1>3, <1>4, <1>5, <1>6 DEF WorksOn
<1> QED BY <1>1, <1>7, <1>8, Works

(* Closing the worker of a failed load keeps it. *)
LEMMA ClosedKeeps ==
  ASSUME IInv, NEW l \in Loader, Closed(l)
  PROVE  IInv'
<1> DEFINE o == act[l].slot
           t == [slot[o] EXCEPT !.proc = FALSE]
<1>1. TypeOK /\ l \in Actor /\ act[l].pc = "close" /\ o \in Slot /\ slot[o].fut \in {"failed", "cancelled"}
      /\ slot[o].state # "ready" /\ ~(slot[o].leases > 0) /\ slot[o] \in SlotState
      /\ act[l].todo = {} /\ act[l].cur = None /\ locks.load = l /\ locks.pool # l
  BY Typed DEF IInv, Actor, Closed, Leader, Fate, Evicting, Exclusive, Locked
<1>2. t \in SlotState /\ t.state = slot[o].state /\ t.fut = slot[o].fut
      /\ t.leases = slot[o].leases /\ t.late = slot[o].late
  <2>1. slot[o] \in SlotState /\ FALSE \in BOOLEAN BY <1>1
  <2> QED BY <2>1 DEF SlotState
<1>3. slot' = [slot EXCEPT ![o] = t] BY DEF Closed, Stops
<1>4. PICK q \in ActorState : act' = [act EXCEPT ![l] = q] /\ act'[l] = q /\ q.pc = "drop"
                               /\ q.todo = {} /\ q.cur = None
  BY <1>1, GoStep DEF Closed, PCs
<1> HIDE DEF o, t
<1>5. LocksMove(l) /\ locks' \in [load : Actor \cup {Free}, pool : Loader \cup {Free}]
      /\ locks' = locks /\ gens' = gens /\ count' \in [kill : 0..MaxKill, reap : 0..MaxReap]
      /\ slots' = slots
  BY <1>1, Typed DEF Closed, LocksMove
<1>6. Exclusive(l)' /\ Leader(l)' /\ Evicting(l)'
  BY <1>1, <1>4, <1>5 DEF Exclusive, Leader, Evicting, Locked, Leading, None, Slot
<1>7. WorksOn(l, q, o, t)
  <2>1. act[l].pc = "close" /\ o = act[l].slot BY <1>1 DEF o
  <2> QED BY <1>1, <1>2, <1>3, <1>4, <1>5, <2>1 DEF WorksOn
<1> QED BY <1>1, <1>6, <1>7, Works

-----------------------------------------------------------------------------
(* The steps of an eviction.                                               *)
LEMMA EvictNextKeeps ==
  ASSUME IInv, NEW a \in Actor, EvictNext(a)
  PROVE  IInv'
<1>1. TypeOK /\ act[a] \in ActorState /\ act[a].pc = "evict" /\ act[a].cur = None
      /\ Evicting(a) /\ Exclusive(a) /\ Leader(a)
  BY Typed DEF IInv, EvictNext
<1>2. PICK o \in act[a].todo :
        IF slot[o].leases > 0
          THEN /\ slot' = [slot EXCEPT ![o].state = "ready"]
               /\ act' = [act EXCEPT ![a].todo = @ \ {o}]
          ELSE /\ slot' = Marked({o})
               /\ act' = [act EXCEPT ![a] = [act[a] EXCEPT !.todo = @ \ {o}, !.cur = o]]
  BY DEF EvictNext
<1>3. o \in Slot /\ slot[o] \in SlotState /\ Fate(o) /\ slot[o].fut # "none"
      /\ (act[a].then # "done" => slot[o].fut = "ok")
  BY <1>1, Typed DEF ActorState, IInv, Evicting
<1>4. LocksMove(a) /\ locks' \in [load : Actor \cup {Free}, pool : Loader \cup {Free}]
      /\ locks' = locks /\ gens' = gens /\ count' \in [kill : 0..MaxKill, reap : 0..MaxReap]
      /\ slots' = slots
  BY <1>1, Typed DEF EvictNext, LocksMove
<1>5. ASSUME NEW q \in ActorState, act' = [act EXCEPT ![a] = q], q.pc = act[a].pc, q.slot = act[a].slot,
             q.then = act[a].then, q.todo = act[a].todo \ {o}, q.cur \in {None, o},
             NEW t \in SlotState, slot' = [slot EXCEPT ![o] = t], t.fut = slot[o].fut,
             t.leases = slot[o].leases, t.late = slot[o].late, t.proc = slot[o].proc,
             \/ t.state = "ready" /\ slot[o].leases > 0 /\ q.cur = None
             \/ t.state = "evicting" /\ ~(slot[o].leases > 0)
      PROVE  IInv'
  <2>1. act'[a] = q /\ slot'[o] = t /\ \A x \in Slot \ {o} : slot'[x] = slot[x]
    BY <1>1, <1>3, <1>5, Typed
  <2>2. t.leases \in Nat /\ (~(t.leases > 0) => t.leases = 0)
    BY <1>1, <1>5, Typed DEF SlotState
  <2>3. Exclusive(a)' BY <1>1, <1>4, <1>5, <2>1 DEF Exclusive, Locked
  <2>4. Leader(a)' BY <1>1, <1>3, <1>5, <2>1 DEF Leader, Leading
  <2>5. Evicting(a)' BY <1>1, <1>3, <1>5, <2>1, <2>2 DEF Evicting, None, Slot
  <2>6. WorksOn(a, q, o, t) BY <1>3, <1>4, <1>5 DEF WorksOn, Fate
  <2> QED BY <2>3, <2>4, <2>5, <2>6, Works
<1>6. CASE slot[o].leases > 0
  <2> DEFINE q == [act[a] EXCEPT !.todo = @ \ {o}]
             t == [slot[o] EXCEPT !.state = "ready"]
  <2>1. q \in ActorState /\ q.pc = act[a].pc /\ q.slot = act[a].slot /\ q.then = act[a].then
        /\ q.todo = act[a].todo \ {o} /\ q.cur = None
    BY <1>1 DEF ActorState
  <2>2. t \in SlotState /\ t.fut = slot[o].fut /\ t.leases = slot[o].leases
        /\ t.late = slot[o].late /\ t.proc = slot[o].proc /\ t.state = "ready"
    BY <1>3 DEF SlotState
  <2>3. act' = [act EXCEPT ![a] = q] /\ slot' = [slot EXCEPT ![o] = t]
    BY <1>2, <1>6
  <2> HIDE DEF q, t
  <2> QED BY <1>5, <1>6, <2>1, <2>2, <2>3
<1>7. CASE ~(slot[o].leases > 0)
  <2> DEFINE q == [act[a] EXCEPT !.todo = @ \ {o}, !.cur = o]
             t == [slot[o] EXCEPT !.state = "evicting"]
  <2>1. q \in ActorState /\ q.pc = act[a].pc /\ q.slot = act[a].slot /\ q.then = act[a].then
        /\ q.todo = act[a].todo \ {o} /\ q.cur = o
    BY <1>1, <1>3 DEF ActorState
  <2>2. t \in SlotState /\ t.fut = slot[o].fut /\ t.leases = slot[o].leases
        /\ t.late = slot[o].late /\ t.proc = slot[o].proc /\ t.state = "evicting"
    BY <1>3 DEF SlotState
  <2>3. act' = [act EXCEPT ![a] = q]
    BY <1>2, <1>7
  <2>4. slot' = [slot EXCEPT ![o] = t]
    BY <1>1, <1>2, <1>3, <1>7, Typed DEF Marked
  <2> HIDE DEF q, t
  <2> QED BY <1>5, <1>7, <2>1, <2>2, <2>3, <2>4
<1> QED BY <1>6, <1>7

(* A stopped worker served no lease but a late one. *)
LEMMA EvictStoppedKeeps ==
  ASSUME IInv, NEW a \in Actor, EvictStopped(a)
  PROVE  IInv'
<1> DEFINE o == act[a].cur
           t == [slot[o] EXCEPT !.proc = FALSE]
<1>1. TypeOK /\ act[a] \in ActorState /\ act[a].pc = "evict" /\ o \in Slot /\ slot[o] \in SlotState
      /\ Evicting(a) /\ Exclusive(a) /\ Leader(a) /\ Fate(o)
  BY Typed DEF IInv, EvictStopped, ActorState
<1>2. \/ slot[o].late = TRUE
      \/ ~(slot[o].leases > 0) /\ slot[o].state # "ready"
  BY <1>1, Typed DEF Evicting, SlotState
<1>3. t \in SlotState /\ t.state = slot[o].state /\ t.fut = slot[o].fut
      /\ t.leases = slot[o].leases /\ t.late = slot[o].late
  <2>1. slot[o] \in SlotState /\ FALSE \in BOOLEAN BY <1>1
  <2> QED BY <2>1 DEF SlotState
<1>4. slot' = [slot EXCEPT ![o] = t] BY DEF EvictStopped, Stops
<1>5. PICK q \in ActorState : act' = [act EXCEPT ![a] = q] /\ act'[a] = q /\ q.pc = "pop"
        /\ q.todo = act[a].todo /\ q.cur = act[a].cur /\ q.slot = act[a].slot /\ q.then = act[a].then
  BY <1>1, GoStep DEF EvictStopped, PCs
<1>6. LocksMove(a) /\ locks' \in [load : Actor \cup {Free}, pool : Loader \cup {Free}]
      /\ locks' = locks /\ gens' = gens /\ count' \in [kill : 0..MaxKill, reap : 0..MaxReap]
      /\ slots' = slots
  BY <1>1, Typed DEF EvictStopped, LocksMove
<1>7. o = act[a].cur OBVIOUS
<1> HIDE DEF o, t
<1>8. slot'[o] = t /\ \A x \in Slot \ {o} : slot'[x] = slot[x]
  BY <1>1, <1>4, Typed
<1>9. Exclusive(a)' BY <1>1, <1>5, <1>6 DEF Exclusive, Locked
<1>10. Leader(a)' BY <1>1, <1>3, <1>5, <1>8 DEF Leader, Leading
<1>11. Evicting(a)' BY <1>1, <1>3, <1>5, <1>7, <1>8 DEF Evicting
<1>12. WorksOn(a, q, o, t) BY <1>1, <1>2, <1>3, <1>4, <1>5, <1>6, <1>7 DEF WorksOn, Fate, Evicting
<1> QED BY <1>9, <1>10, <1>11, <1>12, Works

(* Dropping the stopped slot keeps it. *)
LEMMA EvictPopKeeps ==
  ASSUME IInv, NEW a \in Actor, EvictPop(a)
  PROVE  IInv'
<1> DEFINE q == [act[a] EXCEPT !.pc = "evict", !.cur = None]
<1>1. TypeOK /\ act[a] \in ActorState /\ act[a].pc = "pop" /\ act[a].cur \in Slot \cup {None}
      /\ Evicting(a) /\ Exclusive(a) /\ Leader(a)
  BY Typed DEF IInv, EvictPop, ActorState
<1>2. q \in ActorState /\ q.pc = "evict" /\ q.cur = None
      /\ q.todo = act[a].todo /\ q.slot = act[a].slot /\ q.then = act[a].then
  BY <1>1 DEF ActorState, PCs
<1>3. act' = [act EXCEPT ![a] = q] BY DEF EvictPop
<1> HIDE DEF q
<1>4. act'[a] = q /\ SameSlots BY <1>1, <1>3, Typed, Pinning DEF EvictPop
<1>5. LocksMove(a) /\ locks' \in [load : Actor \cup {Free}, pool : Loader \cup {Free}]
      /\ locks' = locks /\ slot' = slot
  BY <1>1, Typed DEF EvictPop, LocksMove
<1>6. Exclusive(a)' BY <1>1, <1>2, <1>4, <1>5 DEF Exclusive, Locked
<1>7. Leader(a)' BY <1>1, <1>2, <1>4, <1>5 DEF Leader, Leading
<1>8. Evicting(a)' BY <1>1, <1>2, <1>4, <1>5 DEF Evicting, None, Slot
<1> QED BY <1>1, <1>2, <1>3, <1>4, <1>5, <1>6, <1>7, <1>8, Proceeds DEF EvictPop

(* The end of a list keeps it: the leader goes on to load. *)
LEMMA EvictDoneKeeps ==
  ASSUME IInv, NEW a \in Actor, EvictDone(a)
  PROVE  IInv'
<1>1. TypeOK /\ act[a] \in ActorState /\ act[a].pc = "evict" /\ act[a].cur = None /\ act[a].todo = {}
      /\ act[a].then \in {"idle", "join", "start", "done"} /\ Exclusive(a) /\ Leader(a)
  BY Typed DEF IInv, EvictDone, ActorState
<1>2. SameSlots BY <1>1, Pinning DEF EvictDone
<1>3. CASE act[a].then # "start"
  <2>1. locks' = Release(a) BY <1>1, <1>3, NothingHeld DEF EvictDone, Locked
  <2>2. act[a].then \in Aside BY <1>1, <1>3 DEF Aside, Ended
  <2> QED BY <1>1, <1>2, <2>1, <2>2, GoesToSide, Typed DEF EvictDone
<1>4. CASE act[a].then = "start"
  <2>1. PICK q \in ActorState : act' = [act EXCEPT ![a] = q] /\ act'[a] = q /\ q.pc = "start"
          /\ q.todo = {} /\ q.cur = None /\ q.slot = act[a].slot /\ q.then = act[a].then
    BY <1>1, <1>4, GoStep DEF EvictDone, PCs
  <2>2. LocksMove(a) /\ locks' \in [load : Actor \cup {Free}, pool : Loader \cup {Free}]
        /\ locks' = locks /\ slot' = slot
    BY <1>1, <1>4, Typed DEF EvictDone, LocksMove
  <2>3. Exclusive(a)' /\ Leader(a)' /\ Evicting(a)'
    BY <1>1, <1>4, <2>1, <2>2 DEF Exclusive, Leader, Evicting, Locked, Leading, None, Slot
  <2> QED BY <1>2, <2>1, <2>2, <2>3, Proceeds DEF EvictDone
<1> QED BY <1>3, <1>4

(* Every step of an eviction keeps it. *)
LEMMA EvictsKeeps ==
  ASSUME IInv, NEW a \in Actor, Evicts(a)
  PROVE  IInv'
BY EvictNextKeeps, EvictStoppedKeeps, EvictPopKeeps, EvictDoneKeeps DEF Evicts

-----------------------------------------------------------------------------
(* The steps that mark idle slots for eviction, and the one that publishes *)
(* a new slot in the place of an unborn one.                               *)
Born(o) ==
  /\ slot[o] = Unborn /\ slot'[o] \in SlotState
  /\ slot'[o].fut = "pending" /\ slot'[o].state = "loading" /\ slot'[o].leases = 0
MarksOn(a, q, S) ==
  /\ q \in ActorState /\ act' = [act EXCEPT ![a] = q]
  /\ S \subseteq IdleSlots
  /\ slot' = [o \in Slot |-> slot'[o]]
  /\ \A o \in Slot : slot'[o] = Marked(S)[o] \/ Born(o)
  /\ LocksMove(a) /\ locks' \in [load : Actor \cup {Free}, pool : Loader \cup {Free}]
  /\ gens' = gens /\ count' \in [kill : 0..MaxKill, reap : 0..MaxReap]
  /\ slots' \in [Key -> Slot \cup {None}]
  /\ \A k \in Key : slots'[k] = slots[k] \/ slots'[k] \in {o \in Slot : Born(o)}

(* Marking changes the state of a slot and nothing else. *)
LEMMA MarkedIs ==
  ASSUME TypeOK, NEW S \in SUBSET Slot, NEW o \in Slot
  PROVE  LET t == Marked(S)[o] IN
         /\ t \in SlotState /\ t.leases = slot[o].leases /\ t.fut = slot[o].fut
         /\ t.late = slot[o].late /\ t.proc = slot[o].proc
         /\ t.state = (IF o \in S THEN "evicting" ELSE slot[o].state)
<1>1. slot[o] \in SlotState BY Typed
<1>2. Marked(S)[o] = IF o \in S THEN [slot[o] EXCEPT !.state = "evicting"] ELSE slot[o]
  BY DEF Marked
<1> QED BY <1>1, <1>2 DEF SlotState

(* Marking idle slots and publishing a new one keeps the invariant. *)
LEMMA Marks ==
  ASSUME IInv, NEW a \in Actor, NEW q, NEW S, MarksOn(a, q, S),
         Exclusive(a)', Leader(a)', Evicting(a)'
  PROVE  IInv'
<1>1. TypeOK /\ S \in SUBSET Slot BY DEF IInv, MarksOn, IdleSlots, Held
<1>2. act' \in [Actor -> ActorState] /\ \A b \in Actor \ {a} : act'[b] = act[b]
  BY <1>1, Typed DEF MarksOn
<1>3. \A o \in Slot : slot'[o] = Marked(S)[o] \/ Born(o) BY DEF MarksOn
<1>4. slot' \in [Slot -> SlotState]
  <2>1. \A o \in Slot : slot'[o] \in SlotState
    <3>1. \A o \in Slot : Marked(S)[o] \in SlotState BY <1>1, MarkedIs
    <3> QED BY <1>3, <3>1 DEF Born
  <2>2. slot' = [o \in Slot |-> slot'[o]] BY DEF MarksOn
  <2> QED BY <2>1, <2>2
<1>5. TypeOK' BY <1>1, <1>2, <1>4, Typed, Assembled DEF MarksOn
<1>6. ASSUME NEW o \in Slot, Born(o)
      PROVE slot[o].fut = "none" /\ slot[o].leases = 0 /\ slot'[o].leases = 0
            /\ slot'[o].fut = "pending" /\ slot'[o].state = "loading"
  BY <1>6 DEF Born, Unborn
<1>7. Moves(a)
  <2>1. ASSUME NEW o \in Slot
        PROVE /\ slot'[o].leases = slot[o].leases
              /\ slot'[o].fut = slot[o].fut \/ (Mine(a, o) /\ slot'[o].fut # "none")
              /\ slot'[o].late = slot[o].late \/ slot[o].fut = "none"
              /\ slot'[o].proc = slot[o].proc \/ slot[o].fut = "none"
              /\ (slot[o].state = "evicting" => slot'[o].state = "evicting") \/ Mine(a, o)
    <3>1. CASE Born(o) BY <1>6, <3>1 DEF Mine
    <3>2. CASE slot'[o] = Marked(S)[o] BY <1>1, <3>2, MarkedIs
    <3> QED BY <1>3, <3>1, <3>2
  <2> QED BY <1>2, <2>1 DEF Moves, MarksOn
<1>8. ASSUME NEW o \in Slot PROVE Fate(o)'
  <2>1. CASE Born(o) BY <1>6, <2>1 DEF Fate
  <2>2. CASE slot'[o] = Marked(S)[o]
    <3>1. Fate(o) BY DEF IInv
    <3> QED BY <1>1, <2>2, <3>1, MarkedIs DEF Fate
  <2> QED BY <1>3, <2>1, <2>2
<1>9. ASSUME NEW o \in Slot, NEW k \in Key, slots'[k] = o PROVE slot'[o].fut # "none"
  <2>1. CASE Born(o) BY <1>6, <2>1
  <2>2. CASE ~Born(o)
    <3>1. slots[k] = o /\ slot'[o] = Marked(S)[o] BY <1>3, <1>9, <2>2 DEF MarksOn
    <3>2. slot[o].fut # "none" BY <3>1 DEF IInv, Held
    <3> QED BY <1>1, <3>1, <3>2, MarkedIs
  <2> QED BY <2>1, <2>2
<1> QED BY <1>5, <1>7, <1>8, <1>9, ActorStep DEF Settles

(* An idle slot has been loaded.                                           *)
LEMMA IdleIsLoaded ==
  ASSUME IInv, NEW o \in IdleSlots
  PROVE  o \in Slot /\ slot[o].fut = "ok"
BY DEF IInv, IdleSlots, Held, Ready, Fate

(* A pass of the reaper keeps it. *)
LEMMA ReapKeeps ==
  ASSUME IInv, Reap
  PROVE  IInv'
<1>1. TypeOK /\ Reaper \in Actor /\ act[Reaper] \in ActorState /\ act[Reaper].pc = "idle"
      /\ act[Reaper].cur = None /\ locks.load # Reaper /\ locks.pool # Reaper
      /\ Evicting(Reaper) /\ Exclusive(Reaper)
  BY Typed DEF IInv, Actor, Reap, Evicting, Exclusive, Locked
<1>2. PICK S \in SUBSET IdleSlots \ {{}} :
        /\ slot' = Marked(S)
        /\ act' = [act EXCEPT ![Reaper] = [Nowhere EXCEPT !.pc = "evict", !.todo = S]]
  BY DEF Reap
<1> DEFINE q == [Nowhere EXCEPT !.pc = "evict", !.todo = S]
<1>3. S \subseteq IdleSlots /\ S \in SUBSET Slot BY <1>2 DEF IdleSlots, Held
<1>4. q \in ActorState /\ q.pc = "evict" /\ q.todo = S /\ q.cur = None /\ q.then = "idle"
  <2>1. FALSE \in BOOLEAN /\ 0 \in 0..ReentryLimit BY BoundAssumption
  <2> QED BY <1>3, <2>1 DEF ActorState, PCs, Nowhere
<1>5. act' = [act EXCEPT ![Reaper] = q] BY <1>2
<1> HIDE DEF q
<1>6. act'[Reaper] = q BY <1>1, <1>5, Typed
<1>7. LocksMove(Reaper) /\ locks' \in [load : Actor \cup {Free}, pool : Loader \cup {Free}]
      /\ locks' = locks /\ gens' = gens /\ count' \in [kill : 0..MaxKill, reap : 0..MaxReap]
      /\ slots' = slots /\ slots \in [Key -> Slot \cup {None}]
  BY <1>1, Typed, BoundAssumption DEF Reap, LocksMove
<1>8. \A o \in S : slot[o].fut = "ok" /\ slot'[o].fut = "ok"
  BY <1>1, <1>2, <1>3, IdleIsLoaded, MarkedIs
<1>9. Exclusive(Reaper)' BY <1>1, <1>4, <1>6, <1>7 DEF Exclusive, Locked
<1>10. Leader(Reaper)' BY <1>4, <1>6 DEF Leader, Leading
<1>11. Evicting(Reaper)'
  BY <1>3, <1>4, <1>6, <1>8 DEF Evicting, None, Slot
<1>12. MarksOn(Reaper, q, S)
  <2>1. slot' = [o \in Slot |-> slot'[o]] /\ \A o \in Slot : slot'[o] = Marked(S)[o]
    BY <1>2 DEF Marked
  <2> QED BY <1>3, <1>4, <1>5, <1>7, <2>1 DEF MarksOn
<1> QED BY <1>1, <1>9, <1>10, <1>11, <1>12, Marks

(* The begin of load(), with its switch of engines, keeps it. *)
LEMMA LoadKeeps ==
  ASSUME IInv, NEW l \in Loader, Load(l)
  PROVE  IInv'
<1>1. TypeOK /\ l \in Actor /\ act[l].pc = "idle" /\ ~Locked(l) /\ locks = Release(l)
      /\ locks.load # l /\ locks.pool # l
  BY NothingHeld DEF IInv, Actor, Load, Locked, Exclusive
<1>2. PICK k \in Key, pin \in BOOLEAN, pc \in {"join", "failed", "evict"}, S \in SUBSET Slot :
        /\ act' = [act EXCEPT ![l] = [Nowhere EXCEPT !.pc = pc, !.key = k, !.pin = pin, !.todo = S,
                                                       !.then = "join"]]
        /\ \/ pc # "evict" /\ S = {} /\ slot' = slot
           \/ pc = "evict" /\ S \subseteq IdleSlots /\ slot' = Marked(S)
  <2>1. PICK k \in Key, pin \in BOOLEAN, switch \in BOOLEAN :
          LET o == slots[k]
              at(pc, todo) == act' = [act EXCEPT ![l] = [Nowhere EXCEPT !.pc = pc, !.key = k,
                                      !.pin = pin, !.todo = todo, !.then = "join"]]
          IN  \/ at("join", {}) /\ UNCHANGED slot
              \/ at("failed", {}) /\ UNCHANGED slot
              \/ Ready(o) /\ slot[o].leases = 0 /\ at("evict", {o}) /\ slot' = Marked({o})
    BY DEF Load
  <2>2. Ready(slots[k]) /\ slot[slots[k]].leases = 0 => {slots[k]} \subseteq IdleSlots /\ {slots[k]} \in SUBSET Slot
    BY DEF IdleSlots, Held, Ready
  <2>3. {} \in SUBSET Slot OBVIOUS
  <2> QED BY <2>1, <2>2, <2>3
<1> DEFINE q == [Nowhere EXCEPT !.pc = pc, !.key = k, !.pin = pin, !.todo = S, !.then = "join"]
<1>3. q \in ActorState /\ q.pc = pc /\ q.todo = S /\ q.cur = None /\ q.then = "join"
  <2>1. pin \in BOOLEAN /\ 0 \in 0..ReentryLimit BY BoundAssumption
  <2> QED BY <2>1 DEF ActorState, PCs, Nowhere, Ended
<1>4. act' = [act EXCEPT ![l] = q] BY <1>2
<1> HIDE DEF q
<1>5. act'[l] = q BY <1>1, <1>4, Typed
<1>6. CASE pc # "evict"
  <2>1. SameSlots BY <1>1, <1>2, <1>6, Pinning
  <2>2. q.pc \in Aside BY <1>3, <1>6 DEF Aside, Ended
  <2>3. locks' = Release(l) /\ gens' = gens /\ slots' = slots
        /\ count' \in [kill : 0..MaxKill, reap : 0..MaxReap]
    BY <1>1, Typed DEF Load
  <2> QED BY <1>1, <1>2, <1>3, <1>4, <1>6, <2>1, <2>2, <2>3, GoesAside
<1>7. CASE pc = "evict"
  <2>1. S \subseteq IdleSlots /\ slot' = Marked(S) BY <1>2, <1>7
  <2>2. LocksMove(l) /\ locks' \in [load : Actor \cup {Free}, pool : Loader \cup {Free}]
        /\ locks' = locks /\ gens' = gens /\ count' \in [kill : 0..MaxKill, reap : 0..MaxReap]
        /\ slots' = slots /\ slots \in [Key -> Slot \cup {None}]
    BY <1>1, Typed DEF Load, LocksMove
  <2>3. \A o \in S : slot[o].fut = "ok" /\ slot'[o].fut = "ok"
    BY <1>1, <2>1, IdleIsLoaded, MarkedIs
  <2>4. Exclusive(l)' BY <1>1, <1>3, <1>5, <1>7, <2>2 DEF Exclusive, Locked
  <2>5. Leader(l)' BY <1>3, <1>5, <1>7 DEF Leader, Leading
  <2>6. Evicting(l)' BY <1>3, <1>5, <1>7, <2>3 DEF Evicting, None, Slot
  <2>7. MarksOn(l, q, S)
    <3>1. slot' = [o \in Slot |-> slot'[o]] /\ \A o \in Slot : slot'[o] = Marked(S)[o]
      BY <2>1 DEF Marked
    <3> QED BY <1>3, <1>4, <2>1, <2>2, <3>1 DEF MarksOn
  <2> QED BY <1>1, <2>4, <2>5, <2>6, <2>7, Marks
<1> QED BY <1>6, <1>7

(* An admission keeps it. *)
LEMMA AdmittedKeeps ==
  ASSUME IInv, NEW l \in Loader, Admitted(l)
  PROVE  IInv'
<1>1. TypeOK /\ l \in Actor /\ act[l] \in ActorState /\ act[l].pc = "admit" /\ act[l].cur = None
      /\ locks.load = l /\ locks.pool = l
  BY Typed DEF IInv, Actor, Admitted, Evicting, Exclusive, Locked
<1> DEFINE k == act[l].key
           Fresh == [Unborn EXCEPT !.key = k, !.state = "loading", !.fut = "pending", !.pinned = act[l].pin]
<1>2. PICK S \in SUBSET {o \in IdleSlots : ~slot[o].pinned}, n \in Slot :
        /\ slot[n] = Unborn
        /\ slot' = [Marked(S) EXCEPT ![n] = Fresh]
        /\ slots' = [slots EXCEPT ![k] = n]
        /\ act' = [act EXCEPT ![l] = [act[l] EXCEPT !.pc = "evict", !.slot = n, !.todo = S, !.then = "start"]]
  BY DEF Admitted
<1> DEFINE q == [act[l] EXCEPT !.pc = "evict", !.slot = n, !.todo = S, !.then = "start"]
<1>3. S \subseteq IdleSlots /\ S \in SUBSET Slot BY <1>2 DEF IdleSlots, Held
<1>4. q \in ActorState /\ q.pc = "evict" /\ q.slot = n /\ q.todo = S /\ q.cur = None /\ q.then = "start"
  BY <1>1, <1>2, <1>3 DEF ActorState, PCs
<1>5. act' = [act EXCEPT ![l] = q] BY <1>2
<1>6. Fresh \in SlotState /\ Fresh.fut = "pending" /\ Fresh.state = "loading" /\ Fresh.leases = 0
  <2>1. act[l].pin \in BOOLEAN /\ k \in Key \cup {"none"} BY <1>1 DEF ActorState
  <2>2. 0 \in 0..Cardinality(Gen) /\ FALSE \in BOOLEAN BY <1>1, Typed
  <2> QED BY <2>1, <2>2 DEF SlotState, Unborn
<1> HIDE DEF q, Fresh, k
<1>7. act'[l] = q BY <1>1, <1>5, Typed
<1>8. slot'[n] = Fresh /\ \A o \in Slot \ {n} : slot'[o] = Marked(S)[o]
  BY <1>2 DEF Marked
<1>9. Born(n) BY <1>2, <1>6, <1>8 DEF Born
<1>10. LocksMove(l) /\ locks' \in [load : Actor \cup {Free}, pool : Loader \cup {Free}]
       /\ locks'.load = l /\ locks'.pool = Free /\ gens' = gens
       /\ count' \in [kill : 0..MaxKill, reap : 0..MaxReap]
  BY <1>1, Typed DEF Admitted, LocksMove
<1>11. \A o \in S : slot'[o].fut = "ok"
  <2>1. ASSUME NEW o \in S PROVE slot'[o].fut = "ok"
    <3>1. o # n BY <1>2, <1>3, IdleIsLoaded DEF Unborn
    <3> QED BY <1>1, <1>3, <1>8, <3>1, IdleIsLoaded, MarkedIs
  <2> QED BY <2>1
<1>12. Exclusive(l)'
  BY <1>1, <1>4, <1>7, <1>10, ActorAssumption DEF Exclusive, Locked, Free
<1>13. Leader(l)' BY <1>2, <1>4, <1>6, <1>7, <1>8 DEF Leader, Leading
<1>14. Evicting(l)' BY <1>3, <1>4, <1>7, <1>11 DEF Evicting, None, Slot
<1>15. MarksOn(l, q, S)
  <2>1. slot' = [o \in Slot |-> slot'[o]] BY <1>2 DEF Marked
  <2>2. \A o \in Slot : slot'[o] = Marked(S)[o] \/ Born(o) BY <1>8, <1>9
  <2>3. slots' \in [Key -> Slot \cup {None}]
        /\ \A j \in Key : slots'[j] = slots[j] \/ slots'[j] \in {o \in Slot : Born(o)}
    BY <1>1, <1>2, <1>9, Typed
  <2> QED BY <1>3, <1>4, <1>5, <1>10, <2>1, <2>2, <2>3 DEF MarksOn
<1> QED BY <1>1, <1>12, <1>13, <1>14, <1>15, Marks

-----------------------------------------------------------------------------
(* Unloads.                                                                *)
LEMMA UnloadKeeps ==
  ASSUME IInv, NEW u \in Unloader, Unload(u) \/ UnloadBusy(u)
  PROVE  IInv'
<1>1. TypeOK /\ u \in Actor /\ act[u].todo = {} /\ act[u].cur = None /\ ~Locked(u) /\ locks' = Release(u)
  BY NothingHeld DEF IInv, Actor, Unload, UnloadBusy, Locked, Evicting
<1>2. SameSlots BY <1>1, Pinning DEF Unload, UnloadBusy
<1>3. PICK pc \in Aside : Go(u, pc) BY DEF Unload, UnloadBusy, Aside, Ended
<1> QED BY <1>1, <1>2, <1>3, GoesToSide, Typed DEF Unload, UnloadBusy

(* An unload under the load lock keeps it. *)
LEMMA UnloadLockedKeeps ==
  ASSUME IInv, NEW u \in Unloader, UnloadLocked(u)
  PROVE  IInv'
<1>1. TypeOK /\ u \in Actor /\ act[u] \in ActorState /\ act[u].pc = "queue" /\ act[u].todo = {}
      /\ act[u].cur = None /\ locks.load = Free /\ locks.pool # u /\ ~Locked(u)
  BY Typed DEF IInv, Actor, UnloadLocked, Locked, Evicting, Exclusive
<1>2. SameSlots BY <1>1, Pinning DEF UnloadLocked
<1>3. CASE Go(u, "failed") /\ locks' = locks
  <2>1. locks' = Release(u) BY <1>1, <1>3, NothingHeld
  <2>2. "failed" \in Aside BY DEF Aside, Ended
  <2> QED BY <1>1, <1>2, <1>3, <2>1, <2>2, GoesToSide, Typed DEF UnloadLocked
<1>4. ASSUME NEW S \in SUBSET Held, locks' = [locks EXCEPT !.load = u],
             act' = [act EXCEPT ![u] = [act[u] EXCEPT !.pc = "evict", !.todo = S, !.then = "done"]]
      PROVE  IInv'
  <2> DEFINE q == [act[u] EXCEPT !.pc = "evict", !.todo = S, !.then = "done"]
  <2>1. q \in ActorState /\ q.pc = "evict" /\ q.todo = S /\ q.cur = None /\ q.then = "done"
    BY <1>1 DEF ActorState, PCs, Held
  <2>2. act' = [act EXCEPT ![u] = q] BY <1>4
  <2> HIDE DEF q
  <2>3. act'[u] = q BY <1>1, <2>2, Typed
  <2>4. locks'.load = u /\ locks'.pool = locks.pool /\ LocksMove(u)
        /\ locks' \in [load : Actor \cup {Free}, pool : Loader \cup {Free}]
    BY <1>1, <1>4, Typed DEF LocksMove
  <2>5. Exclusive(u)' BY <1>1, <2>1, <2>3, <2>4 DEF Exclusive, Locked
  <2>6. Leader(u)' BY <2>1, <2>3 DEF Leader, Leading
  <2>7. Evicting(u)'
    <3>1. \A o \in S : slot'[o].fut # "none" BY DEF IInv, UnloadLocked
    <3> QED BY <2>1, <2>3, <3>1 DEF Evicting, None, Slot
  <2> QED BY <1>1, <1>2, <2>1, <2>2, <2>4, <2>5, <2>6, <2>7, Proceeds DEF UnloadLocked
<1>5. ASSUME NEW S PROVE {o \in Held : slot[o].key \in S} \in SUBSET Held
  OBVIOUS
<1> QED BY <1>3, <1>4, <1>5 DEF UnloadLocked

-----------------------------------------------------------------------------
(* Generations.                                                            *)
GenState == [pc : {"idle", "expanding", "leased", "done"}, slot : Slot \cup {None}]

(* No actor moves while a generation takes or returns a lease.             *)
LEMMA GenStep ==
  ASSUME IInv, UNCHANGED <<slots, locks, act, count>>,
         gens' \in [Gen -> GenState], slot' \in [Slot -> SlotState],
         \A o \in Slot :
           /\ slot'[o].fut = slot[o].fut /\ slot'[o].proc = slot[o].proc
           /\ slot'[o].state = slot[o].state
           /\ slot'[o].late = slot[o].late \/ slot'[o].late = TRUE
           /\ slot'[o].leases > 0 => slot[o].leases > 0 \/ slot'[o].late = TRUE \/ slot[o].state = "ready"
           /\ slot'[o].leases > 0 => slot[o].fut = "ok"
           /\ slot[o].leases = 0 => slot'[o].leases = 0 \/ slot'[o].late = TRUE \/ slot[o].state = "ready",
         \A o \in Slot : Counted(o)', \A g \in Gen : Knows(g)'
  PROVE  IInv'
<1>1. TypeOK BY DEF IInv
<1>2. TypeOK' BY <1>1, Typed, Assembled DEF GenState
<1>3. ASSUME NEW a \in Actor PROVE Exclusive(a)' /\ Leader(a)' /\ Evicting(a)'
  <2>1. Exclusive(a) /\ Leader(a) /\ Evicting(a) /\ act[a] \in ActorState BY <1>1, Typed DEF IInv
  <2>2. Exclusive(a)' BY <2>1 DEF Exclusive, Locked
  <2>3. Leader(a)'
    <3>1. act[a].pc = "load" => act[a].slot \in Slot BY <2>1 DEF Leader, Leading
    <3> QED BY <2>1, <3>1 DEF Leader, Leading
  <2>4. Evicting(a)' BY <2>1 DEF Evicting
  <2> QED BY <2>2, <2>3, <2>4
<1>4. ASSUME NEW o \in Slot PROVE Fate(o)'
  <2>1. Fate(o) BY DEF IInv
  <2>2. slot[o] \in SlotState /\ slot'[o] \in SlotState BY <1>1, Typed
  <2> QED BY <2>1, <2>2 DEF Fate, SlotState
<1>5. ASSUME NEW o \in Held' PROVE slot'[o].fut # "none"
  BY DEF IInv, Held
<1> QED BY <1>2, <1>3, <1>4, <1>5 DEF IInv

(* The leases of a slot, counted when one generation takes or returns one. *)
LEMMA HoldersFinite ==
  ASSUME NEW S \in SUBSET Gen
  PROVE  IsFiniteSet(S) /\ Cardinality(S) \in Nat /\ Cardinality(S) <= Cardinality(Gen)
BY GenAssumption, FS_Subset, FS_CardinalityType

(* A lease is counted, and one on a slot that is not ready is remembered as late. *)
LEMMA LeasesKeeps ==
  ASSUME IInv, NEW g \in Gen, NEW o \in Slot, Leases(g, o), slot[o].fut = "ok",
         gens[g].pc # "leased", UNCHANGED <<slots, locks, act, count>>
  PROVE  IInv'
<1> DEFINE t == [slot[o] EXCEPT !.leases = @ + 1, !.late = @ \/ ~Ready(o)]
           late == slot[o].late \/ ~Ready(o)
<1>1. TypeOK /\ slot[o] \in SlotState /\ Counted(o) BY Typed DEF IInv
<1>2. slot' = [slot EXCEPT ![o] = t] /\ gens' = [gens EXCEPT ![g] = [pc |-> "leased", slot |-> o]]
  BY DEF Leases
<1>3. Holders(o)' = Holders(o) \cup {g} /\ g \notin Holders(o)
      /\ \A x \in Slot \ {o} : Holders(x)' = Holders(x)
  BY <1>1, <1>2, Typed DEF Holders
<1>4. Cardinality(Holders(o)') = slot[o].leases + 1 /\ slot[o].leases + 1 \in 0..Cardinality(Gen)
      /\ slot[o].leases \in Nat
  <2>1. Holders(o) \in SUBSET Gen /\ Holders(o) \cup {g} \in SUBSET Gen BY DEF Holders
  <2>2. Cardinality(Holders(o) \cup {g}) = Cardinality(Holders(o)) + 1
    BY <1>3, <2>1, HoldersFinite, FS_AddElement
  <2>3. Cardinality(Holders(o)) = slot[o].leases BY <1>1 DEF Counted
  <2>4. Cardinality(Gen) \in Nat BY <1>1, Typed
  <2> QED BY <1>3, <2>1, <2>2, <2>3, <2>4, HoldersFinite
<1>5. t \in SlotState /\ t.leases = slot[o].leases + 1 /\ t.fut = slot[o].fut
      /\ t.proc = slot[o].proc /\ t.state = slot[o].state
  <2>1. late \in BOOLEAN OBVIOUS
  <2>2. t = [slot[o] EXCEPT !.leases = slot[o].leases + 1, !.late = late] OBVIOUS
  <2> HIDE DEF late, t
  <2> QED BY <1>1, <1>4, <2>1, <2>2 DEF SlotState
<1>6. t.late = slot[o].late \/ t.late = TRUE
  <2>1. slot[o].late \in BOOLEAN BY <1>1 DEF SlotState
  <2> QED BY <1>1, <2>1 DEF SlotState
<1>7. t.late = TRUE \/ slot[o].state = "ready"
  BY <1>1 DEF SlotState, Ready
<1> HIDE DEF t
<1>8. slot' \in [Slot -> SlotState] /\ slot'[o] = t /\ \A x \in Slot \ {o} : slot'[x] = slot[x]
  BY <1>1, <1>2, <1>5, Typed
<1>9. gens' \in [Gen -> GenState] BY <1>1, <1>2, Typed DEF GenState
<1>10. ASSUME NEW x \in Slot PROVE Counted(x)'
  BY <1>3, <1>4, <1>5, <1>8 DEF IInv, Counted
<1>11. ASSUME NEW h \in Gen PROVE Knows(h)'
  <2>1. CASE h = g BY <1>1, <1>2, <1>5, <1>8, <2>1, Typed DEF Knows
  <2>2. CASE h # g
    <3>1. gens'[h] = gens[h] BY <1>1, <1>2, <2>2, Typed
    <3>2. \A x \in Slot : slot'[x].fut = slot[x].fut BY <1>5, <1>8
    <3> QED BY <3>1, <3>2 DEF IInv, Knows
  <2> QED BY <2>1, <2>2
<1>12. ASSUME NEW x \in Slot
       PROVE /\ slot'[x].fut = slot[x].fut /\ slot'[x].proc = slot[x].proc /\ slot'[x].state = slot[x].state
             /\ slot'[x].late = slot[x].late \/ slot'[x].late = TRUE
             /\ slot'[x].leases > 0 => slot[x].leases > 0 \/ slot'[x].late = TRUE \/ slot[x].state = "ready"
             /\ slot'[x].leases > 0 => slot[x].fut = "ok"
             /\ slot[x].leases = 0 => slot'[x].leases = 0 \/ slot'[x].late = TRUE \/ slot[x].state = "ready"
  <2>1. CASE x = o BY <1>5, <1>6, <1>7, <1>8, <2>1
  <2>2. CASE x # o BY <1>8, <2>2 DEF IInv, Fate
  <2> QED BY <2>1, <2>2
<1> QED BY <1>8, <1>9, <1>10, <1>11, <1>12, GenStep

(* Picking a slot, and coming back to it, keep the invariant. *)
LEMMA GenerateKeeps ==
  ASSUME IInv, NEW g \in Gen, Generate(g) \/ Expanded(g)
  PROVE  IInv'
<1>1. TypeOK /\ gens[g].pc # "leased" /\ UNCHANGED <<slots, locks, act, count>>
  BY DEF IInv, Generate, Expanded
<1>2. \A o \in Slot : Ready(o) => slot[o].fut = "ok" BY DEF IInv, Fate, Ready
<1>3. ASSUME NEW o \in Slot, Leases(g, o), slot[o].fut = "ok" PROVE IInv'
  BY <1>1, <1>3, LeasesKeeps
<1>4. CASE Expanded(g)
  <2>1. gens[g].slot \in Slot /\ slot[gens[g].slot].fut = "ok" BY <1>4 DEF IInv, Knows, Expanded
  <2> QED BY <1>2, <1>3, <1>4, <2>1 DEF Expanded, Ready
<1>5. ASSUME NEW o \in Slot, Ready(o), slot' = slot,
             gens' = [gens EXCEPT ![g] = [pc |-> "expanding", slot |-> o]]
      PROVE  IInv'
  <2>1. gens' \in [Gen -> GenState] /\ gens'[g] = [pc |-> "expanding", slot |-> o]
        /\ \A h \in Gen \ {g} : gens'[h] = gens[h]
    BY <1>1, <1>5, Typed DEF GenState
  <2>2. ASSUME NEW x \in Slot PROVE Counted(x)'
    <3>1. Holders(x)' = Holders(x) BY <1>1, <2>1 DEF Holders
    <3> QED BY <1>5, <3>1 DEF IInv, Counted
  <2>3. ASSUME NEW h \in Gen PROVE Knows(h)'
    BY <1>2, <1>5, <2>1 DEF IInv, Knows
  <2>4. slot' \in [Slot -> SlotState] BY <1>1, <1>5, Typed
  <2>5. \A x \in Slot : slot[x].leases > 0 => slot[x].fut = "ok" BY DEF IInv, Fate
  <2> QED BY <1>1, <1>5, <2>1, <2>2, <2>3, <2>4, <2>5, GenStep
<1> QED BY <1>3, <1>2, <1>4, <1>5 DEF Generate, Ready

(* Returning a lease keeps it. *)
LEMMA GeneratedKeeps ==
  ASSUME IInv, NEW g \in Gen, Generated(g)
  PROVE  IInv'
<1>0. PICK o \in Slot : gens[g].slot = o
  BY DEF IInv, Knows, Generated
<1> DEFINE n == IF slot[o].leases > 0 THEN slot[o].leases - 1 ELSE 0
           t == [slot[o] EXCEPT !.leases = n]
<1>1. TypeOK /\ gens[g].pc = "leased" /\ UNCHANGED <<slots, locks, act, count>>
      /\ o \in Slot /\ slot[o] \in SlotState /\ Counted(o) /\ slot[o].leases \in Nat
  BY Typed DEF IInv, Generated, SlotState
<1>2. slot' = [slot EXCEPT ![o] = t] /\ gens' = [gens EXCEPT ![g] = [pc |-> "done", slot |-> None]]
  BY <1>0 DEF Generated
<1>3. Holders(o)' = Holders(o) \ {g} /\ g \in Holders(o)
      /\ \A x \in Slot \ {o} : Holders(x)' = Holders(x)
  <2>1. gens'[g].pc = "done" /\ \A h \in Gen \ {g} : gens'[h] = gens[h]
    BY <1>1, <1>2, Typed
  <2> QED BY <1>0, <1>1, <2>1 DEF Holders
<1>4. Cardinality(Holders(o)') = slot[o].leases - 1 /\ n = slot[o].leases - 1
      /\ n \in 0..Cardinality(Gen) /\ slot[o].leases > 0
  <2>1. Holders(o) \in SUBSET Gen /\ Holders(o) \ {g} \in SUBSET Gen BY DEF Holders
  <2>2. Cardinality(Holders(o) \ {g}) = Cardinality(Holders(o)) - 1
    BY <1>3, <2>1, HoldersFinite, FS_RemoveElement
  <2>3. Cardinality(Holders(o)) = slot[o].leases BY <1>1 DEF Counted
  <2>4. Cardinality(Gen) \in Nat BY <1>1, Typed
  <2> QED BY <1>3, <2>1, <2>2, <2>3, <2>4, HoldersFinite
<1>5. t \in SlotState /\ t.leases = n /\ t.fut = slot[o].fut
      /\ t.proc = slot[o].proc /\ t.state = slot[o].state /\ t.late = slot[o].late
  <2> HIDE DEF n
  <2> QED BY <1>1, <1>4 DEF SlotState
<1> HIDE DEF t, n
<1>6. slot' \in [Slot -> SlotState] /\ slot'[o] = t /\ \A x \in Slot \ {o} : slot'[x] = slot[x]
  BY <1>1, <1>2, <1>5, Typed
<1>7. gens' \in [Gen -> GenState]
  <2>1. [pc |-> "done", slot |-> None] \in GenState BY DEF GenState
  <2>2. gens \in [Gen -> GenState] BY <1>1, Typed DEF GenState
  <2> QED BY <1>2, <2>1, <2>2
<1>8. ASSUME NEW x \in Slot PROVE Counted(x)'
  BY <1>3, <1>4, <1>5, <1>6 DEF IInv, Counted
<1>9. ASSUME NEW h \in Gen PROVE Knows(h)'
  <2>1. CASE h = g BY <1>1, <1>2, <2>1, Typed DEF Knows
  <2>2. CASE h # g
    <3>1. gens'[h] = gens[h] BY <1>1, <1>2, <2>2, Typed
    <3>2. \A x \in Slot : slot'[x].fut = slot[x].fut BY <1>5, <1>6
    <3> QED BY <3>1, <3>2 DEF IInv, Knows
  <2> QED BY <2>1, <2>2
<1>10. ASSUME NEW x \in Slot
       PROVE /\ slot'[x].fut = slot[x].fut /\ slot'[x].proc = slot[x].proc /\ slot'[x].state = slot[x].state
             /\ slot'[x].late = slot[x].late
             /\ slot'[x].leases > 0 => slot[x].leases > 0
             /\ slot'[x].leases > 0 => slot[x].fut = "ok"
             /\ slot[x].leases = 0 => slot'[x].leases = 0
  <2>1. CASE x = o BY <1>4, <1>5, <1>6, <2>1 DEF IInv, Fate
  <2>2. CASE x # o BY <1>6, <2>2 DEF IInv, Fate
  <2> QED BY <2>1, <2>2
<1> QED BY <1>1, <1>6, <1>7, <1>8, <1>9, <1>10, GenStep

-----------------------------------------------------------------------------
(* Cancellations.                                                          *)
LEMMA CancelKeeps ==
  ASSUME IInv, NEW a \in Actor, Cancel(a)
  PROVE  IInv'
<1>1. TypeOK /\ act[a] \in ActorState /\ gens' = gens
  BY Typed DEF IInv, Cancel
<1>2. count' \in [kill : 0..MaxKill, reap : 0..MaxReap]
  <2>1. count' = [count EXCEPT !.kill = count.kill + 1] /\ count.kill < MaxKill BY DEF Cancel
  <2>2. count.kill + 1 \in 0..MaxKill BY <1>1, <2>1, Typed, BoundAssumption
  <2> QED BY <1>1, <2>1, <2>2, Typed
<1>3. CASE /\ Suspended(a) /\ locks' = Release(a) /\ UNCHANGED <<slot, slots>>
           /\ act' = [act EXCEPT ![a] = [act[a] EXCEPT !.pc = "cancelled", !.todo = {}, !.cur = None]]
  <2> DEFINE q == [act[a] EXCEPT !.pc = "cancelled", !.todo = {}, !.cur = None]
  <2>1. q \in ActorState /\ q.pc \in Aside /\ q.todo = {} /\ q.cur = None
    BY <1>1 DEF ActorState, PCs, Aside, Ended
  <2>2. act' = [act EXCEPT ![a] = q] BY <1>3
  <2> HIDE DEF q
  <2>3. SameSlots BY <1>1, <1>3, Pinning
  <2> QED BY <1>1, <1>2, <1>3, <2>1, <2>2, <2>3, GoesAside
<1>4. CASE Fails(a, "cancelled") /\ UNCHANGED <<slots, locks>>
  BY <1>1, <1>2, <1>4, FailsKeeps
<1>5. CASE FailsEarly(a, "cancelled")
  BY <1>1, <1>2, <1>5, FailsEarlyKeeps
<1> QED BY <1>3, <1>4, <1>5 DEF Cancel

-----------------------------------------------------------------------------
(* The invariant holds.                                                    *)
LEMMA InitHolds == Init => IInv
<1> SUFFICES ASSUME Init PROVE IInv
  OBVIOUS
<1>1. 0 \in 0..Cardinality(Gen) /\ 0 \in 0..ReentryLimit /\ 0 \in 0..MaxKill /\ 0 \in 0..MaxReap
      /\ FALSE \in BOOLEAN /\ Cardinality({}) = 0
  BY BoundAssumption, GenAssumption, FS_CardinalityType, FS_EmptySet
<1>2. Unborn \in SlotState /\ Nowhere \in ActorState
  BY <1>1 DEF Unborn, Nowhere, SlotState, ActorState, PCs
<1>3. slot \in [Slot -> SlotState] /\ act \in [Actor -> ActorState]
  BY <1>2 DEF Init
<1>4. TypeOK
  BY <1>1, <1>3 DEF Init, TypeOK, SlotState, ActorState, PCs
<1>5. ASSUME NEW a \in Actor PROVE Exclusive(a) /\ Leader(a) /\ Evicting(a)
  BY ActorAssumption DEF Init, Nowhere, Exclusive, Leader, Evicting, Locked, Leading, Free, None, Slot
<1>6. ASSUME NEW o \in Slot PROVE Fate(o) /\ Counted(o)
  <2>1. Holders(o) = {} BY DEF Init, Holders
  <2> QED BY <1>1, <2>1 DEF Init, Unborn, Fate, Counted
<1>7. ASSUME NEW g \in Gen PROVE Knows(g) BY DEF Init, Knows
<1>8. Held = {} BY DEF Init, Held, None, Slot
<1> QED BY <1>4, <1>5, <1>6, <1>7, <1>8 DEF IInv

(* Every action, by name, keeps it.                                        *)
LEMMA NextHolds == IInv /\ [Next]_vars => IInv'
<1> SUFFICES ASSUME IInv, [Next]_vars PROVE IInv'
  OBVIOUS
<1>1. ASSUME NEW l \in Loader, Load(l) \/ Loads(l) PROVE IInv'
  <2>1. l \in Actor BY DEF Actor
  <2>2. CASE LoadFails(l)
    <3>1. count' \in [kill : 0..MaxKill, reap : 0..MaxReap] BY <2>2, Typed DEF IInv, LoadFails
    <3> QED BY <2>1, <2>2, <3>1, FailsKeeps DEF LoadFails
  <2>3. CASE FailsEarly(l, "failed") /\ UNCHANGED <<gens, count>>
    <3>1. count' \in [kill : 0..MaxKill, reap : 0..MaxReap] BY <2>3, Typed DEF IInv
    <3> QED BY <2>1, <2>3, <3>1, FailsEarlyKeeps
  <2> QED BY <1>1, <2>1, <2>2, <2>3, LoadKeeps, JoinKeeps, WokenKeeps, TakeLoadLockKeeps, LookKeeps,
             AdmittedKeeps, RefusedKeeps, StartKeeps, LoadedKeeps, ClosedKeeps, EvictsKeeps DEF Loads
<1>2. ASSUME NEW u \in Unloader, Unload(u) \/ Unloads(u) PROVE IInv'
  BY <1>2, UnloadKeeps, UnloadLockedKeeps, EvictsKeeps DEF Unloads, Actor
<1>3. ASSUME Reap \/ Evicts(Reaper) PROVE IInv'
  BY <1>3, ReapKeeps, EvictsKeeps DEF Actor
<1>4. ASSUME NEW g \in Gen, Generate(g) \/ Expanded(g) \/ Generated(g) PROVE IInv'
  BY <1>4, GenerateKeeps, GeneratedKeeps
<1>5. ASSUME NEW a \in Actor, Cancel(a) PROVE IInv'
  BY <1>5, CancelKeeps
<1>6. CASE UNCHANGED vars
  <2>1. TypeOK' BY <1>6 DEF IInv, TypeOK, vars
  <2>2. \A a \in Actor : Exclusive(a)' /\ Leader(a)' /\ Evicting(a)'
    BY <1>6 DEF IInv, vars, Exclusive, Leader, Evicting, Locked, Leading
  <2>3. \A o \in Slot : Fate(o)' /\ Counted(o)'
    BY <1>6 DEF IInv, vars, Fate, Counted, Holders
  <2>4. (\A g \in Gen : Knows(g)') /\ \A o \in Held' : slot'[o].fut # "none"
    BY <1>6 DEF IInv, vars, Knows, Held
  <2> QED BY <2>1, <2>2, <2>3, <2>4 DEF IInv
<1> QED BY <1>1, <1>2, <1>3, <1>4, <1>5, <1>6 DEF Next, Stop

(* Every reachable state of the pool satisfies the inductive invariant.    *)
THEOREM Invariance == Spec => []IInv
BY InitHolds, NextHolds, PTL DEF Spec

(* The pool's bookkeeping keeps its types.                                 *)
THEOREM TypeCorrect == Spec => []TypeOK
<1>1. IInv => TypeOK BY DEF IInv
<1> QED BY <1>1, Invariance, PTL

(* The locks of the pool are held by tasks that will give them back: no    *)
(* cancellation, refusal or failed load leaves one behind.                 *)
THEOREM LocksAreOwned == Spec => []LocksOwned
<1>1. IInv => LocksOwned
  <2> SUFFICES ASSUME IInv PROVE LocksOwned
    OBVIOUS
  <2>1. locks.load \in Actor \cup {Free} /\ locks.pool \in Loader \cup {Free} BY Typed DEF IInv
  <2>2. \A a \in Actor : Exclusive(a) BY DEF IInv
  <2> QED BY <2>1, <2>2 DEF LocksOwned, Exclusive, Locked, Actor
<1> QED BY <1>1, Invariance, PTL

(* No eviction, unload or reaper pass stops the worker of a slot that was  *)
(* leased while it was ready, whatever is cancelled on the way.            *)
THEOREM LeasedSlotsRun == Spec => []TimelyLeaseRuns
<1>1. IInv => TimelyLeaseRuns
  <2> SUFFICES ASSUME IInv, NEW o \in Slot, slot[o].leases > 0, ~slot[o].late PROVE slot[o].proc
    BY DEF TimelyLeaseRuns
  <2>1. slot[o].late \in BOOLEAN BY Typed DEF IInv, SlotState
  <2>2. slot[o].late = FALSE BY <2>1
  <2>3. slot[o].proc = TRUE BY <2>2 DEF IInv, Fate
  <2> QED BY <2>3
<1> QED BY <1>1, Invariance, PTL

-----------------------------------------------------------------------------
(* Without cancellations: a leader leads until it resolves its future.     *)
Onward(a) ==
  /\ \A b \in Actor \ {a} : act'[b] = act[b]
  /\ \A o \in Slot : slot'[o].fut = "pending" =>
       slot[o].fut = "pending" \/ (a \in Loader /\ Leading(a)' /\ act'[a].slot = o)
  /\ Leading(a) => \/ Leading(a)' /\ act'[a].slot = act[a].slot
                   \/ slot'[act[a].slot].fut # "pending"

(* A step onward leaves every pending future with a leader. *)
LEMMA StillLed ==
  ASSUME IInv, Led, NEW a \in Actor, Onward(a)
  PROVE  Led'
<1> SUFFICES ASSUME NEW o \in Slot, slot'[o].fut = "pending"
             PROVE  \E l \in Loader : Leading(l)' /\ act'[l].slot = o
  BY DEF Led
<1>1. CASE slot[o].fut = "pending"
  <2>1. PICK l \in Loader : Leading(l) /\ act[l].slot = o BY <1>1 DEF Led
  <2>2. CASE l = a BY <2>1, <2>2 DEF Onward
  <2>3. CASE l # a
    <3>1. act'[l] = act[l] BY <2>3 DEF Onward, Actor
    <3> QED BY <2>1, <3>1 DEF Leading
  <2> QED BY <2>2, <2>3
<1>2. CASE slot[o].fut # "pending" BY <1>2 DEF Onward
<1> QED BY <1>1, <1>2

(* A move to another place, with no slot newly pending.                    *)
LEMMA GoOn ==
  ASSUME TypeOK, NEW a \in Actor, NEW pc \in PCs, Go(a, pc),
         \A o \in Slot : slot'[o].fut = "pending" => slot[o].fut = "pending",
         \/ ~Leading(a)
         \/ pc \in {"start", "load"}
         \/ pc \in {"evict", "pop"} /\ act[a].then = "start"
         \/ slot'[act[a].slot].fut # "pending"
  PROVE  Onward(a)
<1>1. act'[a].pc = pc /\ act'[a].slot = act[a].slot /\ act'[a].then = act[a].then
      /\ \A b \in Actor \ {a} : act'[b] = act[b]
  <2>1. PICK q \in ActorState :
          /\ act' = [act EXCEPT ![a] = q] /\ act'[a] = q /\ q.pc = pc
          /\ q.slot = act[a].slot /\ q.then = act[a].then
    BY GoStep
  <2> QED BY <2>1, Typed
<1> QED BY <1>1 DEF Onward, Leading

(* Of a slot that is stopped, started or leased the future stays.          *)
LEMMA FutureStays ==
  ASSUME TypeOK, NEW o, NEW p, NEW n, NEW late,
         \/ slot' = [slot EXCEPT ![o].proc = p]
         \/ slot' = [slot EXCEPT ![o].leases = n]
         \/ slot' = [slot EXCEPT ![o] = [slot[o] EXCEPT !.leases = n, !.late = late]]
  PROVE  \A x \in Slot : slot'[x].fut = slot[x].fut
<1>1. \A x \in Slot : slot[x] \in SlotState /\ slot \in [Slot -> SlotState] BY Typed
<1>2. CASE slot' = [slot EXCEPT ![o].proc = p] BY <1>1, <1>2 DEF SlotState
<1>3. CASE slot' = [slot EXCEPT ![o].leases = n] BY <1>1, <1>3 DEF SlotState
<1>4. CASE slot' = [slot EXCEPT ![o] = [slot[o] EXCEPT !.leases = n, !.late = late]]
  BY <1>1, <1>4 DEF SlotState
<1> QED BY <1>2, <1>3, <1>4

(* An eviction goes on with the load it makes room for. *)
LEMMA EvictsOn ==
  ASSUME IInv, NEW a \in Actor, Evicts(a)
  PROVE  Onward(a)
<1>1. TypeOK /\ act[a] \in ActorState BY Typed DEF IInv
<1>2. CASE EvictNext(a)
  <2>1. PICK o \in act[a].todo : slot' = [slot EXCEPT ![o].state = "ready"] \/ slot' = Marked({o})
    BY <1>2 DEF EvictNext
  <2>2. \A x \in Slot : slot'[x].fut = slot[x].fut
    <3>1. o \in Slot BY <1>1 DEF ActorState
    <3>2. \A x \in Slot : Marked({o})[x].fut = slot[x].fut BY <1>1, <3>1, MarkedIs
    <3>3. CASE slot' = [slot EXCEPT ![o].state = "ready"]
      <4>1. \A x \in Slot : slot[x] \in SlotState BY <1>1, Typed
      <4> QED BY <1>1, <3>1, <3>3, <4>1, Typed DEF SlotState
    <3> QED BY <2>1, <3>2, <3>3
  <2>3. act'[a].pc = act[a].pc /\ act'[a].slot = act[a].slot /\ act'[a].then = act[a].then
        /\ \A b \in Actor \ {a} : act'[b] = act[b]
    <3>1. PICK q : act' = [act EXCEPT ![a] = q] /\ q.pc = act[a].pc /\ q.slot = act[a].slot
                   /\ q.then = act[a].then
      <4>1. PICK v \in act[a].todo :
              \/ act' = [act EXCEPT ![a] = [act[a] EXCEPT !.todo = @ \ {v}]]
              \/ act' = [act EXCEPT ![a] = [act[a] EXCEPT !.todo = @ \ {v}, !.cur = v]]
        BY <1>2 DEF EvictNext
      <4> DEFINE q1 == [act[a] EXCEPT !.todo = @ \ {v}]
                 q2 == [act[a] EXCEPT !.todo = @ \ {v}, !.cur = v]
      <4>2. q1.pc = act[a].pc /\ q1.slot = act[a].slot /\ q1.then = act[a].then
            /\ q2.pc = act[a].pc /\ q2.slot = act[a].slot /\ q2.then = act[a].then
        BY <1>1 DEF ActorState
      <4>3. act' = [act EXCEPT ![a] = q1] \/ act' = [act EXCEPT ![a] = q2] BY <4>1
      <4> HIDE DEF q1, q2
      <4> QED BY <4>2, <4>3
    <3> QED BY <1>1, <3>1, Typed
  <2> QED BY <2>2, <2>3 DEF Onward, Leading
<1>3. CASE EvictStopped(a)
  <2>1. \A x \in Slot : slot'[x].fut = slot[x].fut
    <3>1. \A x \in Slot : slot[x] \in SlotState BY <1>1, Typed
    <3> QED BY <1>1, <1>3, <3>1, Typed DEF EvictStopped, Stops, SlotState
  <2> QED BY <1>1, <1>3, <2>1, GoOn DEF EvictStopped, PCs, Leading
<1>4. CASE EvictPop(a)
  <2>1. act'[a].pc = "evict" /\ act'[a].slot = act[a].slot /\ act'[a].then = act[a].then
        /\ \A b \in Actor \ {a} : act'[b] = act[b]
    BY <1>1, <1>4, Typed DEF EvictPop, ActorState
  <2> QED BY <1>4, <2>1 DEF Onward, Leading, EvictPop
<1>5. CASE EvictDone(a)
  <2>1. act[a].then \in PCs BY <1>1 DEF ActorState, PCs, Ended
  <2> QED BY <1>1, <1>5, <2>1, GoOn DEF EvictDone, Leading
<1> QED BY <1>2, <1>3, <1>4, <1>5 DEF Evicts

(* Every step of load() goes on with it or resolves the future. *)
LEMMA LoadsOn ==
  ASSUME IInv, NEW l \in Loader, Load(l) \/ Loads(l)
  PROVE  Onward(l)
<1>1. TypeOK /\ l \in Actor /\ act[l] \in ActorState /\ \A x \in Slot : slot[x] \in SlotState
  BY Typed DEF IInv, Actor
<1>2. CASE Join(l) \/ Woken(l) \/ TakeLoadLock(l)
  <2>1. SameSlots BY <1>1, <1>2, Pinning DEF Join, Woken, TakeLoadLock
  <2>2. ~Leading(l) /\ \A b \in Actor \ {l} : act'[b] = act[b]
    BY <1>1, <1>2, Typed DEF Join, Woken, TakeLoadLock, Leading, Go
  <2> QED BY <2>1, <2>2 DEF Onward, SameSlots
<1>3. CASE Load(l)
  <2>1. ~Leading(l) /\ \A b \in Actor \ {l} : act'[b] = act[b]
    BY <1>1, <1>3, Typed DEF Load, Leading
  <2>2. slot' = slot \/ \E o \in Slot : slot' = Marked({o})
    BY <1>3 DEF Load, Ready
  <2>3. \A x, o \in Slot : Marked({o})[x].fut = slot[x].fut BY <1>1, MarkedIs
  <2> QED BY <2>1, <2>2, <2>3 DEF Onward
<1>4. CASE Look(l)
  <2>1. SameSlots BY <1>1, <1>4, Pinning DEF Look
  <2>2. ~Leading(l) /\ \A b \in Actor \ {l} : act'[b] = act[b]
    BY <1>1, <1>4, Typed DEF Look, Leading, Go
  <2> QED BY <2>1, <2>2 DEF Onward, SameSlots
<1>5. CASE Admitted(l)
  <2>0. PICK S \in SUBSET Slot, n \in Slot : \E f :
          /\ slot' = [Marked(S) EXCEPT ![n] = f]
          /\ act' = [act EXCEPT ![l] = [act[l] EXCEPT !.pc = "evict", !.slot = n, !.todo = S, !.then = "start"]]
    BY <1>5 DEF Admitted, IdleSlots, Held
  <2>1. PICK f :
          /\ slot' = [Marked(S) EXCEPT ![n] = f]
          /\ act' = [act EXCEPT ![l] = [act[l] EXCEPT !.pc = "evict", !.slot = n, !.todo = S, !.then = "start"]]
    BY <2>0
  <2>2. ~Leading(l) BY <1>5 DEF Admitted, Leading
  <2>3. act'[l].pc = "evict" /\ act'[l].then = "start" /\ act'[l].slot = n
        /\ \A b \in Actor \ {l} : act'[b] = act[b]
    BY <1>1, <2>1, Typed DEF ActorState
  <2>4. \A x \in Slot \ {n} : slot'[x].fut = slot[x].fut
    <3>1. \A x \in Slot \ {n} : slot'[x] = Marked(S)[x] BY <2>1 DEF Marked
    <3> QED BY <1>1, <3>1, MarkedIs
  <2> QED BY <1>1, <2>2, <2>3, <2>4 DEF Onward, Leading
<1>6. CASE Refused(l) \/ Drop(l)
  <2>1. ~Leading(l) BY <1>6 DEF Refused, Drop, Leading
  <2> QED BY <1>1, <1>6, <2>1, GoOn DEF Refused, Drop, PCs, Ended
<1>7. CASE Start(l) \/ Closed(l)
  <2>1. \A x \in Slot : slot'[x].fut = slot[x].fut
    BY <1>1, <1>7, FutureStays DEF Start, Closed, Stops
  <2>2. Start(l) \/ ~Leading(l) BY <1>7 DEF Closed, Leading
  <2> QED BY <1>1, <1>7, <2>1, <2>2, GoOn DEF Start, Closed, PCs
<1>8. ASSUME NEW pc \in PCs, NEW f, Leading(l), Go(l, pc), f.fut # "pending",
             slot' = [slot EXCEPT ![act[l].slot] = f]
      PROVE  Onward(l)
  <2>1. act[l].slot \in Slot BY <1>1, <1>8, LeadsOnly
  <2>2. slot'[act[l].slot] = f /\ \A x \in Slot \ {act[l].slot} : slot'[x] = slot[x]
    BY <1>1, <1>8, <2>1, Typed
  <2> QED BY <1>1, <1>8, <2>2, GoOn
<1>9. CASE Loaded(l)
  <2> DEFINE f == [slot[act[l].slot] EXCEPT !.state = "ready", !.fut = "ok"]
  <2>1. Leading(l) BY <1>9 DEF Loaded, Leading
  <2>2. f.fut # "pending" BY <1>1, <2>1, LeadsOnly DEF SlotState
  <2>3. slot' = [slot EXCEPT ![act[l].slot] = f] /\ Go(l, "done") BY <1>9 DEF Loaded
  <2> HIDE DEF f
  <2> QED BY <1>8, <2>1, <2>2, <2>3 DEF PCs, Ended
<1>10. CASE LoadFails(l) \/ FailsEarly(l, "failed")
  <2> DEFINE f == [slot[act[l].slot] EXCEPT !.fut = "failed"]
  <2>1. Leading(l) BY <1>10 DEF LoadFails, Fails, FailsEarly, Leading
  <2>2. f.fut # "pending" BY <1>1, <2>1, LeadsOnly DEF SlotState
  <2>3. slot' = [slot EXCEPT ![act[l].slot] = f] /\ (Go(l, "close") \/ Go(l, "failed"))
    BY <1>10 DEF LoadFails, Fails, FailsEarly
  <2> HIDE DEF f
  <2> QED BY <1>8, <2>1, <2>2, <2>3 DEF PCs, Ended
<1> QED BY <1>1, <1>2, <1>3, <1>4, <1>5, <1>6, <1>7, <1>9, <1>10, EvictsOn DEF Loads

(* While no task is cancelled, a pending future keeps its leader.          *)
LEMMA LedAlways == ASSUME MaxKill = 0 PROVE Spec => []Led
<1>1. Init => Led BY DEF Init, Led, Unborn
<1>2. IInv /\ Led /\ [Next]_vars => Led'
  <2> SUFFICES ASSUME IInv, Led, [Next]_vars PROVE Led'
    OBVIOUS
  <2>1. ASSUME NEW l \in Loader, Load(l) \/ Loads(l) PROVE Led'
    BY <2>1, LoadsOn, StillLed DEF Actor
  <2>2. ASSUME NEW u \in Unloader, Unload(u) \/ Unloads(u) PROVE Led'
    <3>1. u \in Actor /\ TypeOK BY DEF Actor, IInv
    <3>2. CASE Evicts(u) BY <3>1, <3>2, EvictsOn, StillLed
    <3>3. CASE Unload(u) \/ UnloadBusy(u) \/ UnloadLocked(u)
      <4>1. ~Leading(u) /\ slot' = slot /\ \A b \in Actor \ {u} : act'[b] = act[b]
        BY <3>1, <3>3, Typed DEF Unload, UnloadBusy, UnloadLocked, Leading, Go
      <4> QED BY <3>1, <4>1, StillLed DEF Onward
    <3> QED BY <2>2, <3>2, <3>3 DEF Unloads
  <2>3. ASSUME Reap \/ Evicts(Reaper) PROVE Led'
    <3>1. Reaper \in Actor /\ TypeOK BY DEF Actor, IInv
    <3>2. CASE Evicts(Reaper) BY <3>1, <3>2, EvictsOn, StillLed
    <3>3. CASE Reap
      <4>1. ~Leading(Reaper) /\ \A b \in Actor \ {Reaper} : act'[b] = act[b]
        BY <3>1, <3>3, Typed DEF Reap, Leading
      <4>2. PICK S \in SUBSET Slot : slot' = Marked(S) BY <3>3 DEF Reap, IdleSlots, Held
      <4>3. \A x \in Slot : slot'[x].fut = slot[x].fut BY <3>1, <4>2, MarkedIs
      <4> QED BY <3>1, <4>1, <4>3, StillLed DEF Onward
    <3> QED BY <2>3, <3>2, <3>3
  <2>4. ASSUME NEW g \in Gen, Generate(g) \/ Expanded(g) \/ Generated(g) PROVE Led'
    <3>1. act' = act BY <2>4 DEF Generate, Expanded, Generated
    <3>2. \A x \in Slot : slot'[x].fut = slot[x].fut
      <4>1. TypeOK BY DEF IInv
      <4>2. ASSUME NEW o, Leases(g, o) PROVE \A x \in Slot : slot'[x].fut = slot[x].fut
        <5>1. PICK n, late : slot' = [slot EXCEPT ![o] = [slot[o] EXCEPT !.leases = n, !.late = late]]
          BY <4>2 DEF Leases
        <5> QED BY <4>1, <5>1, FutureStays
      <4>3. CASE Generated(g)
        <5>1. PICK n : slot' = [slot EXCEPT ![gens[g].slot].leases = n] BY <4>3 DEF Generated
        <5> QED BY <4>1, <5>1, FutureStays
      <4> QED BY <2>4, <4>2, <4>3 DEF Generate, Expanded
    <3> QED BY <3>1, <3>2 DEF Led, Leading
  <2>5. ASSUME NEW a \in Actor, Cancel(a) PROVE FALSE
    <3>1. count.kill \in 0..0 /\ count.kill < 0 BY <2>5, Typed DEF IInv, Cancel
    <3> QED BY <3>1
  <2>6. CASE UNCHANGED vars BY <2>6 DEF vars, Led, Leading
  <2> QED BY <2>1, <2>2, <2>3, <2>4, <2>5, <2>6 DEF Next, Stop
<1> QED BY <1>1, <1>2, Invariance, PTL DEF Spec

(* While no task is cancelled, no future is left unresolved without a      *)
(* leader: "an unresolved future would hang every waiter".                 *)
THEOREM LoadsAreLed == ASSUME MaxKill = 0 PROVE Spec => []PendingIsLed
<1>1. Led => PendingIsLed
  BY DEF Led, PendingIsLed, Leading, Leads
<1> QED BY <1>1, LedAlways, PTL

-----------------------------------------------------------------------------
(* Without cancellations no worker is forgotten either: the worker of a    *)
(* slot that has no late lease is in the table and nobody has marked it,   *)
(* or it is on the list of whoever is going to stop it.                    *)
Listed(o) == \E a \in Actor : o \in act[a].todo \/ o = act[a].cur
Tracked(o) ==
  slot[o].proc = TRUE /\ slot[o].late = FALSE =>
    (o \in Held /\ slot[o].state # "evicting") \/ Listed(o)

(* Leases taken in time keep a slot ready, and a ready slot in the table.  *)
Placed(o) ==
  /\ slot[o].late = FALSE /\ slot[o].leases > 0 => slot[o].state = "ready"
  /\ slot[o].late = FALSE /\ slot[o].state = "ready" => o \in Held
  /\ slot[o].fut = "ok" => slot[o].state \in {"ready", "evicting"}
  /\ slot[o].fut = "pending" => slot[o].state = "loading"

(* What an actor has seen to: the worker it stopped is gone, the slot it   *)
(* loads is in the table and without a worker until it spawns one, and the *)
(* slot that an admission is about to displace is on somebody's list.      *)
Stage(a) ==
  /\ act[a].pc = "pop" => act[a].cur \in Slot /\ slot[act[a].cur].proc = FALSE
  /\ a \in Loader /\ act[a].pc # "idle" => act[a].key \in Key
  /\ Leading(a) => /\ act[a].slot \in Held
                   /\ act[a].pc # "load" => slot[act[a].slot].proc = FALSE
  /\ act[a].pc = "drop" => act[a].slot \in Slot /\ slot[act[a].slot].proc = FALSE
  /\ act[a].pc = "admit" =>
       \A o \in Slot : slots[act[a].key] = o => slot[o].late = TRUE \/ slot[o].state = "evicting"

Watched == /\ \A o \in Slot : Tracked(o) /\ Placed(o)
           /\ \A a \in Actor : Stage(a)

(* What a step of an actor may do to the slots and the table while others  *)
(* are at work.                                                            *)
Calm(a) ==
  /\ \A b \in Actor \ {a} : act'[b] = act[b]
  /\ \A k \in Key : slots'[k] = slots[k] \/ slots'[k] = None \/ Locked(a)
  /\ \A o \in Held : o \in Held' \/ o = act[a].cur \/ Locked(a)
  /\ \A o \in Slot : slot'[o].proc = TRUE =>
       slot[o].proc = TRUE \/ (Leading(a) /\ o = act[a].slot)
  /\ \A o \in Held :
       /\ slot[o].late = TRUE => slot'[o].late = TRUE
       /\ slot[o].state = "evicting" =>
            slot'[o].state = "evicting" \/ slot[o].leases > 0 \/ Locked(a)

(* Of what one actor leads, nobody else is about to drop anything.         *)
LEMMA Apart ==
  ASSUME IInv, NEW a \in Actor, NEW b \in Actor \ {a}, Leading(b)
  PROVE  ~Locked(a) /\ act[b].slot # act[a].cur /\ act[b].slot \in Slot
<1>1. Locked(b) /\ ~Locked(a) BY Typed DEF IInv, Exclusive, Locked, Leading
<1>2. act[b].slot \in Slot /\ slot[act[b].slot].fut = "pending" BY DEF IInv, Leader
<1>3. ASSUME act[b].slot = act[a].cur PROVE FALSE
  <2>1. act[a].pc \in {"evict", "pop"} /\ act[a].then # "done"
    BY <1>1, <1>2, <1>3 DEF IInv, Evicting, Locked, None, Slot
  <2> QED BY <1>2, <1>3, <2>1 DEF IInv, Evicting
<1> QED BY <1>1, <1>2, <1>3

(* A calm step leaves every other actor where it was. *)
LEMMA OthersStay ==
  ASSUME IInv, Watched, TypeOK', NEW a \in Actor, NEW b \in Actor \ {a}, Calm(a)
  PROVE  Stage(b)'
<1>1. act'[b] = act[b] /\ Stage(b) /\ act[b] \in ActorState BY Typed DEF IInv, Calm, Watched
<1>2. \A o \in Slot : slot'[o].proc \in BOOLEAN
  BY Typed DEF TypeOK
<1>3. ASSUME act[b].pc = "pop" PROVE act[b].cur \in Slot /\ slot'[act[b].cur].proc = FALSE
  <2>1. act[b].cur \in Slot /\ slot[act[b].cur].proc = FALSE BY <1>1, <1>3 DEF Stage
  <2>2. ~(Leading(a) /\ act[b].cur = act[a].slot) BY Apart
  <2> QED BY <1>2, <2>1, <2>2 DEF Calm
<1>4. ASSUME Leading(b)
      PROVE act[b].slot \in Held' /\ (act[b].pc # "load" => slot'[act[b].slot].proc = FALSE)
  <2>1. ~Locked(a) /\ act[b].slot # act[a].cur /\ act[b].slot \in Slot BY <1>4, Apart
  <2>2. ~Leading(a) BY <2>1 DEF Leading, Locked
  <2> QED BY <1>1, <1>2, <1>4, <2>1, <2>2 DEF Stage, Calm
<1>5. ASSUME act[b].pc = "drop" PROVE act[b].slot \in Slot /\ slot'[act[b].slot].proc = FALSE
  <2>1. ~Locked(a) BY <1>5, Typed DEF IInv, Exclusive, Locked
  <2>2. ~Leading(a) BY <2>1 DEF Leading, Locked
  <2> QED BY <1>1, <1>2, <1>5, <2>2 DEF Stage, Calm
<1>6. ASSUME act[b].pc = "admit", NEW o \in Slot, slots'[act[b].key] = o
      PROVE  slot'[o].late = TRUE \/ slot'[o].state = "evicting"
  <2>1. ~Locked(a) BY <1>6, Typed DEF IInv, Exclusive, Locked
  <2>2. b \in Loader
    <3>1. locks.pool = b BY <1>6 DEF IInv, Exclusive
    <3> QED BY <3>1, Typed DEF IInv
  <2>3. act[b].key \in Key BY <1>1, <1>6, <2>2 DEF Stage
  <2>4. slots[act[b].key] = o BY <1>6, <2>1, <2>3 DEF Calm, None, Slot
  <2>5. o \in Held /\ (slot[o].late = TRUE \/ slot[o].state = "evicting")
    BY <1>1, <1>6, <2>3, <2>4 DEF Stage, Held
  <2>6. CASE slot[o].late = TRUE BY <2>5, <2>6 DEF Calm
  <2>7. CASE slot[o].late # TRUE
    <3>1. slot[o].late = FALSE BY <2>7, Typed DEF IInv, SlotState
    <3>2. ~(slot[o].leases > 0) BY <2>5, <3>1 DEF Watched, Placed
    <3> QED BY <2>1, <2>5, <2>7, <3>2 DEF Calm
  <2> QED BY <2>6, <2>7
<1>7. Leading(b)' <=> Leading(b) BY <1>1 DEF Leading
<1> QED BY <1>1, <1>3, <1>4, <1>5, <1>6, <1>7 DEF Stage

(* So a step is judged by the slots and by its own actor.                  *)
LEMMA Advance ==
  ASSUME IInv, Watched, TypeOK', NEW a \in Actor, Calm(a), Stage(a)',
         \A o \in Slot : Tracked(o)' /\ Placed(o)'
  PROVE  Watched'
<1>1. \A b \in Actor : Stage(b)' BY OthersStay
<1> QED BY <1>1 DEF Watched

(* A step that leaves the slots and the table alone and drops nothing from *)
(* its actor's list.                                                       *)
LEMMA LeavesSlots ==
  ASSUME IInv, Watched, TypeOK', NEW a \in Actor, SameSlots, slots' = slots,
         \A b \in Actor \ {a} : act'[b] = act[b],
         act[a].todo \subseteq act'[a].todo, act[a].cur \in {None, act'[a].cur}, Stage(a)'
  PROVE  Watched'
<1>1. Held' = Held /\ Held \subseteq Slot BY DEF Held
<1>2. Calm(a) BY <1>1 DEF Calm, SameSlots
<1>3. ASSUME NEW o \in Slot, Listed(o) PROVE Listed(o)'
  <2>1. PICK b \in Actor : o \in act[b].todo \/ o = act[b].cur BY <1>3 DEF Listed
  <2>2. o \in act'[b].todo \/ o = act'[b].cur
    BY <2>1 DEF None, Slot
  <2> QED BY <2>2 DEF Listed
<1>4. ASSUME NEW o \in Slot PROVE Tracked(o)' /\ Placed(o)'
  <2>1. Tracked(o) /\ Placed(o) BY DEF Watched
  <2>2. Tracked(o)' BY <1>1, <1>3, <2>1 DEF Tracked, SameSlots
  <2>3. Placed(o)' BY <1>1, <2>1 DEF Placed, SameSlots
  <2> QED BY <2>2, <2>3
<1> QED BY <1>2, <1>4, Advance

(* Going to another place changes the place and nothing else.              *)
LEMMA GoKeeps ==
  ASSUME TypeOK, NEW a \in Actor, NEW pc \in PCs, Go(a, pc)
  PROVE  /\ act'[a].pc = pc /\ act'[a].key = act[a].key /\ act'[a].slot = act[a].slot
         /\ act'[a].todo = act[a].todo /\ act'[a].cur = act[a].cur /\ act'[a].then = act[a].then
         /\ \A b \in Actor \ {a} : act'[b] = act[b]
<1>1. act[a] \in ActorState BY Typed
<1> QED BY <1>1, Typed DEF Go, ActorState

(* Whoever goes aside has nothing left to see to.                          *)
LEMMA AsideIsDone ==
  ASSUME NEW a \in Actor, act'[a].pc \in Aside, a \in Loader => act'[a].key \in Key
  PROVE  Stage(a)'
BY DEF Stage, Leading, Aside, Ended

-----------------------------------------------------------------------------
(* The steps of load() that touch no worker, and those of an unload.       *)
LEMMA JoinWatches ==
  ASSUME IInv, Watched, TypeOK', NEW l \in Loader, Join(l) \/ Woken(l)
  PROVE  Watched'
<1>1. TypeOK /\ l \in Actor /\ act[l].pc \in {"join", "wait"} /\ act[l] \in ActorState
      /\ act[l].todo = {} /\ act[l].cur = None /\ act[l].key \in Key
  BY Typed DEF IInv, Watched, Stage, Actor, Join, Woken, Evicting
<1>2. SameSlots /\ slots' = slots BY <1>1, Pinning DEF Join, Woken
<1>3. ASSUME NEW pc \in {"done", "queue", "failed", "inherited"}, Go(l, pc) PROVE Watched'
  <2>1. pc \in PCs /\ pc \in Aside BY DEF PCs, Aside, Ended
  <2>2. Stage(l)' BY <1>1, <1>3, <2>1, GoKeeps, AsideIsDone
  <2> QED BY <1>1, <1>2, <1>3, <2>1, <2>2, GoKeeps, LeavesSlots
<1>4. ASSUME NEW q, act' = [act EXCEPT ![l] = q], q.pc \in Aside, q.key \in Key,
             q.todo = {}, q.cur = None
      PROVE  Watched'
  <2>1. act'[l] = q /\ \A b \in Actor \ {l} : act'[b] = act[b] BY <1>1, <1>4, Typed
  <2>2. Stage(l)' BY <1>1, <1>4, <2>1, AsideIsDone
  <2> QED BY <1>1, <1>2, <1>4, <2>1, <2>2, LeavesSlots
<1>5. ASSUME NEW o, act' = [act EXCEPT ![l] = [act[l] EXCEPT !.pc = "wait", !.slot = o]]
      PROVE  Watched'
  <2> DEFINE q == [act[l] EXCEPT !.pc = "wait", !.slot = o]
  <2>1. q.pc \in Aside /\ q.key \in Key /\ q.todo = {} /\ q.cur = None
    BY <1>1 DEF ActorState, Aside
  <2>2. act' = [act EXCEPT ![l] = q] BY <1>5
  <2> HIDE DEF q
  <2> QED BY <1>4, <2>1, <2>2
<1>6. ASSUME NEW o, NEW pc \in {"done", "wait", "queue"},
             act' = [act EXCEPT ![l] = [act[l] EXCEPT !.pc = pc, !.slot = o, !.tries = @ + 1]]
      PROVE  Watched'
  <2> DEFINE q == [act[l] EXCEPT !.pc = pc, !.slot = o, !.tries = @ + 1]
  <2>1. q.pc \in Aside /\ q.key \in Key /\ q.todo = {} /\ q.cur = None
    BY <1>1 DEF ActorState, Aside, Ended
  <2>2. act' = [act EXCEPT ![l] = q] BY <1>6
  <2> HIDE DEF q
  <2> QED BY <1>4, <2>1, <2>2
<1>7. CASE Join(l) BY <1>3, <1>5, <1>7 DEF Join
<1>8. CASE Woken(l) BY <1>3, <1>6, <1>8 DEF Woken
<1> QED BY <1>7, <1>8

(* Taking the lock and a refusal change no slot.                           *)
LEMMA QueueWatches ==
  ASSUME IInv, Watched, TypeOK', NEW l \in Loader, TakeLoadLock(l) \/ Refused(l)
  PROVE  Watched'
<1>1. TypeOK /\ l \in Actor /\ act[l].pc \in {"queue", "admit"} /\ act[l] \in ActorState
      /\ act[l].todo = {} /\ act[l].cur = None /\ act[l].key \in Key
  BY Typed DEF IInv, Watched, Stage, Actor, TakeLoadLock, Refused, Evicting
<1>2. SameSlots /\ slots' = slots BY <1>1, Pinning DEF TakeLoadLock, Refused
<1>3. PICK pc \in {"look", "failed"} : Go(l, pc) BY DEF TakeLoadLock, Refused
<1>4. pc \in PCs BY DEF PCs, Ended
<1>5. act'[l].pc = pc /\ act'[l].key = act[l].key /\ act'[l].todo = {} /\ act'[l].cur = None
      /\ \A b \in Actor \ {l} : act'[b] = act[b]
  BY <1>1, <1>3, <1>4, GoKeeps
<1>6. Stage(l)' BY <1>1, <1>3, <1>5 DEF Stage, Leading
<1> QED BY <1>1, <1>2, <1>5, <1>6, LeavesSlots

(* A load under way has its leader, who holds the load lock.               *)
LEMMA PendingHolds ==
  ASSUME IInv, Led, NEW o \in Slot, slot[o].fut = "pending"
  PROVE  \E l \in Loader : Leading(l) /\ act[l].slot = o /\ \A a \in Actor : Locked(a) => a = l
<1>1. PICK l \in Loader : Leading(l) /\ act[l].slot = o BY DEF Led
<1>2. Locked(l) /\ l \in Actor BY <1>1 DEF Leading, Locked, Actor
<1>3. \A a \in Actor : Locked(a) => a = l BY <1>2 DEF IInv, Exclusive
<1> QED BY <1>1, <1>3

(* Under the load lock a leader finds no load pending; the slot that its   *)
(* admission is going to displace is marked.                               *)
LEMMA LookWatches ==
  ASSUME IInv, Led, Watched, TypeOK', NEW l \in Loader, Look(l)
  PROVE  Watched'
<1>1. TypeOK /\ l \in Actor /\ act[l].pc = "look" /\ act[l] \in ActorState
      /\ act[l].todo = {} /\ act[l].cur = None /\ act[l].key \in Key
  BY Typed DEF IInv, Watched, Stage, Actor, Look, Evicting
<1>2. SameSlots /\ slots' = slots BY <1>1, Pinning DEF Look
<1>3. ASSUME NEW pc \in {"done", "failed"}, Go(l, pc) PROVE Watched'
  <2>1. pc \in PCs /\ pc \in Aside BY DEF PCs, Aside, Ended
  <2>2. Stage(l)' BY <1>1, <1>3, <2>1, GoKeeps, AsideIsDone
  <2> QED BY <1>1, <1>2, <1>3, <2>1, <2>2, GoKeeps, LeavesSlots
<1>4. ASSUME NEW o \in Slot, slot[o].fut = "pending" PROVE FALSE
  <2>1. PICK m \in Loader : Leading(m) /\ \A a \in Actor : Locked(a) => a = m BY <1>4, PendingHolds
  <2>2. Locked(l) BY <1>1 DEF Locked
  <2> QED BY <1>1, <2>1, <2>2 DEF Leading
<1>5. ASSUME Go(l, "admit"), ~Ready(slots[act[l].key]), ~HasFuture(slots[act[l].key])
      PROVE  Watched'
  <2>1. act'[l].pc = "admit" /\ act'[l].key = act[l].key /\ act'[l].todo = {} /\ act'[l].cur = None
        /\ \A b \in Actor \ {l} : act'[b] = act[b]
    BY <1>1, <1>5, GoKeeps DEF PCs
  <2>2. ASSUME NEW o \in Slot, slots[act[l].key] = o PROVE slot'[o].state = "evicting"
    <3>1. slot[o].fut # "none" /\ slot[o] \in SlotState BY <1>1, <2>2, Typed DEF IInv, Held
    <3>2. slot[o].fut = "ok" /\ slot[o].state # "ready"
      BY <1>5, <2>2, <3>1 DEF Ready, HasFuture, SlotState
    <3> QED BY <1>2, <3>2 DEF Watched, Placed, SameSlots
  <2>3. Stage(l)' BY <1>1, <1>2, <2>1, <2>2 DEF Stage, Leading
  <2> QED BY <1>1, <1>2, <2>1, <2>3, LeavesSlots
<1> QED BY <1>3, <1>4, <1>5 DEF Look, HasFuture

(* An unload changes no slot before it evicts.                             *)
LEMMA UnloadWatches ==
  ASSUME IInv, Watched, TypeOK', NEW u \in Unloader, Unload(u) \/ UnloadBusy(u) \/ UnloadLocked(u)
  PROVE  Watched'
<1>1. TypeOK /\ u \in Actor /\ act[u] \in ActorState /\ u \notin Loader
      /\ act[u].todo = {} /\ act[u].cur = None
  BY Typed, ActorAssumption DEF IInv, Actor, Unload, UnloadBusy, UnloadLocked, Evicting
<1>2. SameSlots /\ slots' = slots BY <1>1, Pinning DEF Unload, UnloadBusy, UnloadLocked
<1>3. ASSUME NEW pc \in {"queue", "failed"}, Go(u, pc) PROVE Watched'
  <2>1. pc \in PCs /\ pc \in Aside BY DEF PCs, Aside, Ended
  <2>2. Stage(u)' BY <1>1, <1>3, <2>1, GoKeeps, AsideIsDone
  <2> QED BY <1>1, <1>2, <1>3, <2>1, <2>2, GoKeeps, LeavesSlots
<1>4. ASSUME NEW S, act' = [act EXCEPT ![u] = [act[u] EXCEPT !.pc = "evict", !.todo = S, !.then = "done"]]
      PROVE  Watched'
  <2> DEFINE q == [act[u] EXCEPT !.pc = "evict", !.todo = S, !.then = "done"]
  <2>1. q.pc = "evict" /\ q.then = "done" /\ q.cur = None BY <1>1 DEF ActorState
  <2>2. act' = [act EXCEPT ![u] = q] BY <1>4
  <2> HIDE DEF q
  <2>3. act'[u] = q /\ \A b \in Actor \ {u} : act'[b] = act[b] BY <1>1, <2>2, Typed
  <2>4. Stage(u)' BY <1>1, <2>1, <2>3 DEF Stage, Leading
  <2> QED BY <1>1, <1>2, <2>1, <2>3, <2>4, LeavesSlots
<1> QED BY <1>3, <1>4 DEF Unload, UnloadBusy, UnloadLocked

-----------------------------------------------------------------------------
(* The steps that change one slot.  What they leave of the other slots.    *)
LEMMA OneSlot ==
  ASSUME IInv, Watched, TypeOK', NEW a \in Actor, NEW o \in Slot,
         \A x \in Slot \ {o} : slot'[x] = slot[x],
         slots' = slots \/ slots' = Without(o),
         \A b \in Actor \ {a} : act'[b] = act[b],
         act[a].todo \subseteq act'[a].todo \cup {o}, act[a].cur \in {None, o, act'[a].cur},
         Tracked(o)', Placed(o)'
  PROVE  \A x \in Slot : Tracked(x)' /\ Placed(x)'
<1>1. ASSUME NEW x \in Slot, x # o PROVE Tracked(x)' /\ Placed(x)'
  <2>1. slot'[x] = slot[x] /\ Tracked(x) /\ Placed(x) BY <1>1 DEF Watched
  <2>2. x \in Held => x \in Held'
    BY <1>1 DEF Held, Without
  <2>3. ASSUME Listed(x) PROVE Listed(x)'
    <3>1. PICK b \in Actor : x \in act[b].todo \/ x = act[b].cur BY <2>3 DEF Listed
    <3>2. x \in act'[b].todo \/ x = act'[b].cur BY <1>1, <3>1 DEF None, Slot
    <3> QED BY <3>2 DEF Listed
  <2>4. Tracked(x)' BY <2>1, <2>2, <2>3 DEF Tracked
  <2>5. Placed(x)' BY <2>1, <2>2 DEF Placed
  <2> QED BY <2>4, <2>5
<1> QED BY <1>1

(* The spawned worker is in the table, and nobody has marked its slot. *)
LEMMA StartWatches ==
  ASSUME IInv, Watched, TypeOK', NEW l \in Loader, Start(l)
  PROVE  Watched'
<1>0. PICK o \in Slot : act[l].slot = o BY DEF IInv, Actor, Leader, Leading, Start
<1>1. TypeOK /\ l \in Actor /\ act[l].pc = "start" /\ Leading(l) /\ act[l].key \in Key
  BY <1>0 DEF IInv, Watched, Stage, Actor, Start, Leading
<1>2. o \in Held /\ o \in Slot /\ slot[o] \in SlotState /\ slot[o].fut = "pending"
      /\ act[l].todo = {} /\ act[l].cur = None /\ slot[o].state = "loading"
  BY <1>0, <1>1, LeadsOnly DEF Watched, Stage, Placed
<1>3. slot'[o] = [slot[o] EXCEPT !.proc = TRUE] /\ \A x \in Slot \ {o} : slot'[x] = slot[x]
  BY <1>0, <1>1, <1>2, Typed DEF Start
<1>4. slot'[o].proc = TRUE /\ slot'[o].state = "loading" /\ slot'[o].fut = "pending"
      /\ slot'[o].leases = slot[o].leases /\ slot'[o].late = slot[o].late
  BY <1>0, <1>2, <1>3 DEF SlotState
<1>5. act'[l].pc = "load" /\ act'[l].key = act[l].key /\ act'[l].slot = o
      /\ act'[l].todo = {} /\ act'[l].cur = None /\ \A b \in Actor \ {l} : act'[b] = act[b]
  BY <1>0, <1>1, <1>2, GoKeeps DEF Start, PCs
<1>6. slots' = slots /\ Held' = Held /\ Held \subseteq Slot BY DEF Start, Held
<1>8. Tracked(o)' BY <1>2, <1>4, <1>6 DEF Tracked
<1>9. Placed(o)' BY <1>2, <1>4, <1>6 DEF Placed, Watched
<1>10. Stage(l)' BY <1>0, <1>1, <1>2, <1>5, <1>6 DEF Stage, Leading
<1>11. Calm(l) BY <1>0, <1>1, <1>3, <1>4, <1>2, <1>5, <1>6 DEF Calm
<1>12. \A x \in Slot : Tracked(x)' /\ Placed(x)'
  BY <1>1, <1>2, <1>3, <1>5, <1>6, <1>8, <1>9, OneSlot
<1> QED BY <1>1, <1>10, <1>11, <1>12, Advance

(* A load that ends well leaves a ready slot in the table. *)
LEMMA LoadedWatches ==
  ASSUME IInv, Watched, TypeOK', NEW l \in Loader, Loaded(l)
  PROVE  Watched'
<1>0. PICK o \in Slot : act[l].slot = o BY DEF IInv, Actor, Leader, Leading, Loaded
<1>1. TypeOK /\ l \in Actor /\ act[l].pc = "load" /\ Leading(l) /\ act[l].key \in Key
  BY <1>0 DEF IInv, Watched, Stage, Actor, Loaded, Leading
<1>2. o \in Held /\ o \in Slot /\ slot[o] \in SlotState /\ slot[o].fut = "pending"
      /\ act[l].todo = {} /\ act[l].cur = None /\ slot[o].state = "loading"
  BY <1>0, <1>1, LeadsOnly DEF Watched, Stage, Placed
<1>3. slot'[o] = [slot[o] EXCEPT !.state = "ready", !.fut = "ok"]
      /\ \A x \in Slot \ {o} : slot'[x] = slot[x]
  BY <1>0, <1>1, <1>2, Typed DEF Loaded
<1>4. slot'[o].proc = slot[o].proc /\ slot'[o].state = "ready" /\ slot'[o].fut = "ok"
      /\ slot'[o].late = slot[o].late
  BY <1>0, <1>2, <1>3 DEF SlotState
<1>5. act'[l].pc = "done" /\ act'[l].key = act[l].key
      /\ act'[l].todo = {} /\ act'[l].cur = None /\ \A b \in Actor \ {l} : act'[b] = act[b]
  BY <1>0, <1>1, <1>2, GoKeeps DEF Loaded, PCs, Ended
<1>6. slots' = slots /\ Held' = Held /\ Held \subseteq Slot BY DEF Loaded, Held
<1>7. Tracked(o)' /\ Placed(o)' BY <1>2, <1>4, <1>6 DEF Tracked, Placed
<1>8. Stage(l)' BY <1>0, <1>1, <1>5, AsideIsDone DEF Aside, Ended
<1>9. Calm(l)
  <2>1. \A x \in Slot : slot'[x].proc = slot[x].proc /\ slot'[x].late = slot[x].late
                         /\ (slot[x].state = "evicting" => slot'[x].state = "evicting")
    BY <1>2, <1>3, <1>4
  <2> QED BY <1>5, <1>6, <2>1 DEF Calm
<1>10. \A x \in Slot : Tracked(x)' /\ Placed(x)'
  BY <1>1, <1>2, <1>3, <1>5, <1>6, <1>7, OneSlot
<1> QED BY <1>1, <1>8, <1>9, <1>10, Advance

(* A failed load resolves its future; its worker stays where it is. *)
LEMMA LoadFailsWatches ==
  ASSUME IInv, Watched, TypeOK', NEW l \in Loader, LoadFails(l)
  PROVE  Watched'
<1>0. PICK o \in Slot : act[l].slot = o BY DEF IInv, Actor, Leader, Leading, LoadFails, Fails
<1>1. TypeOK /\ l \in Actor /\ act[l].pc = "load" /\ Leading(l) /\ act[l].key \in Key
  BY <1>0 DEF IInv, Watched, Stage, Actor, LoadFails, Fails, Leading
<1>2. o \in Held /\ o \in Slot /\ slot[o] \in SlotState /\ slot[o].fut = "pending"
      /\ act[l].todo = {} /\ act[l].cur = None /\ slot[o].state = "loading"
      /\ Tracked(o) /\ Placed(o)
  BY <1>0, <1>1, LeadsOnly DEF Watched, Stage, Placed
<1>3. slot'[o] = [slot[o] EXCEPT !.fut = "failed"] /\ \A x \in Slot \ {o} : slot'[x] = slot[x]
  BY <1>0, <1>1, <1>2, Typed DEF LoadFails, Fails
<1>4. slot'[o].proc = slot[o].proc /\ slot'[o].state = "loading" /\ slot'[o].fut = "failed"
      /\ slot'[o].late = slot[o].late /\ slot'[o].leases = slot[o].leases
  BY <1>2, <1>3 DEF SlotState
<1>5. act'[l].pc = "close" /\ act'[l].key = act[l].key
      /\ act'[l].todo = {} /\ act'[l].cur = None /\ \A b \in Actor \ {l} : act'[b] = act[b]
  BY <1>1, <1>2, GoKeeps DEF LoadFails, Fails, PCs
<1>6. slots' = slots /\ Held' = Held /\ Held \subseteq Slot BY DEF LoadFails, Held
<1>7. Tracked(o)' /\ Placed(o)' BY <1>2, <1>4, <1>6 DEF Tracked, Placed
<1>8. Stage(l)' BY <1>0, <1>1, <1>5 DEF Stage, Leading
<1>9. Calm(l) BY <1>0, <1>2, <1>3, <1>4, <1>5, <1>6 DEF Calm
<1>10. \A x \in Slot : Tracked(x)' /\ Placed(x)'
  BY <1>1, <1>2, <1>3, <1>5, <1>6, <1>7, OneSlot
<1> QED BY <1>1, <1>8, <1>9, <1>10, Advance

(* A load that fails before there is a worker has none to forget. *)
LEMMA FailsEarlyWatches ==
  ASSUME IInv, Watched, TypeOK', NEW l \in Loader, FailsEarly(l, "failed")
  PROVE  Watched'
<1>0. PICK o \in Slot : act[l].slot = o BY DEF IInv, Actor, Leader, Leading, FailsEarly
<1>1. TypeOK /\ l \in Actor /\ act[l].pc = "start" /\ Leading(l) /\ act[l].key \in Key
  BY <1>0 DEF IInv, Watched, Stage, Actor, FailsEarly, Leading
<1>2. o \in Held /\ o \in Slot /\ slot[o] \in SlotState /\ slot[o].fut = "pending"
      /\ act[l].todo = {} /\ act[l].cur = None /\ slot[o].state = "loading"
      /\ slot[o].proc = FALSE /\ Placed(o)
  BY <1>0, <1>1, LeadsOnly DEF Watched, Stage, Placed
<1>3. slot'[o] = [slot[o] EXCEPT !.fut = "failed"] /\ \A x \in Slot \ {o} : slot'[x] = slot[x]
  BY <1>0, <1>1, <1>2, Typed DEF FailsEarly
<1>4. slot'[o].proc = FALSE /\ slot'[o].state = "loading" /\ slot'[o].fut = "failed"
      /\ slot'[o].late = slot[o].late /\ slot'[o].leases = slot[o].leases
  BY <1>0, <1>2, <1>3 DEF SlotState
<1>5. act'[l].pc = "failed" /\ act'[l].key = act[l].key
      /\ act'[l].todo = {} /\ act'[l].cur = None /\ \A b \in Actor \ {l} : act'[b] = act[b]
  BY <1>0, <1>1, <1>2, GoKeeps DEF FailsEarly, PCs, Ended
<1>6. slots' = Without(o) BY <1>0 DEF FailsEarly
<1>7. Tracked(o)' /\ Placed(o)' BY <1>2, <1>4 DEF Tracked, Placed
<1>8. Stage(l)' BY <1>0, <1>1, <1>5, AsideIsDone DEF Aside, Ended
<1>9. Locked(l) BY <1>1 DEF Locked
<1>10. Calm(l) BY <1>0, <1>2, <1>3, <1>4, <1>5, <1>9, Typed DEF Calm, Held
<1>11. \A x \in Slot : Tracked(x)' /\ Placed(x)'
  BY <1>1, <1>2, <1>3, <1>5, <1>6, <1>7, OneSlot
<1> QED BY <1>1, <1>8, <1>10, <1>11, Advance

(* Stopping the worker of a failed load, and dropping its slot. *)
LEMMA ClosedWatches ==
  ASSUME IInv, Watched, TypeOK', NEW l \in Loader, Closed(l)
  PROVE  Watched'
<1>0. PICK o \in Slot : act[l].slot = o BY DEF IInv, Actor, Closed, Leader
<1>1. TypeOK /\ l \in Actor /\ act[l].pc = "close" /\ act[l].key \in Key
      /\ o \in Slot /\ slot[o] \in SlotState /\ act[l].todo = {} /\ act[l].cur = None /\ Placed(o)
  BY <1>0, Typed DEF IInv, Watched, Stage, Actor, Closed, Leader, Evicting
<1>2. slot'[o] = [slot[o] EXCEPT !.proc = FALSE] /\ \A x \in Slot \ {o} : slot'[x] = slot[x]
  BY <1>0, <1>1, Typed DEF Closed, Stops
<1>3. slot'[o].proc = FALSE /\ slot'[o].state = slot[o].state /\ slot'[o].fut = slot[o].fut
      /\ slot'[o].late = slot[o].late /\ slot'[o].leases = slot[o].leases
  BY <1>0, <1>1, <1>2 DEF SlotState
<1>4. act'[l].pc = "drop" /\ act'[l].key = act[l].key /\ act'[l].slot = o
      /\ act'[l].todo = {} /\ act'[l].cur = None /\ \A b \in Actor \ {l} : act'[b] = act[b]
  BY <1>0, <1>1, GoKeeps DEF Closed, PCs
<1>5. slots' = slots /\ Held' = Held /\ Held \subseteq Slot BY DEF Closed, Held
<1>6. Tracked(o)' /\ Placed(o)' BY <1>1, <1>3, <1>5 DEF Tracked, Placed
<1>7. Stage(l)' BY <1>0, <1>1, <1>3, <1>4 DEF Stage, Leading
<1>8. Calm(l) BY <1>0, <1>1, <1>2, <1>3, <1>4, <1>5 DEF Calm
<1>9. \A x \in Slot : Tracked(x)' /\ Placed(x)'
  BY <1>1, <1>2, <1>4, <1>5, <1>6, OneSlot
<1> QED BY <1>1, <1>7, <1>8, <1>9, Advance

(* The dropped slot of a failed load has no worker. *)
LEMMA DropWatches ==
  ASSUME IInv, Watched, TypeOK', NEW l \in Loader, Drop(l)
  PROVE  Watched'
<1>0. PICK o \in Slot : act[l].slot = o BY DEF Watched, Stage, Actor, Drop
<1>1. TypeOK /\ l \in Actor /\ act[l].pc = "drop" /\ act[l].key \in Key
      /\ o \in Slot /\ slot[o].proc = FALSE /\ act[l].todo = {} /\ act[l].cur = None
      /\ Placed(o) /\ Fate(o)
  BY <1>0, Typed DEF IInv, Watched, Stage, Actor, Drop, Evicting
<1>2. slot' = slot /\ slots' = Without(o) BY <1>0 DEF Drop
<1>3. act'[l].pc = "failed" /\ act'[l].key = act[l].key
      /\ act'[l].todo = {} /\ act'[l].cur = None /\ \A b \in Actor \ {l} : act'[b] = act[b]
  BY <1>0, <1>1, GoKeeps DEF Drop, PCs, Ended
<1>4. Tracked(o)' /\ Placed(o)' BY <1>1, <1>2 DEF Tracked, Placed, Fate
<1>5. Stage(l)' BY <1>0, <1>1, <1>3, AsideIsDone DEF Aside, Ended
<1>6. Locked(l) BY <1>1 DEF Locked
<1>7. Calm(l) BY <1>0, <1>2, <1>3, <1>6 DEF Calm
<1>8. \A x \in Slot : Tracked(x)' /\ Placed(x)'
  BY <1>1, <1>2, <1>3, <1>4, OneSlot
<1> QED BY <1>1, <1>5, <1>7, <1>8, Advance

-----------------------------------------------------------------------------
(* The steps of an eviction.                                               *)
LEMMA EvictNextWatches ==
  ASSUME IInv, Led, Watched, TypeOK', NEW a \in Actor, EvictNext(a)
  PROVE  Watched'
<1>1. TypeOK /\ act[a] \in ActorState /\ act[a].pc = "evict" /\ act[a].cur = None
      /\ Evicting(a) /\ Stage(a)
  BY Typed DEF IInv, Watched, EvictNext
<1>2. PICK o \in act[a].todo :
        IF slot[o].leases > 0
          THEN /\ slot' = [slot EXCEPT ![o].state = "ready"]
               /\ act' = [act EXCEPT ![a].todo = @ \ {o}]
          ELSE /\ slot' = Marked({o})
               /\ act' = [act EXCEPT ![a] = [act[a] EXCEPT !.todo = @ \ {o}, !.cur = o]]
  BY DEF EvictNext
<1>3. o \in Slot /\ slot[o] \in SlotState /\ Fate(o) /\ Tracked(o) /\ Placed(o)
  BY <1>1, Typed DEF ActorState, IInv, Watched
<1>4. slot[o].fut # "pending"
  <2>1. CASE act[a].then # "done" BY <1>1, <1>3, <2>1 DEF Evicting
  <2>2. CASE act[a].then = "done"
    <3>1. Locked(a) /\ ~Leading(a) BY <1>1, <2>2 DEF Locked, Leading
    <3> QED BY <1>3, <3>1, PendingHolds
  <2> QED BY <2>1, <2>2
<1>5. slots' = slots /\ Held' = Held /\ Held \subseteq Slot BY DEF EvictNext, Held
<1>6. ASSUME NEW q, act' = [act EXCEPT ![a] = q], q.pc = "evict", q.slot = act[a].slot,
             q.key = act[a].key, q.then = act[a].then, q.todo = act[a].todo \ {o}, q.cur \in {None, o},
             NEW t, slot' = [slot EXCEPT ![o] = t], t.fut = slot[o].fut,
             t.leases = slot[o].leases, t.late = slot[o].late, t.proc = slot[o].proc,
             \/ t.state = "ready" /\ slot[o].leases > 0
             \/ t.state = "evicting" /\ ~(slot[o].leases > 0) /\ q.cur = o
      PROVE  Watched'
  <2>1. act'[a] = q /\ (\A b \in Actor \ {a} : act'[b] = act[b])
        /\ slot'[o] = t /\ \A x \in Slot \ {o} : slot'[x] = slot[x]
    BY <1>1, <1>3, <1>6, Typed
  <2>2. Listed(o)' \/ (t.state = "ready" /\ slot[o].leases > 0)
    BY <1>6, <2>1 DEF Listed
  <2>3. Tracked(o)' /\ Placed(o)'
    BY <1>3, <1>4, <1>5, <1>6, <2>1, <2>2 DEF Tracked, Placed
  <2>4. Stage(a)'
    <3>1. Leading(a)' <=> Leading(a) BY <1>1, <1>6, <2>1 DEF Leading
    <3>2. \A x \in Slot : slot'[x].proc = slot[x].proc BY <1>6, <2>1
    <3> QED BY <1>1, <1>5, <1>6, <2>1, <3>1, <3>2 DEF Stage
  <2>5. Calm(a)
    <3>1. \A x \in Slot : slot'[x].proc = slot[x].proc /\ slot'[x].late = slot[x].late
            /\ (slot[x].state = "evicting" => slot'[x].state = "evicting" \/ slot[x].leases > 0)
      BY <1>6, <2>1
    <3> QED BY <1>5, <2>1, <3>1 DEF Calm
  <2>6. \A x \in Slot : Tracked(x)' /\ Placed(x)'
    BY <1>1, <1>3, <1>5, <1>6, <2>1, <2>3, OneSlot
  <2> QED BY <2>4, <2>5, <2>6, Advance
<1>7. CASE slot[o].leases > 0
  <2> DEFINE q == [act[a] EXCEPT !.todo = @ \ {o}]
             t == [slot[o] EXCEPT !.state = "ready"]
  <2>1. q.pc = "evict" /\ q.slot = act[a].slot /\ q.key = act[a].key /\ q.then = act[a].then
        /\ q.todo = act[a].todo \ {o} /\ q.cur = None
    BY <1>1 DEF ActorState
  <2>2. t.fut = slot[o].fut /\ t.leases = slot[o].leases
        /\ t.late = slot[o].late /\ t.proc = slot[o].proc /\ t.state = "ready"
    BY <1>3 DEF SlotState
  <2>3. act' = [act EXCEPT ![a] = q] /\ slot' = [slot EXCEPT ![o] = t]
    BY <1>2, <1>7
  <2> HIDE DEF q, t
  <2> QED BY <1>6, <1>7, <2>1, <2>2, <2>3
<1>8. CASE ~(slot[o].leases > 0)
  <2> DEFINE q == [act[a] EXCEPT !.todo = @ \ {o}, !.cur = o]
             t == [slot[o] EXCEPT !.state = "evicting"]
  <2>1. q.pc = "evict" /\ q.slot = act[a].slot /\ q.key = act[a].key /\ q.then = act[a].then
        /\ q.todo = act[a].todo \ {o} /\ q.cur = o
    BY <1>1, <1>3 DEF ActorState
  <2>2. t.fut = slot[o].fut /\ t.leases = slot[o].leases
        /\ t.late = slot[o].late /\ t.proc = slot[o].proc /\ t.state = "evicting"
    BY <1>3 DEF SlotState
  <2>3. act' = [act EXCEPT ![a] = q]
    BY <1>2, <1>8
  <2>4. slot' = [slot EXCEPT ![o] = t]
    BY <1>1, <1>2, <1>3, <1>8, Typed DEF Marked
  <2> HIDE DEF q, t
  <2> QED BY <1>6, <1>8, <2>1, <2>2, <2>3, <2>4
<1> QED BY <1>7, <1>8

(* A stopped worker is not lost. *)
LEMMA EvictStoppedWatches ==
  ASSUME IInv, Watched, TypeOK', NEW a \in Actor, EvictStopped(a)
  PROVE  Watched'
<1>0. PICK o \in Slot : act[a].cur = o
  BY Typed DEF IInv, EvictStopped, ActorState
<1>1. TypeOK /\ act[a] \in ActorState /\ act[a].pc = "evict" /\ slot[o] \in SlotState
      /\ Placed(o) /\ Stage(a)
  BY Typed DEF IInv, Watched, EvictStopped
<1>2. slot'[o] = [slot[o] EXCEPT !.proc = FALSE] /\ \A x \in Slot \ {o} : slot'[x] = slot[x]
  BY <1>0, <1>1, Typed DEF EvictStopped, Stops
<1>3. slot'[o].proc = FALSE /\ slot'[o].state = slot[o].state /\ slot'[o].fut = slot[o].fut
      /\ slot'[o].leases = slot[o].leases /\ slot'[o].late = slot[o].late
  BY <1>1, <1>2 DEF SlotState
<1>4. act'[a].pc = "pop" /\ act'[a].key = act[a].key /\ act'[a].slot = act[a].slot
      /\ act'[a].todo = act[a].todo /\ act'[a].cur = o /\ act'[a].then = act[a].then
      /\ \A b \in Actor \ {a} : act'[b] = act[b]
  BY <1>0, <1>1, GoKeeps DEF EvictStopped, PCs
<1>5. slots' = slots /\ Held' = Held /\ Held \subseteq Slot BY DEF EvictStopped, Held
<1>6. Tracked(o)' /\ Placed(o)' BY <1>1, <1>3, <1>5 DEF Tracked, Placed
<1>7. \A x \in Slot : slot[x].proc = FALSE => slot'[x].proc = FALSE BY <1>2, <1>3
<1>8. Stage(a)'
  <2>1. Leading(a)' <=> Leading(a) BY <1>1, <1>4 DEF Leading
  <2> QED BY <1>1, <1>3, <1>4, <1>5, <1>7, <2>1 DEF Stage
<1>9. Calm(a)
  <2>1. \A x \in Slot : /\ slot'[x].proc = TRUE => slot[x].proc = TRUE
                        /\ slot'[x].late = slot[x].late /\ slot'[x].state = slot[x].state
    BY <1>2, <1>3
  <2> QED BY <1>4, <1>5, <2>1 DEF Calm
<1>10. \A x \in Slot : Tracked(x)' /\ Placed(x)'
  BY <1>0, <1>1, <1>2, <1>4, <1>5, <1>6, OneSlot
<1> QED BY <1>8, <1>9, <1>10, Advance

(* The slot that an eviction drops has no worker, and is not ready unless  *)
(* somebody leased it late.                                                *)
LEMMA EvictPopWatches ==
  ASSUME IInv, Watched, TypeOK', NEW a \in Actor, EvictPop(a)
  PROVE  Watched'
<1>0. PICK o \in Slot : act[a].cur = o /\ slot[o].proc = FALSE
  BY DEF Watched, Stage, EvictPop
<1>1. TypeOK /\ act[a] \in ActorState /\ act[a].pc = "pop" /\ slot[o] \in SlotState
      /\ Placed(o) /\ Stage(a) /\ Evicting(a) /\ Leader(a)
  BY Typed DEF IInv, Watched, EvictPop
<1>2. slot' = slot /\ slots' = Without(o) BY <1>0 DEF EvictPop
<1>3. act'[a].pc = "evict" /\ act'[a].key = act[a].key /\ act'[a].slot = act[a].slot
      /\ act'[a].todo = act[a].todo /\ act'[a].cur = None /\ act'[a].then = act[a].then
      /\ \A b \in Actor \ {a} : act'[b] = act[b]
  BY <1>1, Typed DEF EvictPop, ActorState
<1>4. \A x \in Held : x \in Slot /\ (x \in Held' \/ x = o) BY <1>2 DEF Held, Without
<1>5. Tracked(o)' /\ Placed(o)'
  BY <1>0, <1>1, <1>2 DEF Tracked, Placed, Evicting
<1>6. Stage(a)'
  <2>1. Leading(a)' <=> Leading(a) BY <1>1, <1>3 DEF Leading
  <2>2. Leading(a) => act[a].slot # o
    BY <1>0, <1>1 DEF Leading, Leader, Evicting
  <2> QED BY <1>1, <1>2, <1>3, <1>4, <2>1, <2>2 DEF Stage
<1>7. Calm(a) BY <1>0, <1>2, <1>3, <1>4, Typed DEF Calm, Without
<1>8. \A x \in Slot : Tracked(x)' /\ Placed(x)'
  BY <1>0, <1>1, <1>2, <1>3, <1>5, OneSlot
<1> QED BY <1>6, <1>7, <1>8, Advance

(* At the end of its list an actor goes on with nothing listed. *)
LEMMA EvictDoneWatches ==
  ASSUME IInv, Watched, TypeOK', NEW a \in Actor, EvictDone(a)
  PROVE  Watched'
<1>1. TypeOK /\ act[a] \in ActorState /\ act[a].pc = "evict" /\ act[a].cur = None /\ act[a].todo = {}
      /\ act[a].then \in {"idle", "join", "start", "done"} /\ Stage(a)
  BY Typed DEF IInv, Watched, EvictDone, ActorState
<1>2. SameSlots /\ slots' = slots /\ slot' = slot BY <1>1, Pinning DEF EvictDone
<1>3. act[a].then \in PCs BY <1>1 DEF PCs, Ended
<1>4. act'[a].pc = act[a].then /\ act'[a].key = act[a].key /\ act'[a].slot = act[a].slot
      /\ act'[a].todo = {} /\ act'[a].cur = None /\ \A b \in Actor \ {a} : act'[b] = act[b]
  BY <1>1, <1>3, GoKeeps DEF EvictDone
<1>5. Held' = Held BY <1>2 DEF Held
<1>6. Stage(a)' BY <1>1, <1>2, <1>4, <1>5 DEF Stage, Leading
<1> QED BY <1>1, <1>2, <1>4, <1>6, LeavesSlots

(* No step of an eviction loses a worker. *)
LEMMA EvictsWatches ==
  ASSUME IInv, Led, Watched, TypeOK', NEW a \in Actor, Evicts(a)
  PROVE  Watched'
BY EvictNextWatches, EvictStoppedWatches, EvictPopWatches, EvictDoneWatches DEF Evicts

-----------------------------------------------------------------------------
(* The steps that mark idle slots: what is marked is on the marker's list. *)
LEMMA MarksWatch ==
  ASSUME IInv, Watched, TypeOK', NEW a \in Actor, NEW S \in SUBSET Slot, S \subseteq IdleSlots,
         slot' = Marked(S), slots' = slots, \A b \in Actor \ {a} : act'[b] = act[b],
         act[a].todo = {}, act[a].cur = None, S \subseteq act'[a].todo, Stage(a)'
  PROVE  Watched'
<1>1. TypeOK /\ Held' = Held /\ Held \subseteq Slot BY DEF IInv, Held
<1>2. \A x \in Slot : /\ slot'[x].leases = slot[x].leases /\ slot'[x].fut = slot[x].fut
                      /\ slot'[x].late = slot[x].late /\ slot'[x].proc = slot[x].proc
                      /\ slot'[x].state = (IF x \in S THEN "evicting" ELSE slot[x].state)
  BY <1>1, MarkedIs
<1>3. ASSUME NEW x \in Slot PROVE Tracked(x)' /\ Placed(x)'
  <2>1. Tracked(x) /\ Placed(x) BY DEF Watched
  <2>2. x \in S => slot[x].leases = 0 /\ slot[x].fut = "ok" BY IdleIsLoaded DEF IdleSlots
  <2>3. ASSUME Listed(x) \/ x \in S PROVE Listed(x)'
    <3>1. CASE x \in S BY <3>1 DEF Listed
    <3>2. CASE x \notin S
      <4>1. PICK b \in Actor : x \in act[b].todo \/ x = act[b].cur BY <2>3, <3>2 DEF Listed
      <4>2. b # a BY <4>1 DEF None, Slot
      <4> QED BY <4>1, <4>2 DEF Listed
    <3> QED BY <3>1, <3>2
  <2>4. Tracked(x)' BY <1>1, <1>2, <2>1, <2>3 DEF Tracked
  <2>5. Placed(x)' BY <1>1, <1>2, <2>1, <2>2 DEF Placed
  <2> QED BY <2>4, <2>5
<1>4. Calm(a) BY <1>1, <1>2 DEF Calm
<1> QED BY <1>3, <1>4, Advance

(* A pass of the reaper lists what it marks. *)
LEMMA ReapWatches ==
  ASSUME IInv, Watched, TypeOK', Reap
  PROVE  Watched'
<1>1. TypeOK /\ Reaper \in Actor /\ Reaper \notin Loader /\ slots' = slots
      /\ act[Reaper].todo = {} /\ act[Reaper].cur = None
  BY ActorAssumption DEF IInv, Actor, Reap, Evicting
<1>2. PICK S \in SUBSET IdleSlots \ {{}} :
        /\ slot' = Marked(S)
        /\ act' = [act EXCEPT ![Reaper] = [Nowhere EXCEPT !.pc = "evict", !.todo = S]]
  BY DEF Reap
<1> DEFINE q == [Nowhere EXCEPT !.pc = "evict", !.todo = S]
<1>3. S \subseteq IdleSlots /\ S \in SUBSET Slot BY <1>2 DEF IdleSlots, Held
<1>4. q.pc = "evict" /\ q.todo = S /\ q.then = "idle" BY DEF Nowhere
<1>5. act' = [act EXCEPT ![Reaper] = q] BY <1>2
<1> HIDE DEF q
<1>6. act'[Reaper] = q /\ \A b \in Actor \ {Reaper} : act'[b] = act[b] BY <1>1, <1>5, Typed
<1>7. Stage(Reaper)' BY <1>1, <1>4, <1>6 DEF Stage, Leading
<1> QED BY <1>1, <1>2, <1>3, <1>4, <1>6, <1>7, MarksWatch

(* A switch of engines lists the slot it marks. *)
LEMMA LoadWatches ==
  ASSUME IInv, Watched, TypeOK', NEW l \in Loader, Load(l)
  PROVE  Watched'
<1>1. TypeOK /\ l \in Actor /\ slots' = slots /\ act[l].todo = {} /\ act[l].cur = None
  BY DEF IInv, Actor, Load, Evicting
<1>2. PICK k \in Key, pin \in BOOLEAN, pc \in {"join", "failed", "evict"}, S \in SUBSET Slot :
        /\ act' = [act EXCEPT ![l] = [Nowhere EXCEPT !.pc = pc, !.key = k, !.pin = pin, !.todo = S,
                                                       !.then = "join"]]
        /\ \/ pc # "evict" /\ S = {} /\ slot' = slot
           \/ pc = "evict" /\ S \subseteq IdleSlots /\ slot' = Marked(S)
  <2>1. PICK k \in Key, pin \in BOOLEAN, switch \in BOOLEAN :
          LET o == slots[k]
              at(pc, todo) == act' = [act EXCEPT ![l] = [Nowhere EXCEPT !.pc = pc, !.key = k,
                                      !.pin = pin, !.todo = todo, !.then = "join"]]
          IN  \/ at("join", {}) /\ UNCHANGED slot
              \/ at("failed", {}) /\ UNCHANGED slot
              \/ Ready(o) /\ slot[o].leases = 0 /\ at("evict", {o}) /\ slot' = Marked({o})
    BY DEF Load
  <2>2. Ready(slots[k]) /\ slot[slots[k]].leases = 0 => {slots[k]} \subseteq IdleSlots /\ {slots[k]} \in SUBSET Slot
    BY DEF IdleSlots, Held, Ready
  <2>3. {} \in SUBSET Slot OBVIOUS
  <2> QED BY <2>1, <2>2, <2>3
<1> DEFINE q == [Nowhere EXCEPT !.pc = pc, !.key = k, !.pin = pin, !.todo = S, !.then = "join"]
<1>3. q.pc = pc /\ q.key = k /\ q.todo = S /\ q.cur = None /\ q.then = "join" BY DEF Nowhere
<1>4. act' = [act EXCEPT ![l] = q] BY <1>2
<1> HIDE DEF q
<1>5. act'[l] = q /\ \A b \in Actor \ {l} : act'[b] = act[b] BY <1>1, <1>4, Typed
<1>6. Stage(l)' BY <1>2, <1>3, <1>5 DEF Stage, Leading
<1>7. CASE pc # "evict"
  <2>1. SameSlots BY <1>1, <1>2, <1>7, Pinning
  <2> QED BY <1>1, <1>3, <1>5, <1>6, <2>1, LeavesSlots
<1>8. CASE pc = "evict" BY <1>1, <1>2, <1>3, <1>5, <1>6, <1>8, MarksWatch
<1> QED BY <1>7, <1>8

(* The slot that an admission displaces is on somebody's list already.     *)
LEMMA AdmittedWatches ==
  ASSUME IInv, Watched, TypeOK', NEW l \in Loader, Admitted(l)
  PROVE  Watched'
<1>1. TypeOK /\ l \in Actor /\ act[l] \in ActorState /\ act[l].pc = "admit" /\ act[l].key \in Key
      /\ act[l].cur = None /\ act[l].todo = {} /\ Locked(l) /\ Stage(l)
  BY Typed DEF IInv, Watched, Stage, Actor, Admitted, Evicting, Locked
<1> DEFINE k == act[l].key
           Fresh == [Unborn EXCEPT !.key = k, !.state = "loading", !.fut = "pending", !.pinned = act[l].pin]
<1>2. PICK S \in SUBSET {o \in IdleSlots : ~slot[o].pinned}, n \in Slot :
        /\ slot[n] = Unborn
        /\ slot' = [Marked(S) EXCEPT ![n] = Fresh]
        /\ slots' = [slots EXCEPT ![k] = n]
        /\ act' = [act EXCEPT ![l] = [act[l] EXCEPT !.pc = "evict", !.slot = n, !.todo = S, !.then = "start"]]
  BY DEF Admitted
<1> DEFINE q == [act[l] EXCEPT !.pc = "evict", !.slot = n, !.todo = S, !.then = "start"]
<1>3. S \subseteq IdleSlots /\ S \in SUBSET Slot /\ k \in Key /\ k = act[l].key
  BY <1>1, <1>2 DEF IdleSlots, Held
<1>4. q.pc = "evict" /\ q.slot = n /\ q.todo = S /\ q.cur = None /\ q.then = "start" /\ q.key = k
  BY <1>1 DEF ActorState
<1>5. act' = [act EXCEPT ![l] = q] BY <1>2
<1>6. Fresh.fut = "pending" /\ Fresh.state = "loading" /\ Fresh.leases = 0 /\ Fresh.proc = FALSE
  BY DEF Unborn
<1> HIDE DEF q, Fresh, k
<1>7. act'[l] = q /\ \A b \in Actor \ {l} : act'[b] = act[b] BY <1>1, <1>5, Typed
<1>8. slot'[n] = Fresh /\ \A o \in Slot \ {n} : slot'[o] = Marked(S)[o]
  BY <1>2 DEF Marked
<1>9. \A x \in Slot \ {n} :
        /\ slot'[x].leases = slot[x].leases /\ slot'[x].fut = slot[x].fut
        /\ slot'[x].late = slot[x].late /\ slot'[x].proc = slot[x].proc
        /\ slot'[x].state = (IF x \in S THEN "evicting" ELSE slot[x].state)
  BY <1>1, <1>3, <1>8, MarkedIs
<1>10. slots'[k] = n /\ \A j \in Key \ {k} : slots'[j] = slots[j]
  BY <1>1, <1>2, <1>3, Typed
<1>11. n \in Held' /\ \A x \in Held : x \in Slot /\ (x \in Held' \/ slots[k] = x)
  BY <1>3, <1>10 DEF Held
<1>12. ASSUME NEW x \in Slot PROVE Tracked(x)' /\ Placed(x)'
  <2>1. CASE x = n
    <3>1. Tracked(x)' BY <1>6, <1>8, <2>1 DEF Tracked
    <3>2. Placed(x)' BY <1>6, <1>8, <2>1 DEF Placed
    <3> QED BY <3>1, <3>2
  <2>2. CASE x # n
    <3>1. Tracked(x) /\ Placed(x) BY DEF Watched
    <3>2. x \in S => slot[x].leases = 0 /\ slot[x].fut = "ok" BY <1>3, IdleIsLoaded DEF IdleSlots
    <3>3. ASSUME Listed(x) \/ x \in S PROVE Listed(x)'
      <4>1. CASE x \in S BY <1>1, <1>4, <1>7, <4>1 DEF Listed
      <4>2. CASE x \notin S
        <5>1. PICK b \in Actor : x \in act[b].todo \/ x = act[b].cur BY <3>3, <4>2 DEF Listed
        <5>2. b # l BY <1>1, <5>1 DEF None, Slot
        <5> QED BY <1>7, <5>1, <5>2 DEF Listed
      <4> QED BY <4>1, <4>2
    <3>4. slots[k] = x => slot[x].late = TRUE \/ slot[x].state = "evicting"
      BY <1>1, <1>3 DEF Stage
    <3>5. Tracked(x)' BY <1>9, <1>11, <2>2, <3>1, <3>3, <3>4 DEF Tracked
    <3>6. Placed(x)' BY <1>9, <1>11, <2>2, <3>1, <3>2, <3>4 DEF Placed
    <3> QED BY <3>5, <3>6
  <2> QED BY <2>1, <2>2
<1>13. Stage(l)' BY <1>3, <1>4, <1>6, <1>7, <1>8, <1>11 DEF Stage, Leading
<1>14. Calm(l)
  <2>1. \A o \in Slot : slot'[o].proc = TRUE => slot[o].proc = TRUE BY <1>6, <1>8, <1>9
  <2>2. \A o \in Held : o # n
    <3>1. slot[n].fut = "none" BY <1>2 DEF Unborn
    <3> QED BY <3>1 DEF IInv
  <2>3. \A o \in Held : slot[o].late = TRUE => slot'[o].late = TRUE BY <1>9, <1>11, <2>2
  <2> QED BY <1>1, <1>7, <2>1, <2>3 DEF Calm
<1> QED BY <1>1, <1>12, <1>13, <1>14, Advance

-----------------------------------------------------------------------------
(* A lease in time is taken on a ready slot, and no lease moves a slot.    *)
LEMMA GenWatches ==
  ASSUME IInv, Watched, TypeOK', NEW g \in Gen, Generate(g) \/ Expanded(g) \/ Generated(g)
  PROVE  Watched'
<1>1. TypeOK /\ act' = act /\ slots' = slots BY DEF IInv, Generate, Expanded, Generated
<1>2. \A x \in Slot : slot[x] \in SlotState BY <1>1, Typed
<1>3. ASSUME \A x \in Slot :
               /\ slot'[x].state = slot[x].state /\ slot'[x].fut = slot[x].fut
               /\ slot'[x].proc = slot[x].proc
               /\ slot'[x].late = slot[x].late \/ slot'[x].late = TRUE
               /\ slot'[x].leases > 0 =>
                    slot[x].leases > 0 \/ slot'[x].late = TRUE \/ slot[x].state = "ready"
      PROVE  Watched'
  <2>1. Held' = Held /\ Held \subseteq Slot BY <1>1 DEF Held
  <2>2. ASSUME NEW x \in Slot PROVE Tracked(x)' /\ Placed(x)'
    <3>1. Tracked(x) /\ Placed(x) BY DEF Watched
    <3>2. Listed(x)' = Listed(x) BY <1>1 DEF Listed
    <3>3. slot'[x].late = FALSE => slot[x].late = FALSE BY <1>3
    <3>4. Tracked(x)' BY <1>3, <2>1, <3>1, <3>2, <3>3 DEF Tracked
    <3>5. Placed(x)' BY <1>3, <2>1, <3>1, <3>3 DEF Placed
    <3> QED BY <3>4, <3>5
  <2>3. ASSUME NEW a \in Actor PROVE Stage(a)'
    <3>1. Stage(a) /\ act[a] \in ActorState BY <1>1, Typed DEF Watched
    <3>2. Leading(a)' = Leading(a) BY <1>1 DEF Leading
    <3>3. \A x \in Slot : slot[x].late = TRUE => slot'[x].late = TRUE BY <1>3
    <3> QED BY <1>1, <1>3, <2>1, <3>1, <3>2, <3>3 DEF Stage
  <2> QED BY <2>2, <2>3 DEF Watched
<1>4. ASSUME NEW o, Leases(g, o) PROVE Watched'
  <2> DEFINE n == slot[o].leases + 1
             late == slot[o].late \/ ~Ready(o)
  <2>1. slot' = [slot EXCEPT ![o] = [slot[o] EXCEPT !.leases = n, !.late = late]] BY <1>4 DEF Leases
  <2>2. o \in Slot /\ ~Ready(o) => late = TRUE OBVIOUS
  <2>3. late \in BOOLEAN OBVIOUS
  <2>4. o \in Slot => (slot[o].late = TRUE => late = TRUE) OBVIOUS
  <2> HIDE DEF n, late
  <2>5. ASSUME NEW x \in Slot
        PROVE  /\ slot'[x].state = slot[x].state /\ slot'[x].fut = slot[x].fut
               /\ slot'[x].proc = slot[x].proc
               /\ slot'[x].late = slot[x].late \/ slot'[x].late = TRUE
               /\ slot'[x].leases > 0 =>
                    slot[x].leases > 0 \/ slot'[x].late = TRUE \/ slot[x].state = "ready"
    <3>1. CASE x # o BY <1>1, <2>1, <3>1, Typed
    <3>2. CASE x = o
      <4>1. slot'[x] = [slot[x] EXCEPT !.leases = n, !.late = late] BY <1>1, <2>1, <3>2, Typed
      <4>2. slot'[x].state = slot[x].state /\ slot'[x].fut = slot[x].fut
            /\ slot'[x].proc = slot[x].proc /\ slot'[x].late = late
        BY <1>2, <4>1 DEF SlotState
      <4>3. slot[x].late \in BOOLEAN BY <1>2 DEF SlotState
      <4>4. late = slot[x].late \/ late = TRUE BY <2>3, <2>4, <3>2, <4>3
      <4>5. late = TRUE \/ slot[x].state = "ready" BY <2>2, <3>2 DEF Ready
      <4> QED BY <4>2, <4>4, <4>5
    <3> QED BY <3>1, <3>2
  <2> QED BY <1>3, <2>5
<1>5. CASE slot' = slot BY <1>3, <1>5
<1>6. CASE Generated(g)
  <2> DEFINE o == gens[g].slot
             n == IF slot[o].leases > 0 THEN slot[o].leases - 1 ELSE 0
  <2>1. slot' = [slot EXCEPT ![o].leases = n] BY <1>6 DEF Generated
  <2>2. n > 0 => slot[o].leases > 0 OBVIOUS
  <2> HIDE DEF n, o
  <2>3. ASSUME NEW x \in Slot
        PROVE  /\ slot'[x].state = slot[x].state /\ slot'[x].fut = slot[x].fut
               /\ slot'[x].proc = slot[x].proc /\ slot'[x].late = slot[x].late
               /\ slot'[x].leases > 0 => slot[x].leases > 0
    <3>1. CASE x # o BY <1>1, <2>1, <3>1, Typed
    <3>2. CASE x = o
      <4>1. slot'[x] = [slot[x] EXCEPT !.leases = n] BY <1>1, <2>1, <3>2, Typed
      <4> QED BY <1>2, <2>2, <3>2, <4>1 DEF SlotState
    <3> QED BY <3>1, <3>2
  <2> QED BY <1>3, <2>3
<1> QED BY <1>4, <1>5, <1>6 DEF Generate, Expanded

-----------------------------------------------------------------------------
(* While no task is cancelled, no worker process is left behind: it is in  *)
(* the table, or somebody is going to stop it, or its slot has a late      *)
(* lease.                                                                  *)
THEOREM WorkersAreTracked == ASSUME MaxKill = 0 PROVE Spec => []NoLostWorker
<1>1. Init => Watched
  <2> SUFFICES ASSUME Init PROVE Watched
    OBVIOUS
  <2>1. ASSUME NEW o \in Slot PROVE Tracked(o) /\ Placed(o)
    BY DEF Init, Unborn, Tracked, Placed
  <2>2. ASSUME NEW a \in Actor PROVE Stage(a) BY DEF Init, Nowhere, Stage, Leading
  <2> QED BY <2>1, <2>2 DEF Watched
<1>2. IInv /\ IInv' /\ Led /\ Watched /\ [Next]_vars => Watched'
  <2> SUFFICES ASSUME IInv, IInv', Led, Watched, [Next]_vars PROVE Watched'
    OBVIOUS
  <2>1. TypeOK' BY DEF IInv
  <2>2. ASSUME NEW l \in Loader, Load(l) \/ Loads(l) PROVE Watched'
    BY <2>1, <2>2, LoadWatches, JoinWatches, QueueWatches, LookWatches, AdmittedWatches,
       StartWatches, LoadedWatches, LoadFailsWatches, ClosedWatches, DropWatches,
       FailsEarlyWatches, EvictsWatches DEF Loads, Actor
  <2>3. ASSUME NEW u \in Unloader, Unload(u) \/ Unloads(u) PROVE Watched'
    BY <2>1, <2>3, UnloadWatches, EvictsWatches DEF Unloads, Actor
  <2>4. ASSUME Reap \/ Evicts(Reaper) PROVE Watched'
    BY <2>1, <2>4, ReapWatches, EvictsWatches DEF Actor
  <2>5. ASSUME NEW g \in Gen, Generate(g) \/ Expanded(g) \/ Generated(g) PROVE Watched'
    BY <2>1, <2>5, GenWatches
  <2>6. ASSUME NEW a \in Actor, Cancel(a) PROVE FALSE
    <3>1. count.kill \in 0..0 /\ count.kill < 0 BY <2>6, Typed DEF IInv, Cancel
    <3> QED BY <3>1
  <2>7. CASE UNCHANGED vars
    BY <2>7 DEF vars, Watched, Tracked, Placed, Stage, Leading, Listed, Held
  <2> QED BY <2>2, <2>3, <2>4, <2>5, <2>6, <2>7 DEF Next, Stop
<1>3. IInv /\ Watched => NoLostWorker
  <2> SUFFICES ASSUME IInv, Watched, NEW o \in Slot, slot[o].proc
               PROVE  o \in Held \/ slot[o].late \/ \E a \in Actor : o \in act[a].todo \/ act[a].cur = o
    BY DEF NoLostWorker
  <2>1. slot[o].proc \in BOOLEAN /\ slot[o].late \in BOOLEAN BY Typed DEF IInv, SlotState
  <2>2. Tracked(o) BY DEF Watched
  <2> QED BY <2>1, <2>2 DEF Tracked, Listed
<1> QED BY <1>1, <1>2, <1>3, Invariance, LedAlways, PTL DEF Spec
=============================================================================
