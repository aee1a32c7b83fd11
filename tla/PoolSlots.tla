------------------------------ MODULE PoolSlots ------------------------------
(***************************************************************************)
(* The slots of the model pool (workers/model_pool.py): who loads a model, *)
(* who waits for that load, who takes slots away again, and the worker     *)
(* process behind each of them.  An action is the code of one task between *)
(* two suspensions.  A model has one replica here, a slot costs one unit   *)
(* of memory, and the pool is not shutting down.                           *)
(***************************************************************************)
EXTENDS Naturals, FiniteSets

CONSTANTS Key,           \* models
          Loader,        \* calls of load()
          Unloader,      \* calls of unload() and unload_model()
          Reaper,        \* the reaper task
          Gen,           \* generations
          Budget,        \* slots the memory budget has room for
          ReentryLimit,  \* LOAD_CANCELLED_REENTRY_LIMIT
          MaxSlot,       \* bound: PoolSlot objects ever made
          MaxKill,       \* bound: cancellations of tasks
          MaxReap        \* bound: passes of the reaper

Actor == Loader \cup Unloader \cup {Reaper}

ASSUME ActorAssumption ==
  /\ IsFiniteSet(Key) /\ IsFiniteSet(Actor)
  /\ Loader \cap Unloader = {} /\ Reaper \notin Loader \cup Unloader
  /\ "free" \notin Actor
ASSUME GenAssumption == IsFiniteSet(Gen)
ASSUME BoundAssumption ==
  {Budget, ReentryLimit, MaxSlot, MaxKill, MaxReap} \subseteq Nat

VARIABLES
  slots,    \* self._slots: model -> its slot, None if there is none
  slot,     \* every PoolSlot object ever made
  locks,    \* who holds _load_lock and _pool_lock
  act,      \* loaders, unloaders and the reaper: where each of them is
  gens,     \* generations: where each is and the slot it means to use
  count     \* cancellations and reaper passes so far

vars == <<slots, slot, locks, act, gens, count>>

None == 0
Slot == 1..MaxSlot
Free == "free"

Unborn == [key |-> "none", state |-> "unborn", fut |-> "none", leases |-> 0,
           pinned |-> FALSE, proc |-> FALSE, late |-> FALSE]
Nowhere == [pc |-> "idle", key |-> "none", pin |-> FALSE, slot |-> None, todo |-> {},
            cur |-> None, then |-> "idle", tries |-> 0]

Init ==
  /\ slots = [k \in Key |-> None]
  /\ slot = [o \in Slot |-> Unborn]
  /\ locks = [load |-> Free, pool |-> Free]
  /\ act = [a \in Actor |-> Nowhere]
  /\ gens = [g \in Gen |-> [pc |-> "idle", slot |-> None]]
  /\ count = [kill |-> 0, reap |-> 0]

-----------------------------------------------------------------------------
Held == {o \in Slot : \E k \in Key : slots[k] = o}
Ready(o) == o \in Slot /\ slot[o].state = "ready"
IdleSlots == {o \in Held : Ready(o) /\ slot[o].leases = 0}

(* load_future is forgotten when the load succeeds.                        *)
HasFuture(o) == o \in Slot /\ slot[o].fut \in {"pending", "failed", "cancelled"}

Go(a, pc) == act' = [act EXCEPT ![a].pc = pc]
PoolFree == locks.pool = Free
Release(a) == [load |-> IF locks.load = a THEN Free ELSE locks.load,
               pool |-> IF locks.pool = a THEN Free ELSE locks.pool]
Marked(S) == [o \in Slot |-> IF o \in S THEN [slot[o] EXCEPT !.state = "evicting"] ELSE slot[o]]
Without(o) == [k \in Key |-> IF slots[k] = o THEN None ELSE slots[k]]
PinnedBy(a, o) == IF o # None /\ act[a].pin THEN [slot EXCEPT ![o].pinned = TRUE] ELSE slot

(* _stop_worker: the process is gone.                                      *)
Stops(o) == slot' = [slot EXCEPT ![o].proc = FALSE]

-----------------------------------------------------------------------------
(* _evict_slot for each slot of a list: skip it if it is leased by now,    *)
(* else stop its worker and drop it.                                       *)
(* mutant: the lease is not looked at.                                     *)
EvictNext_Leased(a) ==
  /\ act[a].pc = "evict" /\ act[a].cur = None
  /\ \E o \in act[a].todo :
       /\ slot' = Marked({o})
       /\ act' = [act EXCEPT ![a] = [act[a] EXCEPT !.todo = @ \ {o}, !.cur = o]]
  /\ UNCHANGED <<slots, locks, gens, count>>

EvictNext(a) ==
  /\ act[a].pc = "evict" /\ act[a].cur = None
  /\ \E o \in act[a].todo :
       IF slot[o].leases > 0
         THEN /\ slot' = [slot EXCEPT ![o].state = "ready"]
              /\ act' = [act EXCEPT ![a].todo = @ \ {o}]
         ELSE /\ slot' = Marked({o})
              /\ act' = [act EXCEPT ![a] = [act[a] EXCEPT !.todo = @ \ {o}, !.cur = o]]
  /\ UNCHANGED <<slots, locks, gens, count>>

EvictStopped(a) ==
  /\ act[a].pc = "evict" /\ act[a].cur # None
  /\ Stops(act[a].cur)
  /\ Go(a, "pop")
  /\ UNCHANGED <<slots, locks, gens, count>>

EvictPop(a) ==
  /\ act[a].pc = "pop" /\ PoolFree
  /\ slots' = Without(act[a].cur)
  /\ act' = [act EXCEPT ![a] = [act[a] EXCEPT !.pc = "evict", !.cur = None]]
  /\ UNCHANGED <<slot, locks, gens, count>>

EvictDone(a) ==
  /\ act[a].pc = "evict" /\ act[a].cur = None /\ act[a].todo = {}
  /\ Go(a, act[a].then)
  /\ locks' = IF act[a].then = "done" THEN Release(a) ELSE locks
  /\ UNCHANGED <<slots, slot, gens, count>>

Evicts(a) == EvictNext(a) \/ EvictStopped(a) \/ EvictPop(a) \/ EvictDone(a)

-----------------------------------------------------------------------------
(* load(): an explicit engine choice first evicts the slot that runs the   *)
(* other engine, under no lock.                                            *)
Load(l) ==
  /\ act[l].pc = "idle"
  /\ \E k \in Key, pin \in BOOLEAN, switch \in BOOLEAN :
       LET o == slots[k]
           at(pc, todo) == act' = [act EXCEPT ![l] = [Nowhere EXCEPT !.pc = pc, !.key = k,
                                      !.pin = pin, !.todo = todo, !.then = "join"]]
       IN  \/ /\ ~(switch /\ Ready(o))
              /\ at("join", {}) /\ UNCHANGED slot
           \/ /\ switch /\ Ready(o) /\ slot[o].leases > 0
              /\ at("failed", {}) /\ UNCHANGED slot
           \/ /\ switch /\ Ready(o) /\ slot[o].leases = 0
              /\ at("evict", {o}) /\ slot' = Marked({o})
  /\ UNCHANGED <<slots, locks, gens, count>>

(* The singleflight: take a ready slot, wait for a load under way, or go   *)
(* for the load lock.                                                      *)
Join(l) ==
  /\ act[l].pc = "join" /\ PoolFree
  /\ LET o == slots[act[l].key]
     IN  /\ slot' = PinnedBy(l, o)
         /\ \/ Ready(o) /\ Go(l, "done")
            \/ ~Ready(o) /\ ~HasFuture(o) /\ Go(l, "queue")
            \/ /\ ~Ready(o) /\ HasFuture(o)
               /\ act' = [act EXCEPT ![l] = [act[l] EXCEPT !.pc = "wait", !.slot = o]]
  /\ UNCHANGED <<slots, locks, gens, count>>

(* The awaited future resolved.  After a cancelled leader the waiter looks *)
(* again; a future that is resolved already is awaited without suspension, *)
(* so while the cancelled slot is still in the table every re-entry finds  *)
(* it and the last one gives up.                                           *)
Woken(l) ==
  /\ act[l].pc = "wait"
  /\ LET o == act[l].slot
         k == act[l].key
         again == act[l].tries < ReentryLimit
         reenter(pc, s) == act' = [act EXCEPT ![l] = [act[l] EXCEPT !.pc = pc, !.slot = s,
                                                               !.tries = @ + 1]]
     IN  \/ slot[o].fut = "ok" /\ Go(l, "done")
         \/ slot[o].fut = "failed" /\ Go(l, "failed")
         \/ /\ slot[o].fut = "cancelled"
            /\ ~again \/ (PoolFree /\ slots[k] = o)
            /\ Go(l, "inherited")
         \/ /\ slot[o].fut = "cancelled" /\ again /\ PoolFree /\ slots[k] # o
            /\ \/ Ready(slots[k]) /\ reenter("done", None)
               \/ HasFuture(slots[k]) /\ reenter("wait", slots[k])
               \/ /\ ~Ready(slots[k]) /\ ~HasFuture(slots[k])
                  /\ reenter("queue", None)
  /\ UNCHANGED <<slots, slot, locks, gens, count>>

TakeLoadLock(l) ==
  /\ act[l].pc = "queue" /\ locks.load = Free
  /\ locks' = [locks EXCEPT !.load = l]
  /\ Go(l, "look")
  /\ UNCHANGED <<slots, slot, gens, count>>

(* Under both locks: somebody loaded the model meanwhile, its leader was   *)
(* cancelled without resolving the future, or this task is the leader.     *)
Look(l) ==
  /\ act[l].pc = "look" /\ PoolFree
  /\ LET o == slots[act[l].key]
     IN  \/ /\ Ready(o)
            /\ slot' = PinnedBy(l, o) /\ locks' = Release(l) /\ Go(l, "done")
         \/ /\ ~Ready(o) /\ HasFuture(o) /\ UNCHANGED slot
            /\ IF slot[o].fut = "pending"
                 THEN /\ act' = [act EXCEPT ![l] = [act[l] EXCEPT !.pc = "start", !.slot = o]]
                      /\ UNCHANGED locks
                 ELSE Go(l, "failed") /\ locks' = Release(l)
         \/ /\ ~Ready(o) /\ ~HasFuture(o)
            /\ locks' = [locks EXCEPT !.pool = l]
            /\ Go(l, "admit") /\ UNCHANGED slot
  /\ UNCHANGED <<slots, gens, count>>

(* _admit returned: publish the new slot and mark the victims that make    *)
(* room for it.  The slot replaces whatever the table held for its key.    *)
Admitted(l) ==
  /\ act[l].pc = "admit"
  /\ LET k == act[l].key
         over == Cardinality(Held) + 1
     IN  \E victims \in SUBSET {o \in IdleSlots : ~slot[o].pinned}, n \in Slot :
           /\ Cardinality(victims) = (IF over > Budget THEN over - Budget ELSE 0)
           /\ slot[n] = Unborn /\ \A m \in Slot : m < n => slot[m] # Unborn
           /\ slot' = [Marked(victims) EXCEPT ![n] =
                         [Unborn EXCEPT !.key = k, !.state = "loading", !.fut = "pending",
                                        !.pinned = act[l].pin]]
           /\ slots' = [slots EXCEPT ![k] = n]
           /\ act' = [act EXCEPT ![l] = [act[l] EXCEPT !.pc = "evict", !.slot = n, !.todo = victims,
                                                !.then = "start"]]
  /\ locks' = [locks EXCEPT !.pool = Free]
  /\ UNCHANGED <<gens, count>>

(* Not enough to evict, or the machine is under pressure.                  *)
Refused(l) ==
  /\ act[l].pc = "admit"
  /\ locks' = Release(l)
  /\ Go(l, "failed")
  /\ UNCHANGED <<slots, slot, gens, count>>

(* The worker's process is spawned.                                        *)
Start(l) ==
  /\ act[l].pc = "start"
  /\ slot' = [slot EXCEPT ![act[l].slot].proc = TRUE]
  /\ Go(l, "load")
  /\ UNCHANGED <<slots, locks, gens, count>>

(* The worker answered and passed the checks on its memory.                *)
Loaded(l) ==
  /\ act[l].pc = "load"
  /\ slot' = [slot EXCEPT ![act[l].slot] = [slot[act[l].slot] EXCEPT !.state = "ready", !.fut = "ok"]]
  /\ locks' = Release(l)
  /\ Go(l, "done")
  /\ UNCHANGED <<slots, gens, count>>

(* The load failed or was cancelled: the future is resolved first, then    *)
(* the worker is stopped, then the slot dropped.                           *)
(* mutant: the future is left to the end, and forgotten.                   *)
Fails_Unresolved(l, how) ==
  /\ act[l].pc = "load"
  /\ UNCHANGED slot
  /\ Go(l, "close")
Fails(l, how) ==
  /\ act[l].pc = "load"
  /\ slot' = [slot EXCEPT ![act[l].slot].fut = how]
  /\ Go(l, "close")

LoadFails(l) ==
  /\ Fails(l, "failed")
  /\ UNCHANGED <<slots, locks, gens, count>>

(* Before there is a process nothing of this takes time.                   *)
FailsEarly(l, how) ==
  /\ act[l].pc = "start" /\ PoolFree
  /\ slot' = [slot EXCEPT ![act[l].slot].fut = how]
  /\ slots' = Without(act[l].slot)
  /\ locks' = Release(l)
  /\ Go(l, "failed")

(* mutant: the slot is dropped without stopping its worker.                *)
Closed_Running(l) ==
  /\ act[l].pc = "close"
  /\ Go(l, "drop")
  /\ UNCHANGED <<slots, slot, locks, gens, count>>
Closed(l) ==
  /\ act[l].pc = "close"
  /\ Stops(act[l].slot)
  /\ Go(l, "drop")
  /\ UNCHANGED <<slots, locks, gens, count>>

Drop(l) ==
  /\ act[l].pc = "drop" /\ PoolFree
  /\ slots' = Without(act[l].slot)
  /\ locks' = Release(l)
  /\ Go(l, "failed")
  /\ UNCHANGED <<slot, gens, count>>

Loads(l) ==
  \/ Join(l) \/ Woken(l) \/ TakeLoadLock(l) \/ Look(l) \/ Admitted(l) \/ Refused(l)
  \/ Start(l) \/ Loaded(l) \/ LoadFails(l) \/ Closed(l) \/ Drop(l) \/ Evicts(l)
  \/ FailsEarly(l, "failed") /\ UNCHANGED <<gens, count>>

-----------------------------------------------------------------------------
(* unload() takes every slot, unload_model() those of one model, and with  *)
(* force the leased ones as well.                                          *)
Unload(u) ==
  /\ act[u].pc = "idle" /\ Go(u, "queue")
  /\ UNCHANGED <<slots, slot, locks, gens, count>>

UnloadBusy(u) ==
  /\ act[u].pc = "queue" /\ locks.load # Free /\ Go(u, "failed")
  /\ UNCHANGED <<slots, slot, locks, gens, count>>

UnloadLocked(u) ==
  /\ act[u].pc = "queue" /\ locks.load = Free
  /\ \E K \in {Key} \cup {{k} : k \in Key}, force \in BOOLEAN :
       LET targets == {o \in Held : slot[o].key \in K}
       IN  /\ force => K # Key
           /\ IF \E o \in targets : slot[o].leases > 0 /\ ~force
                THEN Go(u, "failed") /\ UNCHANGED locks
                ELSE /\ locks' = [locks EXCEPT !.load = u]
                     /\ act' = [act EXCEPT ![u] = [act[u] EXCEPT !.pc = "evict", !.todo = targets,
                                                          !.then = "done"]]
  /\ UNCHANGED <<slots, slot, gens, count>>

Unloads(u) == UnloadBusy(u) \/ UnloadLocked(u) \/ Evicts(u)

(* _reap_once: idle slots whose time ran out, or under pressure any idle   *)
(* one.  It holds no lock while it evicts them.                            *)
Reap ==
  /\ act[Reaper].pc = "idle" /\ PoolFree /\ count.reap < MaxReap
  /\ \E victims \in SUBSET IdleSlots \ {{}} :
       /\ slot' = Marked(victims)
       /\ act' = [act EXCEPT ![Reaper] = [Nowhere EXCEPT !.pc = "evict", !.todo = victims]]
  /\ count' = [count EXCEPT !.reap = @ + 1]
  /\ UNCHANGED <<slots, locks, gens>>

-----------------------------------------------------------------------------
(* generate_for_model picks a ready slot.  A busy one it leases at once or *)
(* tries to add a replica first, and comes back to it when that fails:     *)
(* "late" remembers a lease taken on a slot that is not ready any more.    *)
Leases(g, o) ==
  /\ slot' = [slot EXCEPT ![o] = [slot[o] EXCEPT !.leases = @ + 1, !.late = @ \/ ~Ready(o)]]
  /\ gens' = [gens EXCEPT ![g] = [pc |-> "leased", slot |-> o]]

Generate(g) ==
  /\ gens[g].pc = "idle"
  /\ \E k \in Key : LET o == slots[k] IN
       /\ Ready(o)
       /\ \/ Leases(g, o)
          \/ /\ slot[o].leases > 0 /\ UNCHANGED slot
             /\ gens' = [gens EXCEPT ![g] = [pc |-> "expanding", slot |-> o]]
  /\ UNCHANGED <<slots, locks, act, count>>

Expanded(g) ==
  /\ gens[g].pc = "expanding"
  /\ LET o == gens[g].slot
         fresh == slots[slot[o].key]
     IN  Leases(g, o) \/ (Ready(fresh) /\ Leases(g, fresh))
  /\ UNCHANGED <<slots, locks, act, count>>

Generated(g) ==
  /\ gens[g].pc = "leased"
  /\ slot' = [slot EXCEPT ![gens[g].slot].leases = IF @ > 0 THEN @ - 1 ELSE 0]
  /\ gens' = [gens EXCEPT ![g] = [pc |-> "done", slot |-> None]]
  /\ UNCHANGED <<slots, locks, act, count>>

-----------------------------------------------------------------------------
(* A task is cancelled where it is suspended: on a future, a lock, the     *)
(* host's memory figures, or a worker.  The load's handler covers the part *)
(* of its own worker only; a cancelled eviction leaves its slots marked.   *)
Suspended(a) ==
  \/ act[a].pc \in {"wait", "queue", "admit"}
  \/ act[a].pc \in {"join", "look", "pop"} /\ ~PoolFree
  \/ act[a].pc = "evict" /\ act[a].cur # None

(* mutant: a cancelled eviction keeps the load lock.                       *)
Cancel_Locked(a) ==
  /\ a # Reaper /\ count.kill < MaxKill
  /\ Suspended(a)
  /\ act' = [act EXCEPT ![a] = [act[a] EXCEPT !.pc = "cancelled", !.todo = {}, !.cur = None]]
  /\ count' = [count EXCEPT !.kill = @ + 1]
  /\ UNCHANGED <<slots, slot, locks, gens>>

Cancel(a) ==
  /\ a # Reaper /\ count.kill < MaxKill
  /\ \/ /\ Suspended(a) /\ locks' = Release(a) /\ UNCHANGED slot
        /\ act' = [act EXCEPT ![a] = [act[a] EXCEPT !.pc = "cancelled", !.todo = {}, !.cur = None]]
        /\ UNCHANGED slots
     \/ Fails(a, "cancelled") /\ UNCHANGED <<slots, locks>>
     \/ FailsEarly(a, "cancelled")
  /\ count' = [count EXCEPT !.kill = @ + 1]
  /\ UNCHANGED gens

Ended == {"done", "failed", "inherited", "cancelled"}
Quiet == /\ \A a \in Actor \ {Reaper} : act[a].pc \in Ended \cup {"wait"}
         /\ act[Reaper].pc = "idle"
         /\ \A g \in Gen : gens[g].pc \in {"idle", "done"}
Stop == Quiet /\ UNCHANGED vars

Next ==
  \/ \E l \in Loader : Load(l) \/ Loads(l)
  \/ \E u \in Unloader : Unload(u) \/ Unloads(u)
  \/ Reap \/ Evicts(Reaper)
  \/ \E g \in Gen : Generate(g) \/ Expanded(g) \/ Generated(g)
  \/ \E a \in Actor : Cancel(a)
  \/ Stop

Spec == Init /\ [][Next]_vars

(* Every task runs on when it can: the event loop runs what is ready, and  *)
(* every load, RPC and wait for a process has a timeout.                   *)
FairSpec ==
  /\ Spec
  /\ \A l \in Loader : WF_vars(Loads(l))
  /\ \A u \in Unloader : WF_vars(Unloads(u))
  /\ WF_vars(Evicts(Reaper))
  /\ \A g \in Gen : WF_vars(Expanded(g)) /\ WF_vars(Generated(g))

-----------------------------------------------------------------------------
(* The pool's bookkeeping is of this type.                                 *)
TypeOK ==
  /\ slots \in [Key -> Slot \cup {None}]
  /\ slot \in [Slot -> [key : Key \cup {"none"},
                        state : {"unborn", "loading", "ready", "evicting"},
                        fut : {"none", "pending", "ok", "failed", "cancelled"},
                        leases : 0..Cardinality(Gen), pinned : BOOLEAN, proc : BOOLEAN,
                        late : BOOLEAN]]
  /\ locks \in [load : Actor \cup {Free}, pool : Loader \cup {Free}]
  /\ act \in [Actor -> [pc : {"idle", "join", "wait", "queue", "look", "admit", "evict", "pop",
                              "start", "load", "close", "drop"} \cup Ended,
                        key : Key \cup {"none"}, pin : BOOLEAN, slot : Slot \cup {None},
                        todo : SUBSET Slot, cur : Slot \cup {None},
                        then : {"idle", "join", "start", "done"}, tries : 0..ReentryLimit]]
  /\ gens \in [Gen -> [pc : {"idle", "expanding", "leased", "done"}, slot : Slot \cup {None}]]
  /\ count \in [kill : 0..MaxKill, reap : 0..MaxReap]

(* A load lock is held by a task that is going to give it back, and a pool *)
(* lock by a loader being admitted: whatever is cancelled, refused or      *)
(* fails, nobody ends with a lock.                                         *)
LocksOwned ==
  /\ locks.load # Free =>
       \/ act[locks.load].pc \in {"look", "admit", "start", "load", "close", "drop"}
       \/ act[locks.load].pc \in {"evict", "pop"} /\ act[locks.load].then \in {"start", "done"}
  /\ locks.pool # Free => act[locks.pool].pc = "admit" /\ locks.load = locks.pool

(* A load that others wait for has a leader who will resolve it ("an       *)
(* unresolved future would hang every waiter").                            *)
Leads(l, o) == act[l].slot = o /\ act[l].pc \in {"evict", "pop", "start", "load"}
PendingIsLed ==
  \A o \in Slot : slot[o].fut = "pending" => \E l \in Loader : Leads(l, o)

(* No worker process is forgotten: the table holds its slot, or somebody   *)
(* is about to stop it.  (Not so after a late lease: the eviction gives    *)
(* way to the lease, while a new load has taken the slot's place.)         *)
NoLostWorker ==
  \A o \in Slot : slot[o].proc =>
    \/ o \in Held \/ slot[o].late
    \/ \E a \in Actor : o \in act[a].todo \/ act[a].cur = o

(* A leased slot keeps its worker ("leased slots stay protected").         *)
LeasedRuns == \A o \in Slot : slot[o].leases > 0 => slot[o].proc

(* The same for the slots whose leases were all taken while they were      *)
(* ready: no eviction, unload or reaper pass stops their worker, however   *)
(* long ago its list was made.                                             *)
TimelyLeaseRuns == \A o \in Slot : slot[o].leases > 0 /\ ~slot[o].late => slot[o].proc

(* As long as nobody is cancelled every load ends, one way or another:     *)
(* waiters, refusals, evictions and a concurrent unload included.          *)
LoadsEnd ==
  \A l \in Loader : (act[l].pc = "join") ~> (act[l].pc \in Ended \/ count.kill > 0)
=============================================================================
