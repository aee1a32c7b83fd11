--------------------------- MODULE RuntimeUpdate ---------------------------
(***************************************************************************)
(* Runtime slots of one engine and the job that updates them:              *)
(* runtimes/slots.py (the store on disk), runtimes/updater.py (staging     *)
(* under a lock), runtimes/service.py (the switch and its rollback), the   *)
(* job life cycle of jobs.py and the operations of the model pool they     *)
(* call.                                                                   *)
(*                                                                         *)
(* Slots are numbered in the order of their time-stamped names; 0 stands   *)
(* for "no slot".  An action is the code a task runs between two points    *)
(* where it really suspends: progress() only writes to the database and to *)
(* an unbounded queue, so it is not one of them.                           *)
(***************************************************************************)
EXTENDS Naturals, FiniteSets

CONSTANTS Model,        \* models of the engine
          MaxSlot,      \* bound: slots ever created
          Keep,         \* settings runtimes.keepSlots
          MaxCancel,    \* bound: cancellations of one update job
          Enabled       \* values of the setting models.pool.enabled

ASSUME ModelAssumption == IsFiniteSet(Model)
ASSUME BoundAssumption == MaxSlot \in Nat \ {0} /\ Keep \in Nat /\ MaxCancel \in Nat
ASSUME PoolAssumption == Enabled \subseteq BOOLEAN

VARIABLES
  store,  \* slot directories, verified ones and active.json
  upd,    \* the update job
  man,    \* a manual stage job: the slot it installs into, if any
  pool    \* residents of the engine, the maintenance flag and the load lock

vars == <<store, upd, man, pool>>

Slot == 1..MaxSlot
None == 0

Store == [dirs : SUBSET Slot, ok : SUBSET Slot,
          active : Slot \cup {None}, prev : Slot \cup {None}, made : 0..MaxSlot]

Residency == {"absent", "wanted", "loading", "ready", "evicting"}
Pool == [st : [Model -> Residency], run : [Model -> Slot \cup {None}],
         pinned : SUBSET Model, leased : SUBSET Model,
         maint : BOOLEAN, lock : BOOLEAN, on : Enabled]

(* Where the update job is suspended; "back..." while it rolls back.       *)
Suspended == {"checking", "locking", "installing", "draining", "unlocking",
              "evicting", "probing", "backUnlocking", "backEvicting"}
Update == [pc : Suspended \cup {"idle", "ended"}, old : Slot \cup {None},
           new : Slot \cup {None}, snap : SUBSET Model, pins : SUBSET Model,
           owns : BOOLEAN, activated : BOOLEAN, cancels : 0..MaxCancel,
           result : {"none", "same", "done", "failed", "cancelled"},
           rollback : {"none", "done", "failed", "broken"}]

NoUpdate == [pc |-> "idle", old |-> None, new |-> None, snap |-> {}, pins |-> {},
             owns |-> FALSE, activated |-> FALSE, cancels |-> 0, result |-> "none", rollback |-> "none"]

NewPool(on) == [st |-> [m \in Model |-> "absent"], run |-> [m \in Model |-> None],
                pinned |-> {}, leased |-> {}, maint |-> FALSE, lock |-> FALSE, on |-> on]

(* A machine without a runtime, or with one verified slot.                 *)
Init ==
  /\ store \in {[dirs |-> S, ok |-> S, active |-> Cardinality(S), prev |-> None,
                 made |-> Cardinality(S)] : S \in {{}, {1}}}
  /\ upd = NoUpdate
  /\ man = None
  /\ \E on \in Enabled : pool = NewPool(on)

-----------------------------------------------------------------------------
(* runtimes/slots.py                                                       *)
Verified(s, n) == n \in s.dirs \cap s.ok

Activate(s, n) ==
  IF Verified(s, n) THEN [s EXCEPT !.active = n, !.prev = s.active] ELSE s

Restore(s, n) == [s EXCEPT !.active = n, !.prev = None]

Remove(s, D) == [s EXCEPT !.dirs = @ \ D, !.ok = @ \ D]

(* cleanup: the active and the previous slot, then the newest others up to *)
(* keep of them.                                                           *)
AtLeastTwo == IF Keep > 2 THEN Keep ELSE 2
Retained(s) ==
  LET protected == s.dirs \cap {s.active, s.prev}
      named == {s.active, s.prev} \ {None}
      spare == s.dirs \ protected
  IN  protected \cup
      {n \in spare : Cardinality(named) + Cardinality({k \in spare : k >= n}) <= AtLeastTwo}
Cleanup(s) == Remove(s, s.dirs \ Retained(s))

-----------------------------------------------------------------------------
(* The pool, as the update sees it.                                        *)
With(f, S, v) == [m \in Model |-> IF m \in S THEN v ELSE f[m]]
InState(p, T) == {m \in Model : p.st[m] \in T}

(* snapshot_resident: every slot of the pool, whatever its state; the      *)
(* single worker of a disabled pool only once it is loaded.                *)
Snapshot(p) == InState(p, IF p.on THEN {"loading", "ready", "evicting"} ELSE {"ready"})

(* load() refuses while the engine is in maintenance; the single worker of *)
(* a disabled pool does not look at the flag.                              *)
LoadRefused(p) == p.on /\ p.maint

(* unload_engine evicts pool slots only.                                   *)
Targets(p) == IF p.on THEN InState(p, {"ready", "evicting"}) ELSE {}
Evicting(p) == [p EXCEPT !.lock = TRUE, !.st = With(@, Targets(p), "evicting")]
Gone(p, S) == [p EXCEPT !.st = With(@, S, "absent"), !.run = With(@, S, None),
                        !.pinned = @ \ S]
Emptied(p) == [Gone(p, Targets(p)) EXCEPT !.lock = FALSE]

(* reload_resident: the pinned models first, refused with an error; then   *)
(* the others, each of which may be skipped; a load under way is joined.   *)
Reloads(p, s, u) ==
  IF LoadRefused(p) THEN {p}
  ELSE {[p EXCEPT !.st = With(@, S, "ready"), !.run = With(@, S, s.active),
                  !.pinned = (@ \ S) \cup (u.pins \cap S)] :
          S \in {T \ InState(p, {"loading"}) :
                    T \in {U \in SUBSET u.snap : u.pins \subseteq U}}}
ReloadFails(p, u) == LoadRefused(p) /\ u.pins # {}

-----------------------------------------------------------------------------
(* The update job between two suspensions.  A view is the job, the store   *)
(* and the pool; an outcome is a set of views.                             *)
View(u, s, p) == [u |-> u, s |-> s, p |-> p]

Outcome(res, rb) ==
  [NoUpdate EXCEPT !.pc = "ended", !.rollback = rb,
                   !.result = IF rb = "failed" THEN "failed" ELSE res]   \* ROLLBACK_FAILED

(* mutant: the maintenance flag is left up.                                *)
End_KeepsFlag(v, res, rb) == View(Outcome(res, rb), v.s, v.p)

End(v, res, rb) ==
  View(Outcome(res, rb), v.s, [v.p EXCEPT !.maint = @ /\ ~v.u.owns])

(* The rollback once the residents are evicted.                            *)
RolledBack(v) ==
  LET w == View(v.u, Restore(v.s, v.u.old), v.p)
      reload == v.u.snap # {} /\ v.u.old # None
      after(p) == End(View(w.u, w.s, p), w.u.result,
                      IF reload /\ ReloadFails(v.p, v.u) THEN "failed" ELSE "done")
  IN  IF v.u.old # None /\ ~Verified(v.s, v.u.old) THEN {End(v, v.u.result, "failed")}
      ELSE {after(p) : p \in IF reload THEN Reloads(v.p, w.s, v.u) ELSE {v.p}}

(* The handler of an exception.                                            *)
Fail(v, res) ==
  LET At(pc, p) == View([v.u EXCEPT !.pc = pc, !.result = res], v.s, p)
  IN  IF ~v.u.activated THEN {End(v, res, "none")}
      ELSE IF v.p.lock THEN {At("backUnlocking", v.p)}
      ELSE IF Targets(v.p) \cap v.p.leased # {} THEN {End(v, res, "failed")}
      ELSE IF Targets(v.p) = {} THEN RolledBack(At("ended", v.p))
      ELSE {At("backEvicting", Evicting(v.p))}

(* Switch to the new slot and probe it.                                    *)
SwitchOver(v) ==
  IF ~Verified(v.s, v.u.new) THEN Fail(v, "failed")
  ELSE {View([v.u EXCEPT !.pc = "probing", !.activated = TRUE],
             Activate(v.s, v.u.new), v.p)}

(* mutant: the residents stay.                                             *)
UnloadEngine_Skipped(v) == SwitchOver(v)

UnloadEngine(v) ==
  IF v.p.lock THEN {View([v.u EXCEPT !.pc = "unlocking"], v.s, v.p)}
  ELSE IF Targets(v.p) \cap v.p.leased # {} THEN Fail(v, "failed")
  ELSE IF Targets(v.p) = {} THEN SwitchOver(v)
  ELSE {View([v.u EXCEPT !.pc = "evicting"], v.s, Evicting(v.p))}

(* The slot is staged: maintenance begins and the residents are noted.     *)
Staged(v) ==
  LET snap == Snapshot(v.p)
      w == View([v.u EXCEPT !.snap = snap, !.pins = snap \cap v.p.pinned,
                       !.owns = TRUE], v.s,
                [v.p EXCEPT !.maint = TRUE])
  IN  IF snap = {} THEN SwitchOver(w)
      ELSE IF v.p.leased # {} THEN {View([w.u EXCEPT !.pc = "draining"], w.s, w.p)}
      ELSE UnloadEngine(w)

(* The new runtime answered its probe.                                     *)
Probed(v) ==
  IF ReloadFails(v.p, v.u) THEN Fail(v, "failed")
  ELSE {End(View(v.u, Cleanup(v.s), p), "done", "none") : p \in Reloads(v.p, v.s, v.u)}

-----------------------------------------------------------------------------
Here == View(upd, store, pool)
Becomes(v) == upd' = v.u /\ store' = v.s /\ pool' = v.p
Either(V) == (\E v \in V : Becomes(v)) /\ UNCHANGED man

Running == upd.pc \in Suspended
Installing == ({man} \cup {n \in {upd.new} : upd.pc = "installing"}) \ {None}

NextSlot == store.made + 1
WithDir(s) == [s EXCEPT !.dirs = @ \cup {NextSlot}, !.made = NextSlot]

(* runtime_update_job: one update job of an engine at a time.              *)
StartUpdate ==
  /\ ~Running
  /\ upd' = [NoUpdate EXCEPT !.pc = "checking"]
  /\ UNCHANGED <<store, man, pool>>

(* mutant: the free space is not looked at.                                *)
Stage_NoRoom(u) ==
  IF Installing # {} THEN {View([u EXCEPT !.pc = "locking"], store, pool)}
  ELSE {View([u EXCEPT !.pc = "installing", !.new = NextSlot], WithDir(store), pool)}

(* stage(): under the updater's lock, a slot directory or no room for one. *)
Stage(u) ==
  IF Installing # {} THEN {View([u EXCEPT !.pc = "locking"], store, pool)}
  ELSE {End(View(u, store, pool), "failed", "none")} \cup
       (IF NextSlot \in Slot
          THEN {View([u EXCEPT !.pc = "installing", !.new = NextSlot], WithDir(store), pool)}
          ELSE {})

(* PyPI answered (up to date, an error, a newer version).                  *)
Checked ==
  /\ upd.pc = "checking"
  /\ Either({End(Here, "same", "none"), End(Here, "failed", "none")}
              \cup Stage([upd EXCEPT !.old = store.active]))
Locked ==
  /\ upd.pc = "locking" /\ Installing = {}
  /\ Either(Stage(upd))

Installed ==
  /\ upd.pc = "installing"
  /\ LET s == [store EXCEPT !.ok = @ \cup {upd.new}]
         gone == View(upd, Remove(store, {upd.new}), pool)
     IN  Either((IF upd.new \in store.dirs THEN Staged(View(upd, s, pool)) ELSE {})
                  \cup {End(gone, "failed", "none")})

(* mutant: the wait for running generations has no limit.                  *)
Drained_NoTimeout ==
  /\ upd.pc = "draining" /\ pool.leased = {}
  /\ Either(UnloadEngine(Here))

(* The engine is idle, or thirty seconds passed.                           *)
Drained ==
  /\ upd.pc = "draining"
  /\ Either(IF pool.leased = {} THEN UnloadEngine(Here) ELSE Fail(Here, "failed"))

(* _unload_lock: the load lock came free, or its timeout ran out.          *)
Unlocked ==
  /\ upd.pc = "unlocking"
  /\ Either(IF pool.lock THEN Fail(Here, "failed") ELSE UnloadEngine(Here))
Evicted ==
  /\ upd.pc = "evicting"
  /\ Either(SwitchOver(View(upd, store, Emptied(pool))))

(* The new worker answers its health check or not; the single worker of a  *)
(* disabled pool refuses the probe while a model is loaded.                *)
ProbeReturns ==
  /\ upd.pc = "probing"
  /\ Either(Fail(Here, "failed") \cup
            (IF pool.on \/ InState(pool, {"ready"}) = {} THEN Probed(Here) ELSE {}))

BackUnlocked ==
  /\ upd.pc = "backUnlocking"
  /\ Either(IF pool.lock THEN {End(Here, upd.result, "failed")} ELSE Fail(Here, upd.result))
BackEvicted ==
  /\ upd.pc = "backEvicting"
  /\ Either(RolledBack(View(upd, store, Emptied(pool))))

(* The job's task is cancelled where it is suspended.  An eviction stops   *)
(* half way; a rollback is abandoned, for it only handles Exception.       *)
HalfEvicted(p) ==
  {[Gone(p, S) EXCEPT !.lock = FALSE] : S \in SUBSET InState(p, {"evicting"})}
Cancelled(v) ==
  LET pc == v.u.pc IN
  CASE pc \in {"checking", "locking", "draining", "unlocking", "probing"} ->
         Fail(v, "cancelled")
    [] pc = "installing" -> Fail(View(v.u, Remove(v.s, {v.u.new}), v.p), "cancelled")
    [] pc = "evicting" ->
         UNION {Fail(View(v.u, v.s, p), "cancelled") : p \in HalfEvicted(v.p)}
    [] pc = "backUnlocking" ->
         {View(Outcome("cancelled", "broken"), v.s, v.p)}
    [] pc = "backEvicting" ->
         {View(Outcome("cancelled", "broken"), v.s, p) : p \in HalfEvicted(v.p)}
Cancel ==
  /\ Running /\ upd.cancels < MaxCancel
  /\ Either(Cancelled(View([upd EXCEPT !.cancels = @ + 1], store, pool)))

-----------------------------------------------------------------------------
(* The manual operations of api/management.py.                             *)
StartStage ==
  /\ Installing = {} /\ upd.pc # "locking" /\ NextSlot \in Slot
  /\ store' = WithDir(store) /\ man' = NextSlot
  /\ UNCHANGED <<upd, pool>>
EndStage ==
  /\ man # None
  /\ \/ man \in store.dirs /\ store' = [store EXCEPT !.ok = @ \cup {man}]
     \/ store' = Remove(store, {man})
  /\ man' = None
  /\ UNCHANGED <<upd, pool>>

(* runtime_activate and runtime_rollback unload every model first.         *)
UnloadAll ==
  /\ ~pool.lock /\ pool.leased = {}
  /\ pool' = Gone(pool, InState(pool, {"ready", "evicting"}))
ManualActivate(n) ==
  /\ n \in store.dirs /\ UnloadAll
  /\ store' = Activate(store, n)
  /\ UNCHANGED <<upd, man>>
ManualRollback ==
  /\ UnloadAll
  /\ store' = IF store.prev = None THEN store ELSE Activate(store, store.prev)
  /\ UNCHANGED <<upd, man>>

(* runtime_delete_slot: refused while a job of the engine is active.       *)
Deletable(n) == ~Running /\ man = None /\ n \in store.dirs /\ n # store.active
Delete(n) ==
  /\ Deletable(n)
  /\ store' = [Remove(store, {n}) EXCEPT !.prev = IF @ = n THEN None ELSE @]
  /\ UNCHANGED <<upd, man, pool>>

-----------------------------------------------------------------------------
(* The pool's own life.                                                    *)
WantLoad(m, pin) ==
  /\ pool.st[m] \in {"absent", "evicting"} /\ ~LoadRefused(pool)
  /\ pool' = [pool EXCEPT !.st[m] = "wanted", !.run[m] = None,
                          !.pinned = IF pin THEN @ \cup {m} ELSE @ \ {m}]
  /\ UNCHANGED <<store, upd, man>>
StartLoad(m) ==
  /\ pool.st[m] = "wanted" /\ ~pool.lock
  /\ pool' = IF store.active = None
               THEN Gone(pool, {m})
               ELSE [pool EXCEPT !.st[m] = "loading", !.run[m] = store.active, !.lock = TRUE]
  /\ UNCHANGED <<store, upd, man>>
EndLoad(m) ==
  /\ pool.st[m] = "loading"
  /\ \/ pool' = [pool EXCEPT !.st[m] = "ready", !.lock = FALSE]
     \/ pool' = [Gone(pool, {m}) EXCEPT !.lock = FALSE]
  /\ UNCHANGED <<store, upd, man>>

(* A request leases its slot before the worker refuses it for maintenance; *)
(* without the pool the refusal comes first.                               *)
Lease(m) ==
  /\ pool.st[m] = "ready" /\ m \notin pool.leased /\ (pool.on \/ ~pool.maint)
  /\ pool' = [pool EXCEPT !.leased = @ \cup {m}]
  /\ UNCHANGED <<store, upd, man>>
Return(m) ==
  /\ m \in pool.leased
  /\ pool' = [pool EXCEPT !.leased = @ \ {m}]
  /\ UNCHANGED <<store, upd, man>>

(* The coordinator dies and restarts, possibly inside delete(), between    *)
(* the removal of the directory and the new active.json.                   *)
Crash ==
  /\ store' \in {store} \cup {Remove(store, {n}) : n \in {k \in Slot : Deletable(k)}}
  /\ upd' = NoUpdate /\ man' = None
  /\ pool' = NewPool(pool.on)

UpdateStep ==
  \/ Checked \/ Locked \/ Installed \/ Drained \/ Unlocked \/ Evicted
  \/ ProbeReturns \/ BackUnlocked \/ BackEvicted
PoolStep(m) ==
  \/ WantLoad(m, TRUE) \/ WantLoad(m, FALSE)
  \/ StartLoad(m) \/ EndLoad(m) \/ Lease(m) \/ Return(m)

Next ==
  \/ StartUpdate \/ UpdateStep \/ Cancel
  \/ StartStage \/ EndStage \/ ManualRollback
  \/ \E n \in Slot : ManualActivate(n) \/ Delete(n)
  \/ \E m \in Model : PoolStep(m)
  \/ Crash

Spec == Init /\ [][Next]_vars

(* Every wait of the update has a timeout, an installation ends within an  *)
(* hour and the updater's lock is first come first served.                 *)
FairSpec == Spec /\ WF_vars(UpdateStep) /\ WF_vars(EndStage)

-----------------------------------------------------------------------------
(* The state of the store, the jobs and the pool is of this type.          *)
TypeOK ==
  /\ store \in Store /\ upd \in Update /\ man \in Slot \cup {None} /\ pool \in Pool

(* active.json never names a slot that is missing or was not verified:     *)
(* neither activation, rollback, deletion and cleanup nor a crash between  *)
(* their steps can leave the engine without a runtime it thinks it has.    *)
ActiveUsable == store.active # None => Verified(store, store.active)

(* A resident model runs the active runtime: every switch, manual or by    *)
(* the update job or its rollback, first stops the workers of the engine,  *)
(* and a load in flight around the switch starts on one side of it.  (With *)
(* the pool disabled nobody stops the single worker.)                      *)
ResidentsRunActive ==
  pool.on => \A m \in InState(pool, {"loading", "ready"}) : pool.run[m] = store.active

(* The runtime is never switched under a leased model.                     *)
NoSwitchUnderLease == [][pool.on /\ store'.active # store.active => pool.leased = {} \/ pool'.leased = {}]_vars

(* The load lock is held only by a load or an eviction in progress: no     *)
(* cancellation leaves it behind.                                          *)
LockOwned ==
  pool.lock => InState(pool, {"loading"}) # {} \/ upd.pc \in {"evicting", "backEvicting"}

(* "ENGINE_BUSY: the runtime is being switched" is only answered while an  *)
(* update job runs: the step that ends a job takes the flag it put up down *)
(* again, unless it was its rollback that was cancelled.                   *)
MaintenanceEnds ==
  [][Running /\ upd.owns /\ upd'.pc = "ended" => ~pool'.maint \/ upd'.rollback = "broken"]_vars

(* The directory of a slot that is being installed stays: the cleanup of   *)
(* another job does not take it ("slots being downloaded become candidates *)
(* for cleaning after 24 hours").                                          *)
StagingKept == Installing \subseteq store.dirs

(* Whatever jobs, cancellations and crashes interleave, the engine has a   *)
(* usable runtime, its residents run it, the load lock has a holder, and   *)
(* what another job installs stays.                                        *)
RuntimeSound == ActiveUsable /\ ResidentsRunActive /\ LockOwned /\ StagingKept

(* Maintenance protects the residents and is lifted: no switch under a     *)
(* lease, and no job that ends leaves its flag up.                         *)
MaintenanceKept == NoSwitchUnderLease /\ MaintenanceEnds

(* An update job always ends.                                              *)
UpdateEnds == Running ~> ~Running

(* A failed update puts the same list of residents back.                   *)
FailedUpdateRestores ==
  [][(upd.activated /\ Running /\ upd'.pc = "ended" /\ upd'.result = "failed")
       => \A m \in upd.pins : pool'.st[m] = "ready"]_vars
=============================================================================
