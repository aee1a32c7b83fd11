--------------------------- MODULE RuntimeProofs ---------------------------
(***************************************************************************)
(* Proofs about the runtime slots and the job that updates them, for any   *)
(* number of models, slots and cancellations; and about the job manager    *)
(* that runs it, for any number of streams and cancellers and any amount   *)
(* of progress.  The two share no state.                                   *)
(*                                                                         *)
(* The invariant is about views, because an action of the job is a chain   *)
(* of them: Sound is what holds of every view, the lock's two conjuncts    *)
(* and the slots being installed depend on where the job is suspended.     *)
(* Each operator of the job then has a lemma with two results: the views   *)
(* it returns are sound and rested, and Follows relates them to the view   *)
(* it was given (which switches and deletions a step may do).              *)
(***************************************************************************)
EXTENDS RuntimeUpdate, Jobs, TLAPS, FiniteSetTheorems, SequenceTheorems

(* Whatever the job does next: typed, the active slot usable, residents on *)
(* the active runtime, one load at a time and under the lock, leases on    *)
(* ready models only.                                                      *)
Typed(v) == v.u \in Update /\ v.s \in Store /\ v.p \in Pool
Usable(s) == s.active # None => s.active \in s.dirs /\ s.active \in s.ok
Numbered(s) == s.dirs \subseteq 1..s.made /\ s.ok \subseteq 1..s.made
OneLoad(p) ==
  \A m \in Model : p.st[m] = "loading" =>
    p.lock /\ \A n \in Model : p.st[n] = "loading" => n = m
OnActive(p, s) ==
  p.on => \A m \in Model : p.st[m] \in {"loading", "ready"} => p.run[m] = s.active
LeasedReady(p) == \A m \in p.leased : p.st[m] = "ready"
Sound(v) ==
  /\ Typed(v)
  /\ Usable(v.s)
  /\ Numbered(v.s)
  /\ OneLoad(v.p)
  /\ OnActive(v.p, v.s)
  /\ LeasedReady(v.p)

(* The lock belongs to a load; nobody is loaded or loading.                *)
LoadLocks(p) == p.lock => \E m \in Model : p.st[m] = "loading"
NoWorkers(p) == \A m \in Model : p.st[m] \notin {"loading", "ready"}
Calm(p) == p.on => NoWorkers(p)

(* Where the job is suspended inside an eviction it holds the lock itself. *)
Evictings == {"evicting", "backEvicting"}
Rested(v) ==
  /\ v.u.pc \notin Evictings => LoadLocks(v.p)
  /\ v.u.pc \in Evictings => v.p.lock /\ v.p.on /\ NoWorkers(v.p)

(* The newest slot is the one being installed, and nobody has verified it. *)
Staging ==
  /\ man # None => man = store.made /\ man \notin store.ok
  /\ upd.pc = "installing" =>
       upd.new # None /\ upd.new = store.made /\ upd.new \notin store.ok /\ man = None

(* Keeping three slots or more, the directory being filled stays.          *)
Spared ==
  Keep > 2 =>
    /\ man # None => man \in store.dirs
    /\ upd.pc = "installing" => upd.new \in store.dirs

IInv == Sound(Here) /\ Rested(Here) /\ Staging /\ Spared /\ man \in Slot \cup {None}

(* The two halves of MaintenanceKept, of one step.                         *)
Protected ==
  /\ pool.on /\ store'.active # store.active => pool.leased = {} \/ pool'.leased = {}
  /\ Running /\ upd.owns /\ upd'.pc = "ended" => ~pool'.maint \/ upd'.rollback = "broken"

(* What a chain of the job's code may do to the store and the pool.        *)
Follows(v, w) ==
  /\ w.p.on = v.p.on
  /\ w.p.leased = v.p.leased
  /\ w.s.made = v.s.made
  /\ w.s.ok \subseteq v.s.ok
  /\ Keep > 2 /\ v.s.made \in v.s.dirs /\ v.s.made \notin v.s.ok => v.s.made \in w.s.dirs
  /\ v.p.on /\ w.s.active # v.s.active => v.p.leased = {}
  /\ v.u.owns /\ w.u.pc = "ended" => ~w.p.maint \/ w.u.rollback = "broken"

(* A result of the job's code.                                             *)
Result(v, w) == Sound(w) /\ Rested(w) /\ w.u.pc # "installing" /\ Follows(v, w)

-----------------------------------------------------------------------------
Ready(v) == Sound(v) /\ LoadLocks(v.p)

(* The end of a job.                                                       *)
LEMMA EndIs ==
  ASSUME NEW v, Ready(v), NEW res \in {"none", "same", "done", "failed", "cancelled"},
         NEW rb \in {"none", "done", "failed", "broken"}
  PROVE  Result(v, End(v, res, rb))
<1> DEFINE w == End(v, res, rb)
<1>1. w.s = v.s /\ w.p = [v.p EXCEPT !.maint = @ /\ ~v.u.owns] /\ w.u = Outcome(res, rb)
  BY DEF End, View
<1>2. w.u \in Update /\ w.u.pc = "ended" /\ v.u.owns \in BOOLEAN
  <2>1. w.u = [NoUpdate EXCEPT !.pc = "ended", !.rollback = rb,
                               !.result = IF rb = "failed" THEN "failed" ELSE res]
    BY <1>1 DEF Outcome
  <2>2. w.u \in Update
    <3> DEFINE r == IF rb = "failed" THEN "failed" ELSE res
    <3>1. r \in {"none", "same", "done", "failed", "cancelled"} OBVIOUS
    <3>2. NoUpdate \in Update BY BoundAssumption DEF NoUpdate, Update, None
    <3>3. w.u = [NoUpdate EXCEPT !.pc = "ended", !.rollback = rb, !.result = r] BY <2>1
    <3> HIDE DEF r
    <3> QED BY <3>1, <3>2, <3>3 DEF Update
  <2>3. w.u.pc = "ended" BY <2>1 DEF NoUpdate
  <2>4. v.u \in Update BY DEF Ready, Sound, Typed
  <2>5. v.u.owns \in BOOLEAN BY <2>4 DEF Update
  <2> QED BY <2>2, <2>3, <2>5
<1>3. /\ w.p.maint = (v.p.maint /\ ~v.u.owns)
      /\ w.p.st = v.p.st /\ w.p.run = v.p.run /\ w.p.lock = v.p.lock
      /\ w.p.leased = v.p.leased /\ w.p.on = v.p.on /\ w.p \in Pool
  BY <1>1, <1>2 DEF Ready, Sound, Typed, Pool
<1> HIDE DEF w
<1>4. Sound(w)
  BY <1>1, <1>2, <1>3 DEF Ready, Sound, Typed, OneLoad, OnActive, LeasedReady
<1>5. Rested(w) BY <1>2, <1>3 DEF Rested, Evictings, Ready, LoadLocks
<1>6. Follows(v, w) BY <1>1, <1>3 DEF Follows
<1> QED BY <1>2, <1>4, <1>5, <1>6 DEF Result, w

(* The models put back are ready on the active runtime.                    *)
LEMMA ReloadsIs ==
  ASSUME NEW p \in Pool, NEW s \in Store, NEW u \in Update, NEW q \in Reloads(p, s, u),
         OneLoad(p), LoadLocks(p), LeasedReady(p), OnActive(p, s)
  PROVE  /\ q \in Pool /\ q.on = p.on /\ q.leased = p.leased /\ q.lock = p.lock
         /\ q.maint = p.maint
         /\ OneLoad(q) /\ LoadLocks(q) /\ LeasedReady(q) /\ OnActive(q, s)
<1>1. CASE q = p BY <1>1
<1>2. CASE q # p
  <2>1. PICK S \in SUBSET Model :
          /\ S \cap InState(p, {"loading"}) = {}
          /\ q = [p EXCEPT !.st = With(@, S, "ready"), !.run = With(@, S, s.active),
                           !.pinned = (@ \ S) \cup (u.pins \cap S)]
    <3>1. q \in {[p EXCEPT !.st = With(@, R, "ready"), !.run = With(@, R, s.active),
                           !.pinned = (@ \ R) \cup (u.pins \cap R)] :
          R \in {T \ InState(p, {"loading"}) :
                    T \in {U \in SUBSET u.snap : u.pins \subseteq U}}}
      BY <1>2 DEF Reloads
    <3>2. u.snap \subseteq Model BY DEF Update
    <3> QED BY <3>1, <3>2
  <2>2. /\ q.st = With(p.st, S, "ready") /\ q.run = With(p.run, S, s.active)
        /\ q.pinned = (p.pinned \ S) \cup (u.pins \cap S)
        /\ q.on = p.on /\ q.leased = p.leased /\ q.lock = p.lock /\ q.maint = p.maint
    BY <2>1 DEF Pool
  <2>3. \A m \in Model : q.st[m] = (IF m \in S THEN "ready" ELSE p.st[m])
                      /\ q.run[m] = (IF m \in S THEN s.active ELSE p.run[m])
    BY <2>2 DEF With
  <2>4. q \in Pool
    <3>1. q.st \in [Model -> Residency] BY <2>2 DEF With, Pool, Residency
    <3>2. q.run \in [Model -> Slot \cup {None}] BY <2>2 DEF With, Pool, Store
    <3>3. q.pinned \in SUBSET Model BY <2>2 DEF Pool, Update
    <3> QED BY <2>1, <2>2, <3>1, <3>2, <3>3 DEF Pool
  <2>5. \A m \in S : p.st[m] # "loading" BY <2>1 DEF InState
  <2>6. \A m \in Model : q.st[m] = "loading" <=> p.st[m] = "loading" BY <2>3, <2>5
  <2>7. OneLoad(q) BY <2>2, <2>6 DEF OneLoad
  <2>8. LoadLocks(q) BY <2>2, <2>6 DEF LoadLocks
  <2>9. LeasedReady(q) BY <2>2, <2>3 DEF LeasedReady, Pool
  <2>10. OnActive(q, s) BY <2>2, <2>3 DEF OnActive
  <2> QED BY <2>2, <2>4, <2>7, <2>8, <2>9, <2>10
<1> QED BY <1>1, <1>2

(* An eviction takes the lock and every resident with it.                  *)
LEMMA EvictingIs ==
  ASSUME NEW p \in Pool, ~p.lock, OneLoad(p), LeasedReady(p),
         Targets(p) # {}, Targets(p) \cap p.leased = {}
  PROVE  /\ Evicting(p) \in Pool /\ Evicting(p).on /\ Evicting(p).on = p.on /\ Evicting(p).lock
         /\ Evicting(p).leased = p.leased /\ p.leased = {}
         /\ NoWorkers(Evicting(p))
         /\ Evicting(p).maint = p.maint
<1> DEFINE q == Evicting(p)
<1>1. p.on BY DEF Targets
<1>2. Targets(p) = {m \in Model : p.st[m] \in {"ready", "evicting"}} BY <1>1 DEF Targets, InState
<1>3. /\ q.st = With(p.st, Targets(p), "evicting") /\ q.lock /\ q.on = p.on
      /\ q.leased = p.leased /\ q.maint = p.maint /\ q.run = p.run /\ q.pinned = p.pinned
  BY DEF Evicting, Pool
<1>4. q.st \in [Model -> Residency] BY <1>3 DEF With, Pool, Residency
<1>5. q \in Pool BY <1>4 DEF Evicting, Pool
<1>6. p.leased = {} BY <1>2 DEF LeasedReady, Pool
<1>7. NoWorkers(q)
  BY <1>2, <1>3 DEF NoWorkers, With, OneLoad
<1> QED BY <1>1, <1>3, <1>5, <1>6, <1>7

(* Without workers anything may become of the active slot.                 *)
LEMMA NoWorkersIs ==
  ASSUME NEW p \in Pool, Calm(p), OneLoad(p), LeasedReady(p), NEW s
  PROVE  OnActive(p, s) /\ (p.on => p.leased = {})
BY DEF Calm, NoWorkers, OnActive, LeasedReady, Pool

-----------------------------------------------------------------------------
(* One link of the chain: the view x is reached from v.                    *)
Link(v, x) ==
  /\ x.p.on = v.p.on
  /\ x.p.leased = v.p.leased
  /\ x.s.made = v.s.made
  /\ x.s.ok \subseteq v.s.ok
  /\ Keep > 2 /\ v.s.made \in v.s.dirs /\ v.s.made \notin v.s.ok => v.s.made \in x.s.dirs
  /\ v.p.on /\ x.s.active # v.s.active => v.p.leased = {}
  /\ v.u.owns => x.u.owns

(* The links of a chain compose.                                           *)
LEMMA Chained ==
  ASSUME NEW v, NEW x, NEW w, Link(v, x), Result(x, w)
  PROVE  Result(v, w)
BY DEF Link, Result, Follows

(* The rollback: the old slot again, its residents reloaded, the end.      *)
LEMMA RolledBackIs ==
  ASSUME NEW v, Ready(v), Calm(v.p), NEW w \in RolledBack(v)
  PROVE  Result(v, w)
<1> DEFINE s == Restore(v.s, v.u.old)
           reload == v.u.snap # {} /\ v.u.old # None
           rb == IF reload /\ ReloadFails(v.p, v.u) THEN "failed" ELSE "done"
<1>1. /\ v.u \in Update /\ v.s \in Store /\ v.p \in Pool
      /\ v.u.old \in Slot \cup {None}
      /\ v.u.result \in {"none", "same", "done", "failed", "cancelled"}
  BY DEF Ready, Sound, Typed, Update
<1>2. CASE v.u.old # None /\ ~Verified(v.s, v.u.old)
  <2>1. w = End(v, v.u.result, "failed") BY <1>2 DEF RolledBack
  <2> QED BY <1>1, <2>1, EndIs
<1>3. CASE ~(v.u.old # None /\ ~Verified(v.s, v.u.old))
  <2>1. PICK p \in (IF reload THEN Reloads(v.p, s, v.u) ELSE {v.p}) :
          w = End(View(v.u, s, p), v.u.result, rb)
    BY <1>3 DEF RolledBack, View
  <2>2. /\ s \in Store /\ s.dirs = v.s.dirs /\ s.ok = v.s.ok /\ s.made = v.s.made
        /\ s.active = v.u.old
    BY <1>1 DEF Restore, Store
  <2>3. Usable(s) /\ Numbered(s)
    BY <1>3, <2>2 DEF Usable, Numbered, Verified, Ready, Sound
  <2> HIDE DEF s
  <2>4. OnActive(v.p, s) /\ (v.p.on => v.p.leased = {}) /\ OneLoad(v.p) /\ LeasedReady(v.p) /\ LoadLocks(v.p)
    BY <1>1, NoWorkersIs DEF Ready, Sound
  <2>5. /\ p \in Pool /\ p.on = v.p.on /\ p.leased = v.p.leased
        /\ OneLoad(p) /\ LoadLocks(p) /\ LeasedReady(p) /\ OnActive(p, s)
    BY <1>1, <2>1, <2>2, <2>4, ReloadsIs
  <2> DEFINE x == View(v.u, s, p)
  <2>6. x.u = v.u /\ x.s = s /\ x.p = p BY DEF View
  <2> HIDE DEF x
  <2>7. Ready(x) BY <1>1, <2>2, <2>3, <2>5, <2>6 DEF Ready, Sound, Typed
  <2>8. Link(v, x) BY <2>2, <2>4, <2>5, <2>6 DEF Link
  <2>9. Result(x, w) BY <1>1, <2>1, <2>7, EndIs DEF x
  <2> QED BY <2>8, <2>9, Chained
<1> QED BY <1>2, <1>3

(* The job moves to another suspension: nothing else changes.              *)
LEMMA SuspendsIs ==
  ASSUME NEW v, Ready(v), NEW u \in Update, u.pc \notin Evictings \cup {"installing", "ended"}
  PROVE  Result(v, View(u, v.s, v.p))
<1> DEFINE w == View(u, v.s, v.p)
<1>1. w.u = u /\ w.s = v.s /\ w.p = v.p BY DEF View
<1> HIDE DEF w
<1>2. Sound(w) BY <1>1 DEF Ready, Sound, Typed
<1>3. Rested(w) BY <1>1 DEF Ready, Rested
<1>4. Follows(v, w) BY <1>1 DEF Follows
<1> QED BY <1>1, <1>2, <1>3, <1>4 DEF Result, w

(* The job begins an eviction.                                             *)
LEMMA EvictsIs ==
  ASSUME NEW v, Ready(v), NEW u \in Update, u.pc \in Evictings,
         ~v.p.lock, Targets(v.p) # {}, Targets(v.p) \cap v.p.leased = {}
  PROVE  Result(v, View(u, v.s, Evicting(v.p)))
<1> DEFINE w == View(u, v.s, Evicting(v.p))
<1>1. w.u = u /\ w.s = v.s /\ w.p = Evicting(v.p) BY DEF View
<1>2. v.s \in Store /\ v.p \in Pool /\ OneLoad(v.p) /\ LeasedReady(v.p)
  BY DEF Ready, Sound, Typed
<1>3. /\ w.p \in Pool /\ w.p.on /\ w.p.on = v.p.on /\ w.p.lock
      /\ w.p.leased = v.p.leased /\ v.p.leased = {}
      /\ NoWorkers(w.p)
  BY <1>1, <1>2, EvictingIs
<1> HIDE DEF w
<1>4. OneLoad(w.p) /\ OnActive(w.p, w.s) /\ LeasedReady(w.p)
  BY <1>3 DEF NoWorkers, OneLoad, OnActive, LeasedReady
<1>5. Sound(w) BY <1>1, <1>2, <1>3, <1>4 DEF Ready, Sound, Typed
<1>6. Rested(w) BY <1>1, <1>3 DEF Rested
<1>7. Follows(v, w) BY <1>1, <1>3 DEF Follows, Evictings
<1> QED BY <1>1, <1>5, <1>6, <1>7 DEF Result, Evictings, w

(* The handler of an exception: the end, a rollback or the wait before it. *)
LEMMA FailIs ==
  ASSUME NEW v, Ready(v), NEW res \in {"none", "same", "done", "failed", "cancelled"},
         NEW w \in Fail(v, res)
  PROVE  Result(v, w)
<1> DEFINE At(pc, p) == View([v.u EXCEPT !.pc = pc, !.result = res], v.s, p)
           u(pc) == [v.u EXCEPT !.pc = pc, !.result = res]
<1>1. /\ v.u \in Update /\ v.s \in Store /\ v.p \in Pool /\ OneLoad(v.p)
  BY DEF Ready, Sound, Typed
<1>2. \A pc \in Suspended \cup {"ended"} :
        u(pc) \in Update /\ u(pc).pc = pc /\ u(pc).owns = v.u.owns /\ u(pc).old = v.u.old
  BY <1>1 DEF Update
<1>3. CASE ~v.u.activated
  BY <1>3, EndIs DEF Fail
<1>4. CASE v.u.activated /\ v.p.lock
  <2>1. w = View(u("backUnlocking"), v.s, v.p) BY <1>4 DEF Fail
  <2> HIDE DEF u
  <2> QED BY <1>2, <2>1, SuspendsIs DEF Evictings, Suspended
<1>5. CASE v.u.activated /\ ~v.p.lock /\ Targets(v.p) \cap v.p.leased # {}
  BY <1>5, EndIs DEF Fail
<1>6. CASE v.u.activated /\ ~v.p.lock /\ Targets(v.p) = {}
  <2> DEFINE x == View(u("ended"), v.s, v.p)
  <2>1. w \in RolledBack(x) BY <1>6 DEF Fail
  <2>2. x.u = u("ended") /\ x.s = v.s /\ x.p = v.p BY DEF View
  <2>3. Calm(v.p)
    BY <1>1, <1>6 DEF Calm, NoWorkers, OneLoad, Targets, InState
  <2> HIDE DEF x, u
  <2>4. Ready(x) /\ Link(v, x) BY <1>2, <2>2 DEF Ready, Sound, Typed, Link
  <2> QED BY <2>1, <2>2, <2>3, <2>4, RolledBackIs, Chained
<1>7. CASE /\ v.u.activated /\ ~v.p.lock
           /\ Targets(v.p) \cap v.p.leased = {} /\ Targets(v.p) # {}
  <2>1. w = View(u("backEvicting"), v.s, Evicting(v.p)) BY <1>7 DEF Fail
  <2> HIDE DEF u
  <2> QED BY <1>2, <1>7, <2>1, EvictsIs DEF Evictings, Suspended
<1> QED BY <1>3, <1>4, <1>5, <1>6, <1>7

(* The switch, nobody being loaded: the new slot is verified first.        *)
LEMMA SwitchOverIs ==
  ASSUME NEW v, Ready(v), Calm(v.p), NEW w \in SwitchOver(v)
  PROVE  Result(v, w)
<1>1. v.u \in Update /\ v.s \in Store /\ v.p \in Pool
  BY DEF Ready, Sound, Typed
<1>2. CASE ~Verified(v.s, v.u.new) BY <1>2, FailIs DEF SwitchOver
<1>3. CASE Verified(v.s, v.u.new)
  <2> DEFINE u == [v.u EXCEPT !.pc = "probing", !.activated = TRUE]
             s == Activate(v.s, v.u.new)
  <2>1. w = View(u, s, v.p) BY <1>3 DEF SwitchOver
  <2>2. u \in Update /\ u.pc = "probing" BY <1>1 DEF Update, Suspended
  <2>3. /\ s \in Store /\ s.dirs = v.s.dirs /\ s.ok = v.s.ok /\ s.made = v.s.made
        /\ s.active = v.u.new
    BY <1>1, <1>3 DEF Activate, Store, Verified
  <2>4. w.u = u /\ w.s = s /\ w.p = v.p BY <2>1 DEF View
  <2> HIDE DEF u, s
  <2>5. OnActive(v.p, s) /\ (v.p.on => v.p.leased = {})
    BY <1>1, NoWorkersIs DEF Ready, Sound
  <2>6. Sound(w)
    BY <1>1, <1>3, <2>2, <2>3, <2>4, <2>5 DEF Ready, Sound, Typed, Usable, Numbered, Verified
  <2>7. Rested(w) BY <2>2, <2>4 DEF Ready, Rested, Evictings
  <2>8. Follows(v, w) BY <2>2, <2>3, <2>4, <2>5 DEF Follows
  <2> QED BY <2>2, <2>4, <2>6, <2>7, <2>8 DEF Result
<1> QED BY <1>2, <1>3

(* The residents are unloaded before the switch.                           *)
LEMMA UnloadEngineIs ==
  ASSUME NEW v, Ready(v), NEW w \in UnloadEngine(v)
  PROVE  Result(v, w)
<1>1. /\ v.u \in Update /\ v.s \in Store /\ v.p \in Pool /\ OneLoad(v.p)
  BY DEF Ready, Sound, Typed
<1>2. CASE v.p.lock
  <2>1. [v.u EXCEPT !.pc = "unlocking"] \in Update BY <1>1 DEF Update, Suspended
  <2>2. [v.u EXCEPT !.pc = "unlocking"].pc = "unlocking" BY <1>1 DEF Update
  <2>3. w = View([v.u EXCEPT !.pc = "unlocking"], v.s, v.p) BY <1>2 DEF UnloadEngine
  <2> QED BY <2>1, <2>2, <2>3, SuspendsIs DEF Evictings
<1>3. CASE ~v.p.lock /\ Targets(v.p) \cap v.p.leased # {}
  BY <1>3, FailIs DEF UnloadEngine
<1>4. CASE ~v.p.lock /\ Targets(v.p) = {}
  <2>1. Calm(v.p) BY <1>1, <1>4 DEF Calm, NoWorkers, OneLoad, Targets, InState
  <2> QED BY <1>4, <2>1, SwitchOverIs DEF UnloadEngine
<1>5. CASE ~v.p.lock /\ Targets(v.p) \cap v.p.leased = {} /\ Targets(v.p) # {}
  <2>1. [v.u EXCEPT !.pc = "evicting"] \in Update BY <1>1 DEF Update, Suspended
  <2>2. [v.u EXCEPT !.pc = "evicting"].pc = "evicting" BY <1>1 DEF Update
  <2>3. w = View([v.u EXCEPT !.pc = "evicting"], v.s, Evicting(v.p)) BY <1>5 DEF UnloadEngine
  <2> QED BY <1>5, <2>1, <2>2, <2>3, EvictsIs DEF Evictings
<1> QED BY <1>2, <1>3, <1>4, <1>5

(* The slot is staged and verified: maintenance, and the way to the switch.*)
LEMMA StagedIs ==
  ASSUME NEW v, Ready(v), NEW w \in Staged(v)
  PROVE  Result(v, w)
<1> DEFINE snap == Snapshot(v.p)
           u == [v.u EXCEPT !.snap = snap, !.pins = snap \cap v.p.pinned, !.owns = TRUE]
           p == [v.p EXCEPT !.maint = TRUE]
           x == View(u, v.s, p)
<1>1. /\ v.u \in Update /\ v.s \in Store /\ v.p \in Pool /\ OneLoad(v.p)
  BY DEF Ready, Sound, Typed
<1>2. snap \in SUBSET Model BY DEF Snapshot, InState
<1>3. u \in Update /\ u.owns BY <1>1, <1>2 DEF Update
<1>4. /\ p \in Pool /\ p.st = v.p.st /\ p.run = v.p.run /\ p.lock = v.p.lock
      /\ p.leased = v.p.leased /\ p.on = v.p.on
  BY <1>1 DEF Pool
<1>5. w \in (IF snap = {} THEN SwitchOver(x)
             ELSE IF v.p.leased # {} THEN {View([u EXCEPT !.pc = "draining"], v.s, p)}
             ELSE UnloadEngine(x))
  BY DEF Staged, View
<1>6. x.u = u /\ x.s = v.s /\ x.p = p BY DEF View
<1> HIDE DEF u, p, x
<1>7. Ready(x)
  BY <1>1, <1>3, <1>4, <1>6 DEF Ready, Sound, Typed, OneLoad, OnActive, LeasedReady, LoadLocks
<1>8. Link(v, x) BY <1>3, <1>4, <1>6 DEF Link
<1>9. CASE snap = {}
  <2>1. Calm(x.p)
    BY <1>1, <1>4, <1>6, <1>9 DEF Calm, NoWorkers, Snapshot, InState
  <2> QED BY <1>5, <1>7, <1>8, <1>9, <2>1, SwitchOverIs, Chained
<1>10. CASE snap # {} /\ v.p.leased # {}
  <2>1. [u EXCEPT !.pc = "draining"] \in Update BY <1>3 DEF Update, Suspended
  <2>2. [u EXCEPT !.pc = "draining"].pc = "draining" BY <1>3 DEF Update
  <2>3. w = View([u EXCEPT !.pc = "draining"], x.s, x.p) BY <1>5, <1>6, <1>10
  <2>4. Result(x, w) BY <1>7, <2>1, <2>2, <2>3, SuspendsIs DEF Evictings
  <2> QED BY <1>8, <2>4, Chained
<1>11. CASE snap # {} /\ v.p.leased = {}
  <2>1. Result(x, w) BY <1>5, <1>7, <1>11, UnloadEngineIs
  <2> QED BY <1>8, <2>1, Chained
<1> QED BY <1>9, <1>10, <1>11

(* The cleanup spares the active slot and, keeping three slots or more,    *)
(* the newest one.                                                         *)
LEMMA CleanupIs ==
  ASSUME NEW s \in Store, Numbered(s), Usable(s)
  PROVE  /\ Cleanup(s) \in Store /\ Cleanup(s).active = s.active
         /\ Cleanup(s).made = s.made
         /\ Cleanup(s).ok \subseteq s.ok /\ Cleanup(s).dirs \subseteq s.dirs
         /\ Usable(Cleanup(s)) /\ Numbered(Cleanup(s))
         /\ Keep > 2 /\ s.made \in s.dirs => s.made \in Cleanup(s).dirs
<1> DEFINE c == Cleanup(s)
           D == s.dirs \ Retained(s)
           spare == s.dirs \ (s.dirs \cap {s.active, s.prev})
           named == {s.active, s.prev} \ {None}
<1>1. c = [s EXCEPT !.dirs = @ \ D, !.ok = @ \ D] BY DEF Cleanup, Remove
<1>2. /\ c \in Store /\ c.active = s.active /\ c.made = s.made
      /\ c.ok = s.ok \ D /\ c.dirs = s.dirs \ D
  BY <1>1 DEF Store
<1>3. s.dirs \cap {s.active, s.prev} \subseteq Retained(s) BY DEF Retained
<1>4. Usable(c) BY <1>2, <1>3 DEF Usable
<1>5. Numbered(c) BY <1>2 DEF Numbered
<1>6. ASSUME Keep > 2, s.made \in s.dirs
      PROVE  s.made \in Retained(s)
  <2>1. CASE s.made \in {s.active, s.prev} BY <1>3, <1>6, <2>1
  <2>2. CASE s.made \in spare
    <3>1. s.made \in Nat /\ \A k \in s.dirs : k \in Nat /\ k <= s.made
      BY BoundAssumption DEF Numbered, Store, Slot
    <3>2. {k \in spare : k >= s.made} = {s.made} BY <2>2, <3>1
    <3>3. Cardinality({k \in spare : k >= s.made}) = 1 BY <3>2, FS_Singleton
    <3>4. IsFiniteSet({s.prev}) /\ Cardinality({s.prev}) = 1 /\ IsFiniteSet({s.active})
          /\ Cardinality({s.active}) = 1
      BY FS_Singleton
    <3>5. IsFiniteSet({s.active} \cup {s.prev})
          /\ Cardinality({s.active} \cup {s.prev}) <= 2
      <4>1. /\ IsFiniteSet({s.active} \cup {s.prev}) /\ IsFiniteSet({s.active} \cap {s.prev})
            /\ Cardinality({s.active} \cup {s.prev})
                 = 1 + 1 - Cardinality({s.active} \cap {s.prev})
        BY <3>4, FS_Union, FS_Intersection
      <4>2. Cardinality({s.active} \cap {s.prev}) \in Nat BY <4>1, FS_CardinalityType
      <4> QED BY <4>1, <4>2
    <3>6. Cardinality(named) \in Nat /\ Cardinality(named) <= 2
      <4>1. named \subseteq {s.active} \cup {s.prev} OBVIOUS
      <4>2. IsFiniteSet(named) /\ Cardinality(named) <= Cardinality({s.active} \cup {s.prev})
        BY <3>5, <4>1, FS_Subset
      <4>3. Cardinality(named) \in Nat /\ Cardinality({s.active} \cup {s.prev}) \in Nat
        BY <3>5, <4>2, FS_CardinalityType
      <4> HIDE DEF named
      <4> QED BY <3>5, <4>2, <4>3
    <3>7. Cardinality(named) + Cardinality({k \in spare : k >= s.made}) <= AtLeastTwo
      <4> HIDE DEF named, spare
      <4> QED BY <1>6, <3>3, <3>6, BoundAssumption DEF AtLeastTwo
    <3> QED BY <2>2, <3>7 DEF Retained
  <2> QED BY <1>6, <2>1, <2>2
<1> QED BY <1>2, <1>4, <1>5, <1>6

(* The new runtime answered: the residents reload, cleanup, the end.       *)
LEMMA ProbedIs ==
  ASSUME NEW v, Ready(v), NEW w \in Probed(v)
  PROVE  Result(v, w)
<1>1. /\ v.u \in Update /\ v.s \in Store /\ v.p \in Pool
      /\ OneLoad(v.p) /\ LoadLocks(v.p) /\ LeasedReady(v.p) /\ OnActive(v.p, v.s)
      /\ Numbered(v.s) /\ Usable(v.s)
  BY DEF Ready, Sound, Typed
<1>2. CASE ReloadFails(v.p, v.u) BY <1>2, FailIs DEF Probed
<1>3. CASE ~ReloadFails(v.p, v.u)
  <2> DEFINE s == Cleanup(v.s)
  <2>1. PICK p \in Reloads(v.p, v.s, v.u) : w = End(View(v.u, s, p), "done", "none")
    BY <1>3 DEF Probed
  <2>2. /\ p \in Pool /\ p.on = v.p.on /\ p.leased = v.p.leased
        /\ OneLoad(p) /\ LoadLocks(p) /\ LeasedReady(p) /\ OnActive(p, v.s)
    BY <1>1, ReloadsIs
  <2>3. /\ s \in Store /\ s.active = v.s.active /\ s.made = v.s.made
        /\ s.ok \subseteq v.s.ok
        /\ Usable(s) /\ Numbered(s)
        /\ Keep > 2 /\ v.s.made \in v.s.dirs => v.s.made \in s.dirs
    BY <1>1, CleanupIs
  <2> DEFINE x == View(v.u, s, p)
  <2>4. x.u = v.u /\ x.s = s /\ x.p = p BY DEF View
  <2> HIDE DEF x, s
  <2>5. Ready(x) BY <1>1, <2>2, <2>3, <2>4 DEF Ready, Sound, Typed, OnActive
  <2>6. Link(v, x) BY <2>2, <2>3, <2>4 DEF Link
  <2>7. Result(x, w) BY <2>1, <2>5, EndIs DEF x
  <2> QED BY <2>6, <2>7, Chained
<1> QED BY <1>2, <1>3

(* An eviction that ends, or that a cancellation stops half way: the lock  *)
(* is free again.                                                          *)
LEMMA GoneIs ==
  ASSUME NEW p \in Pool, NoWorkers(p), NEW S \in SUBSET Model, LeasedReady(p)
  PROVE  LET q == [Gone(p, S) EXCEPT !.lock = FALSE] IN
         /\ q \in Pool /\ q.on = p.on /\ q.leased = p.leased /\ ~q.lock
         /\ NoWorkers(q) /\ LeasedReady(q)
<1> DEFINE q == [Gone(p, S) EXCEPT !.lock = FALSE]
<1>1. /\ q.st = With(p.st, S, "absent") /\ q.run = With(p.run, S, None)
      /\ q.pinned = p.pinned \ S /\ ~q.lock
      /\ q.on = p.on /\ q.leased = p.leased /\ q.maint = p.maint
  BY DEF Gone, Pool
<1>2. q.st \in [Model -> Residency] BY <1>1 DEF With, Pool, Residency
<1>3. q.run \in [Model -> Slot \cup {None}] BY <1>1 DEF With, Pool
<1>4. q \in Pool BY <1>1, <1>2, <1>3 DEF Gone, Pool
<1>5. NoWorkers(q) BY <1>1 DEF NoWorkers, With
<1>6. p.leased = {} BY DEF LeasedReady, NoWorkers, Pool
<1>7. LeasedReady(q) BY <1>1, <1>6 DEF LeasedReady
<1> QED BY <1>1, <1>4, <1>5, <1>7

(* So the job goes on, nobody being loaded.                                *)
LEMMA AfterEviction ==
  ASSUME NEW v, Sound(v), Rested(v), v.u.pc \in Evictings, NEW S \in SUBSET Model
  PROVE  LET x == View(v.u, v.s, [Gone(v.p, S) EXCEPT !.lock = FALSE])
         IN  Ready(x) /\ Calm(x.p) /\ Link(v, x)
<1> DEFINE q == [Gone(v.p, S) EXCEPT !.lock = FALSE]
           x == View(v.u, v.s, q)
<1>1. v.p \in Pool /\ NoWorkers(v.p) /\ LeasedReady(v.p)
  BY DEF Sound, Typed, Rested
<1>2. /\ q \in Pool /\ q.on = v.p.on /\ q.leased = v.p.leased /\ ~q.lock
      /\ NoWorkers(q) /\ LeasedReady(q)
  BY <1>1, GoneIs
<1>3. x.u = v.u /\ x.s = v.s /\ x.p = q BY DEF View
<1> HIDE DEF x, q
<1>4. OneLoad(q) /\ OnActive(q, v.s) /\ LoadLocks(q) /\ Calm(q)
  BY <1>2 DEF NoWorkers, OneLoad, OnActive, LoadLocks, Calm
<1>5. Ready(x) BY <1>2, <1>3, <1>4 DEF Ready, Sound, Typed
<1>6. Link(v, x) BY <1>2, <1>3 DEF Link
<1> QED BY <1>3, <1>4, <1>5, <1>6 DEF x, q

-----------------------------------------------------------------------------
(* What the invariant says of the present view.                            *)
LEMMA HereIs ==
  ASSUME IInv
  PROVE  /\ upd \in Update /\ store \in Store /\ pool \in Pool
         /\ Usable(store) /\ Numbered(store)
         /\ OneLoad(pool) /\ OnActive(pool, store) /\ LeasedReady(pool)
         /\ Here.u = upd /\ Here.s = store /\ Here.p = pool
         /\ upd.pc \notin Evictings => LoadLocks(pool) /\ Ready(Here)
         /\ upd.pc \in Evictings => pool.lock /\ pool.on /\ NoWorkers(pool)
<1>1. Here.u = upd /\ Here.s = store /\ Here.p = pool BY DEF Here, View
<1> QED BY <1>1 DEF IInv, Sound, Rested, Typed, Ready

(* A view the job's code starts from, seen from the present state.         *)
Entered(v) ==
  /\ v.p.on = pool.on
  /\ v.p.leased = pool.leased
  /\ v.s.active = store.active
  /\ upd.owns => v.u.owns
  /\ man # None =>
       /\ v.s.made = store.made /\ v.s.ok \subseteq store.ok
       /\ store.made \in store.dirs => store.made \in v.s.dirs

(* A result of the job's code keeps the invariant.                         *)
LEMMA Resumes ==
  ASSUME IInv, NEW v, Entered(v), NEW w, Result(v, w), Becomes(w), man' = man
  PROVE  IInv' /\ Protected
<1>1. upd' = w.u /\ store' = w.s /\ pool' = w.p BY DEF Becomes
<1>2. Sound(Here)' /\ Rested(Here)'
  <2>1. (Here.u)' = w.u /\ (Here.s)' = w.s /\ (Here.p)' = w.p BY <1>1 DEF Here, View
  <2> QED BY <2>1 DEF Result, Sound, Typed, Rested
<1>3. Staging' /\ Spared'
  BY <1>1 DEF Entered, Result, Follows, Staging, Spared, IInv
<1>4. (man \in Slot \cup {None})' BY DEF IInv
<1>5. Protected BY <1>1 DEF Protected, Entered, Result, Follows
<1> QED BY <1>2, <1>3, <1>4, <1>5 DEF IInv

(* A step that leaves the job alone, outside an installation.              *)
LEMMA PoolKeeps ==
  ASSUME IInv, upd' = upd, store' = store, man' = man, pool' \in Pool,
         OneLoad(pool'), OnActive(pool', store), LeasedReady(pool'),
         upd.pc \notin Evictings => LoadLocks(pool'),
         upd.pc \in Evictings => pool'.lock /\ pool'.on /\ NoWorkers(pool')
  PROVE  IInv' /\ Protected
<1>1. (Here.u)' = upd /\ (Here.s)' = store /\ (Here.p)' = pool' BY DEF Here, View
<1>2. Sound(Here)' BY <1>1, HereIs DEF Sound, Typed
<1>3. Rested(Here)' BY <1>1 DEF Rested
<1>4. Staging' /\ Spared' /\ (man \in Slot \cup {None})' BY DEF IInv, Staging, Spared
<1>5. Protected BY DEF Protected, Running, Suspended
<1> QED BY <1>2, <1>3, <1>4, <1>5 DEF IInv

(* A step of the management operations: the job and the pool's state that  *)
(* the invariant reads are given, the store is new.                        *)
LEMMA StoreKeeps ==
  ASSUME IInv, upd' = upd, store' \in Store, Usable(store'), Numbered(store'),
         man' \in Slot \cup {None}, Staging', Spared', pool' = pool,
         store'.active = store.active
  PROVE  IInv' /\ Protected
<1>1. (Here.u)' = upd /\ (Here.s)' = store' /\ (Here.p)' = pool BY DEF Here, View
<1>2. Sound(Here)' BY <1>1, HereIs DEF Sound, Typed, OnActive
<1>3. Rested(Here)' BY <1>1, HereIs DEF Rested
<1>4. Protected BY DEF Protected, Running, Suspended
<1> QED BY <1>2, <1>3, <1>4 DEF IInv

(* The job asks for the updater's lock, and makes a slot when it has it.   *)
LEMMA StageKeeps ==
  ASSUME IInv, NEW u \in Update, upd.owns => u.owns,
         upd.pc \in {"checking", "locking"}, Either(Stage(u))
  PROVE  IInv' /\ Protected
<1> DEFINE v == View(u, store, pool)
<1>1. PICK w \in Stage(u) : Becomes(w) /\ man' = man BY DEF Either
<1>2. v.u = u /\ v.s = store /\ v.p = pool BY DEF View
<1>3. Ready(v) /\ Entered(v)
  BY <1>2, HereIs DEF Ready, Sound, Typed, Entered, Evictings
<1>4. CASE Installing # {}
  <2>1. w = View([u EXCEPT !.pc = "locking"], store, pool) BY <1>1, <1>4 DEF Stage
  <2>2. [u EXCEPT !.pc = "locking"] \in Update /\ [u EXCEPT !.pc = "locking"].pc = "locking"
    BY DEF Update, Suspended
  <2>3. Result(v, w) BY <1>2, <1>3, <2>1, <2>2, SuspendsIs DEF Evictings
  <2> QED BY <1>1, <1>3, <2>3, Resumes
<1>5. CASE w = End(v, "failed", "none")
  BY <1>1, <1>3, <1>5, EndIs, Resumes
<1>6. CASE Installing = {} /\ NextSlot \in Slot
           /\ w = View([u EXCEPT !.pc = "installing", !.new = NextSlot], WithDir(store), pool)
  <2>1. /\ upd' = [u EXCEPT !.pc = "installing", !.new = NextSlot]
        /\ store' = WithDir(store) /\ pool' = pool
    BY <1>1, <1>6 DEF Becomes, View
  <2>2. upd' \in Update /\ upd'.pc = "installing" /\ upd'.new = NextSlot
    BY <1>6, <2>1 DEF Update, Suspended
  <2>3. store \in Store /\ Usable(store) /\ Numbered(store) /\ store.made \in Nat
    BY HereIs, BoundAssumption DEF Store
  <2>4. /\ store'.dirs = store.dirs \cup {NextSlot} /\ store'.made = NextSlot
        /\ store'.ok = store.ok /\ store'.active = store.active /\ store' \in Store
    <3>1. NextSlot \in Slot /\ NextSlot \in 0..MaxSlot BY <1>6, BoundAssumption DEF Slot
    <3>2. store' = [store EXCEPT !.dirs = @ \cup {NextSlot}, !.made = NextSlot]
      BY <2>1 DEF WithDir
    <3> HIDE DEF NextSlot
    <3> QED BY <2>3, <3>1, <3>2 DEF Store
  <2>5. man = None BY <1>6 DEF Installing
  <2>6. NextSlot # None /\ NextSlot \notin store.ok /\ NextSlot \in Nat
        /\ 1..store.made \subseteq 1..NextSlot /\ NextSlot \in 1..NextSlot
    BY <2>3 DEF NextSlot, Numbered, None
  <2>7. Usable(store') /\ Numbered(store')
    BY <2>3, <2>4, <2>6 DEF Usable, Numbered
  <2>8. Staging' /\ Spared' BY <1>1, <2>2, <2>4, <2>5, <2>6 DEF Staging, Spared
  <2>9. (Here.u)' = upd' /\ (Here.s)' = store' /\ (Here.p)' = pool' BY DEF Here, View
  <2>10. Sound(Here)' BY <2>1, <2>2, <2>4, <2>7, <2>9, HereIs DEF Sound, Typed, OnActive
  <2>11. Rested(Here)' BY <2>1, <2>2, <2>9, HereIs DEF Rested, Evictings
  <2>12. Protected BY <2>2, <2>4 DEF Protected
  <2> QED BY <1>1, <2>5, <2>8, <2>10, <2>11, <2>12 DEF IInv
<1> QED BY <1>1, <1>4, <1>5, <1>6 DEF Stage

(* PyPI's answer.                                                          *)
LEMMA CheckedKeeps == ASSUME IInv, Checked PROVE IInv' /\ Protected
<1>1. upd.pc = "checking" /\ Ready(Here) /\ Entered(Here)
  BY HereIs DEF Checked, Evictings, Entered
<1>2. PICK w \in {End(Here, "same", "none"), End(Here, "failed", "none")}
              \cup Stage([upd EXCEPT !.old = store.active]) : Becomes(w) /\ man' = man
  BY DEF Checked, Either
<1>3. CASE w \in {End(Here, "same", "none"), End(Here, "failed", "none")}
  BY <1>1, <1>2, <1>3, EndIs, Resumes
<1>4. CASE w \in Stage([upd EXCEPT !.old = store.active])
  <2>1. /\ [upd EXCEPT !.old = store.active] \in Update
        /\ [upd EXCEPT !.old = store.active].owns = upd.owns
    BY HereIs DEF Update, Store
  <2> QED BY <1>1, <1>2, <1>4, <2>1, StageKeeps DEF Either
<1> QED BY <1>2, <1>3, <1>4

(* A slot removed that nothing names, or one verified.                     *)
LEMMA SlotIs ==
  ASSUME NEW s \in Store, Usable(s), Numbered(s), NEW n \in Slot,
         n \in 1..s.made
  PROVE  /\ [s EXCEPT !.ok = @ \cup {n}] \in Store
         /\ Usable([s EXCEPT !.ok = @ \cup {n}]) /\ Numbered([s EXCEPT !.ok = @ \cup {n}])
         /\ [s EXCEPT !.ok = @ \cup {n}].dirs = s.dirs
         /\ [s EXCEPT !.ok = @ \cup {n}].active = s.active
         /\ [s EXCEPT !.ok = @ \cup {n}].made = s.made
         /\ Remove(s, {n}) \in Store
         /\ n # s.active => Usable(Remove(s, {n}))
         /\ Numbered(Remove(s, {n}))
         /\ Remove(s, {n}).active = s.active /\ Remove(s, {n}).made = s.made
         /\ Remove(s, {n}).dirs = s.dirs \ {n} /\ Remove(s, {n}).ok = s.ok \ {n}
<1> DEFINE a == [s EXCEPT !.ok = @ \cup {n}]
           b == Remove(s, {n})
<1>1. /\ a \in Store /\ a.dirs = s.dirs /\ a.ok = s.ok \cup {n} /\ a.active = s.active
      /\ a.made = s.made
  BY DEF Store
<1>2. /\ b \in Store /\ b.dirs = s.dirs \ {n} /\ b.ok = s.ok \ {n} /\ b.active = s.active
      /\ b.made = s.made
  BY DEF Store, Remove
<1> HIDE DEF a, b
<1>3. Usable(a) /\ Numbered(a) BY <1>1 DEF Usable, Numbered
<1>4. (n # s.active => Usable(b)) /\ Numbered(b) BY <1>2 DEF Usable, Numbered
<1> QED BY <1>1, <1>2, <1>3, <1>4 DEF a, b

(* The installation ended: the slot is verified or removed.                *)
LEMMA InstalledKeeps == ASSUME IInv, Installed PROVE IInv' /\ Protected
<1> DEFINE s == [store EXCEPT !.ok = @ \cup {upd.new}]
           v == View(upd, s, pool)
           g == View(upd, Remove(store, {upd.new}), pool)
<1>1. upd.pc = "installing" /\ man = None /\ upd.new # None /\ upd.new = store.made
      /\ upd.new \notin store.ok
  BY DEF Installed, IInv, Staging
<1>2. PICK w \in (IF upd.new \in store.dirs THEN Staged(v) ELSE {}) \cup {End(g, "failed", "none")} :
        Becomes(w) /\ man' = man
  BY DEF Installed, Either
<1>3. upd.new \in Slot /\ upd.new \in 1..store.made /\ store.active # upd.new
  BY <1>1, HereIs, BoundAssumption DEF Update, Store, Usable, Slot, None
<1>4. v.u = upd /\ v.s = s /\ v.p = pool
      /\ g.u = upd /\ g.s = Remove(store, {upd.new}) /\ g.p = pool
  BY DEF View
<1> HIDE DEF v, g
<1>5. Ready(v) /\ Entered(v)
  BY <1>1, <1>3, <1>4, SlotIs, HereIs
     DEF Ready, Sound, Typed, OnActive, Entered, Evictings
<1>6. Ready(g) /\ Entered(g)
  BY <1>1, <1>3, <1>4, SlotIs, HereIs
     DEF Ready, Sound, Typed, OnActive, Entered, Evictings
<1> QED BY <1>2, <1>5, <1>6, StagedIs, EndIs, Resumes DEF v, g

(* The other waits of the job.                                             *)
LEMMA WaitsKeep ==
  ASSUME IInv, Drained \/ Unlocked \/ Evicted \/ ProbeReturns \/ BackUnlocked \/ BackEvicted
  PROVE  IInv' /\ Protected
<1>1. Entered(Here) BY HereIs DEF Entered
<1>2. upd.result \in {"none", "same", "done", "failed", "cancelled"} BY HereIs DEF Update
<1>3. CASE Drained \/ Unlocked \/ ProbeReturns \/ BackUnlocked
  <2>1. Ready(Here) BY <1>3, HereIs DEF Drained, Unlocked, ProbeReturns, BackUnlocked, Evictings
  <2>2. PICK w : /\ Becomes(w) /\ man' = man
                 /\ \/ w \in UnloadEngine(Here)
                    \/ w \in Fail(Here, "failed")
                    \/ w \in Probed(Here)
                    \/ w = End(Here, upd.result, "failed")
                    \/ w \in Fail(Here, upd.result)
    <3>1. CASE Drained BY <3>1 DEF Drained, Either
    <3>2. CASE Unlocked BY <3>2 DEF Unlocked, Either
    <3>3. CASE ProbeReturns BY <3>3 DEF ProbeReturns, Either
    <3>4. CASE BackUnlocked BY <3>4 DEF BackUnlocked, Either
    <3> QED BY <1>3, <3>1, <3>2, <3>3, <3>4
  <2>3. Result(Here, w) BY <1>2, <2>1, <2>2, UnloadEngineIs, FailIs, ProbedIs, EndIs
  <2> QED BY <1>1, <2>2, <2>3, Resumes
<1>4. CASE Evicted \/ BackEvicted
  <2> DEFINE x == View(upd, store, Emptied(pool))
  <2>1. upd.pc \in Evictings BY <1>4 DEF Evicted, BackEvicted, Evictings
  <2>2. PICK w : /\ Becomes(w) /\ man' = man
                 /\ w \in SwitchOver(x) \/ w \in RolledBack(x)
    <3>1. CASE Evicted BY <3>1 DEF Evicted, Either
    <3>2. CASE BackEvicted BY <3>2 DEF BackEvicted, Either
    <3> QED BY <1>4, <3>1, <3>2
  <2>3. Targets(pool) \in SUBSET Model BY DEF Targets, InState
  <2>4. x = View(Here.u, Here.s, [Gone(Here.p, Targets(pool)) EXCEPT !.lock = FALSE])
    BY HereIs DEF Emptied
  <2> HIDE DEF x
  <2>5. Ready(x) /\ Calm(x.p) /\ Link(Here, x)
    <3>1. Sound(Here) /\ Rested(Here) /\ Here.u.pc \in Evictings
      BY <2>1, HereIs DEF IInv
    <3> QED BY <2>3, <2>4, <3>1, AfterEviction
  <2>6. Result(x, w) BY <2>2, <2>5, SwitchOverIs, RolledBackIs
  <2> QED BY <1>1, <2>2, <2>5, <2>6, Chained, Resumes
<1> QED BY <1>3, <1>4

(* A cancellation, wherever the job is suspended.                          *)
LEMMA CancelKeeps == ASSUME IInv, Cancel PROVE IInv' /\ Protected
<1> DEFINE u == [upd EXCEPT !.cancels = @ + 1]
           v == View(u, store, pool)
<1>1. PICK w \in Cancelled(v) : Becomes(w) /\ man' = man BY DEF Cancel, Either
<1>2. /\ u \in Update /\ u.pc = upd.pc /\ u.owns = upd.owns /\ u.new = upd.new
      /\ upd.pc \in Suspended
  <2>1. upd \in Update BY HereIs
  <2>2. upd.cancels + 1 \in 0..MaxCancel BY <2>1, BoundAssumption DEF Cancel, Update
  <2> QED BY <2>1, <2>2 DEF Update, Cancel, Running
<1>3. v.u = u /\ v.s = store /\ v.p = pool BY DEF View
<1> HIDE DEF u, v
<1>4. Entered(v) BY <1>2, <1>3 DEF Entered
<1>5. Sound(v) BY <1>2, <1>3, HereIs DEF Sound, Typed
<1>6. CASE upd.pc \in {"checking", "locking", "draining", "unlocking", "probing"}
  <2>1. w \in Fail(v, "cancelled") BY <1>1, <1>2, <1>3, <1>6 DEF Cancelled
  <2>2. Ready(v) BY <1>3, <1>5, <1>6, HereIs DEF Ready, Evictings
  <2> QED BY <1>1, <1>4, <2>1, <2>2, FailIs, Resumes
<1>7. CASE upd.pc = "installing"
  <2> DEFINE x == View(u, Remove(store, {upd.new}), pool)
  <2>1. w \in Fail(x, "cancelled") BY <1>1, <1>2, <1>3, <1>7 DEF Cancelled
  <2>2. x.u = u /\ x.s = Remove(store, {upd.new}) /\ x.p = pool BY DEF View
  <2>3. man = None /\ upd.new # None /\ upd.new = store.made /\ upd.new \notin store.ok
    BY <1>7 DEF IInv, Staging
  <2>4. upd.new \in Slot /\ upd.new \in 1..store.made /\ store.active # upd.new
    BY <2>3, HereIs, BoundAssumption DEF Update, Store, Usable, Slot, None
  <2> HIDE DEF x
  <2>5. Ready(x) /\ Entered(x)
    <3> DEFINE s == Remove(store, {upd.new})
    <3>1. s \in Store /\ Usable(s) /\ Numbered(s) /\ s.active = store.active
      BY <2>4, SlotIs, HereIs
    <3> HIDE DEF s
    <3>2. x.s = s BY <2>2 DEF s
    <3>3. LoadLocks(pool) BY <1>7, HereIs DEF Evictings
    <3>4. Ready(x)
      BY <1>2, <2>2, <3>1, <3>2, <3>3, HereIs DEF Ready, Sound, Typed, OnActive
    <3>5. Entered(x) BY <1>2, <2>2, <2>3, <3>1, <3>2 DEF Entered
    <3> QED BY <3>4, <3>5
  <2> QED BY <1>1, <2>1, <2>5, FailIs, Resumes
<1>8. CASE upd.pc \in Evictings
  <2>1. Rested(v) BY <1>2, <1>3, HereIs DEF Rested, IInv
  <2>2. PICK S \in SUBSET InState(pool, {"evicting"}) :
          LET q == [Gone(pool, S) EXCEPT !.lock = FALSE]
          IN  \/ w \in Fail(View(u, store, q), "cancelled")
              \/ upd.pc = "backEvicting" /\ w = View(Outcome("cancelled", "broken"), store, q)
    <3>1. CASE upd.pc = "evicting"
      <4>1. w \in UNION {Fail(View(u, store, p), "cancelled") : p \in HalfEvicted(pool)}
        BY <1>1, <1>2, <1>3, <3>1 DEF Cancelled
      <4> QED BY <4>1 DEF HalfEvicted
    <3>2. CASE upd.pc = "backEvicting"
      <4>1. w \in {View(Outcome("cancelled", "broken"), store, p) : p \in HalfEvicted(pool)}
        BY <1>1, <1>2, <1>3, <3>2 DEF Cancelled
      <4> QED BY <3>2, <4>1 DEF HalfEvicted
    <3> QED BY <1>8, <3>1, <3>2 DEF Evictings
  <2> DEFINE q == [Gone(pool, S) EXCEPT !.lock = FALSE]
             x == View(u, store, q)
  <2>3. S \in SUBSET Model BY DEF InState
  <2>4. Ready(x) /\ Link(v, x)
    <3>1. x = View(v.u, v.s, [Gone(v.p, S) EXCEPT !.lock = FALSE]) BY <1>3
    <3>2. v.u.pc \in Evictings BY <1>2, <1>3, <1>8
    <3> HIDE DEF x
    <3> QED BY <1>5, <2>1, <2>3, <3>1, <3>2, AfterEviction
  <2>5. CASE w \in Fail(x, "cancelled")
    BY <1>1, <1>4, <2>4, <2>5, FailIs, Chained, Resumes
  <2>6. CASE w = View(Outcome("cancelled", "broken"), store, q)
    <3>1. w.u = Outcome("cancelled", "broken") /\ w.s = x.s /\ w.p = x.p BY <2>6 DEF View
    <3>2. w.u \in Update /\ w.u.pc = "ended" /\ w.u.rollback = "broken"
      <4>1. w.u = [NoUpdate EXCEPT !.pc = "ended", !.rollback = "broken", !.result = "cancelled"]
        BY <3>1 DEF Outcome
      <4>2. NoUpdate \in Update BY BoundAssumption DEF NoUpdate, Update, None
      <4> QED BY <4>1, <4>2 DEF Update
    <3> HIDE DEF x, q
    <3>3. Sound(w) BY <2>4, <3>1, <3>2 DEF Ready, Sound, Typed
    <3>4. Rested(w) BY <2>4, <3>1, <3>2 DEF Ready, Rested, Evictings
    <3>5. Follows(x, w) BY <3>1, <3>2 DEF Follows
    <3>6. Result(x, w) BY <3>2, <3>3, <3>4, <3>5 DEF Result
    <3> QED BY <1>1, <1>4, <2>4, <3>6, Chained, Resumes
  <2> QED BY <2>2, <2>5, <2>6
<1>9. CASE upd.pc = "backUnlocking"
  <2>1. w = View(Outcome("cancelled", "broken"), store, pool)
    BY <1>1, <1>2, <1>3, <1>9 DEF Cancelled
  <2>2. w.u = Outcome("cancelled", "broken") /\ w.s = store /\ w.p = pool BY <2>1 DEF View
  <2>3. w.u \in Update /\ w.u.pc = "ended" /\ w.u.rollback = "broken"
    <3>1. w.u = [NoUpdate EXCEPT !.pc = "ended", !.rollback = "broken", !.result = "cancelled"]
      BY <2>2 DEF Outcome
    <3>2. NoUpdate \in Update BY BoundAssumption DEF NoUpdate, Update, None
    <3> QED BY <3>1, <3>2 DEF Update
  <2>4. LoadLocks(pool) BY <1>9, HereIs DEF Evictings
  <2>5. Sound(w) BY <2>2, <2>3, HereIs DEF Sound, Typed
  <2>6. Rested(w) BY <2>2, <2>3, <2>4 DEF Rested, Evictings
  <2>7. Follows(v, w) BY <1>3, <2>2, <2>3 DEF Follows
  <2>8. Result(v, w) BY <2>3, <2>5, <2>6, <2>7 DEF Result
  <2> QED BY <1>1, <1>4, <2>8, Resumes
<1> QED BY <1>2, <1>6, <1>7, <1>8, <1>9 DEF Suspended, Evictings

-----------------------------------------------------------------------------
(* A new job of an engine without one.                                     *)
LEMMA StartUpdateKeeps == ASSUME IInv, StartUpdate PROVE IInv' /\ Protected
<1>1. upd' \in Update /\ upd'.pc = "checking"
  <2>1. NoUpdate \in Update BY BoundAssumption DEF NoUpdate, Update, None
  <2> QED BY <2>1 DEF StartUpdate, Update, Suspended
<1>2. store' = store /\ man' = man /\ pool' = pool /\ upd.pc \notin Suspended
  BY DEF StartUpdate, Running
<1>3. (Here.u)' = upd' /\ (Here.s)' = store /\ (Here.p)' = pool BY <1>2 DEF Here, View
<1>4. Sound(Here)' BY <1>1, <1>3, HereIs DEF Sound, Typed
<1>5. Rested(Here)' BY <1>1, <1>2, <1>3, HereIs DEF Rested, Evictings, Suspended
<1>6. Staging' /\ Spared' /\ (man \in Slot \cup {None})'
  BY <1>1, <1>2 DEF IInv, Staging, Spared
<1>7. Protected BY <1>1, <1>2 DEF Protected
<1> QED BY <1>4, <1>5, <1>6, <1>7 DEF IInv

(* The manual stage job.                                                   *)
LEMMA StageJobKeeps == ASSUME IInv, StartStage \/ EndStage PROVE IInv' /\ Protected
<1>1. store \in Store /\ Usable(store) /\ Numbered(store) /\ store.made \in 0..MaxSlot
  BY HereIs DEF Store
<1>2. CASE StartStage
  <2>1. /\ NextSlot \in Slot /\ upd' = upd /\ pool' = pool /\ man' = NextSlot
        /\ store' = WithDir(store) /\ Installing = {}
    BY <1>2 DEF StartStage
  <2>2. NextSlot \in 0..MaxSlot BY <2>1, BoundAssumption DEF Slot
  <2>3. /\ store' \in Store /\ store'.dirs = store.dirs \cup {NextSlot}
        /\ store'.made = NextSlot /\ store'.ok = store.ok /\ store'.active = store.active
    <3> HIDE DEF NextSlot
    <3> QED BY <1>1, <2>1, <2>2 DEF WithDir, Store
  <2>4. /\ NextSlot \notin store.ok /\ 1..store.made \subseteq 1..NextSlot
        /\ NextSlot \in 1..NextSlot
    BY <1>1, BoundAssumption DEF NextSlot, Numbered
  <2>5. upd.pc # "installing" BY <2>1 DEF Installing, IInv, Staging
  <2>6. Usable(store') /\ Numbered(store') BY <1>1, <2>3, <2>4 DEF Usable, Numbered
  <2>7. Staging' /\ Spared' BY <2>1, <2>3, <2>4, <2>5 DEF Staging, Spared
  <2> HIDE DEF NextSlot
  <2> QED BY <2>1, <2>3, <2>6, <2>7, StoreKeeps
<1>3. CASE EndStage
  <2>1. /\ man # None /\ man \in Slot /\ man = store.made /\ man \notin store.ok
        /\ upd.pc # "installing" /\ man \in 1..store.made /\ man # store.active
    BY <1>1, <1>3, BoundAssumption DEF EndStage, IInv, Staging, Slot, None, Usable
  <2>2. upd' = upd /\ pool' = pool /\ man' = None BY <1>3 DEF EndStage
  <2>3. store' = [store EXCEPT !.ok = @ \cup {man}] \/ store' = Remove(store, {man})
    BY <1>3 DEF EndStage
  <2>4. store' \in Store /\ Usable(store') /\ Numbered(store') /\ store'.active = store.active
    <3> DEFINE s == [store EXCEPT !.ok = @ \cup {man}]
    <3>1. /\ s \in Store /\ Usable(s) /\ Numbered(s) /\ s.active = store.active
      BY <1>1, <2>1, SlotIs
    <3>2. /\ Remove(store, {man}) \in Store /\ Usable(Remove(store, {man}))
          /\ Numbered(Remove(store, {man})) /\ Remove(store, {man}).active = store.active
      BY <1>1, <2>1, SlotIs
    <3>3. CASE store' = s
      <4> HIDE DEF s
      <4> QED BY <3>1, <3>3
    <3>4. CASE store' = Remove(store, {man}) BY <3>2, <3>4
    <3> QED BY <2>3, <3>3, <3>4
  <2>5. Staging' /\ Spared' BY <2>1, <2>2 DEF Staging, Spared
  <2> QED BY <2>2, <2>4, <2>5, StoreKeeps
<1> QED BY <1>2, <1>3

(* A slot deleted while no job runs is not the active one.                 *)
LEMMA DeletedIs ==
  ASSUME IInv, NEW n \in Slot, Deletable(n)
  PROVE  /\ Remove(store, {n}) \in Store /\ Usable(Remove(store, {n}))
         /\ Numbered(Remove(store, {n})) /\ Remove(store, {n}).active = store.active
         /\ man = None /\ upd.pc \notin Suspended
<1>1. n \in store.dirs /\ n # store.active /\ man = None /\ upd.pc \notin Suspended
  BY DEF Deletable, Running
<1>2. store \in Store /\ Usable(store) /\ Numbered(store) BY HereIs
<1>3. n \in 1..store.made BY <1>1, <1>2 DEF Numbered
<1> QED BY <1>1, <1>2, <1>3, SlotIs

(* runtime_delete_slot.                                                    *)
LEMMA DeleteKeeps == ASSUME IInv, NEW n \in Slot, Delete(n) PROVE IInv' /\ Protected
<1> DEFINE s == Remove(store, {n})
<1>1. /\ s \in Store /\ Usable(s) /\ Numbered(s) /\ s.active = store.active
      /\ man = None /\ upd.pc \notin Suspended
  BY DeletedIs DEF Delete
<1>2. upd' = upd /\ man' = man /\ pool' = pool BY DEF Delete
<1>3. store' = [s EXCEPT !.prev = IF @ = n THEN None ELSE @] BY DEF Delete
<1> HIDE DEF s
<1>4. /\ store' \in Store /\ store'.dirs = s.dirs /\ store'.ok = s.ok /\ store'.made = s.made
      /\ store'.active = s.active
  BY <1>1, <1>3 DEF Store
<1>5. Usable(store') /\ Numbered(store') BY <1>1, <1>4 DEF Usable, Numbered
<1>6. Staging' /\ Spared' /\ man' \in Slot \cup {None}
  BY <1>1, <1>2 DEF Staging, Spared, Suspended
<1> QED BY <1>1, <1>2, <1>4, <1>5, <1>6, StoreKeeps

(* runtime_activate and runtime_rollback: nobody is loaded at the switch.  *)
LEMMA SwitchKeeps ==
  ASSUME IInv, ManualRollback \/ \E n \in Slot : ManualActivate(n)
  PROVE  IInv' /\ Protected
<1> DEFINE S == InState(pool, {"ready", "evicting"})
<1>1. /\ upd' = upd /\ man' = man /\ ~pool.lock /\ pool.leased = {}
      /\ pool' = Gone(pool, S)
  BY DEF ManualRollback, ManualActivate, UnloadAll
<1>2. PICK n \in Slot : store' = store \/ store' = Activate(store, n)
  <2>1. store \in Store BY HereIs
  <2>2. CASE ManualRollback
    <3>1. CASE store.prev = None
      <4>1. 1 \in Slot BY BoundAssumption DEF Slot
      <4> QED BY <2>2, <3>1, <4>1 DEF ManualRollback
    <3>2. CASE store.prev # None
      <4>1. store.prev \in Slot BY <2>1, <3>2 DEF Store
      <4> QED BY <2>2, <3>2, <4>1 DEF ManualRollback
    <3> QED BY <3>1, <3>2
  <2> QED BY <2>2 DEF ManualActivate
<1>3. /\ store' \in Store /\ store'.dirs = store.dirs /\ store'.ok = store.ok
      /\ store'.made = store.made /\ Usable(store') /\ Numbered(store')
  <2>1. store \in Store /\ Usable(store) /\ Numbered(store) BY HereIs
  <2>2. CASE ~Verified(store, n) \/ store' = store BY <1>2, <2>1, <2>2 DEF Activate
  <2>3. CASE Verified(store, n) /\ store' = [store EXCEPT !.active = n, !.prev = store.active]
    <3>1. /\ store' \in Store /\ store'.dirs = store.dirs /\ store'.ok = store.ok
          /\ store'.made = store.made /\ store'.active = n
      BY <2>1, <2>3 DEF Store
    <3> QED BY <2>1, <2>3, <3>1 DEF Usable, Numbered, Verified
  <2> QED BY <1>2, <2>2, <2>3 DEF Activate
<1>4. pool \in Pool /\ OneLoad(pool) /\ S \in SUBSET Model BY HereIs DEF InState
<1>5. /\ pool'.st = With(pool.st, S, "absent") /\ pool'.run = With(pool.run, S, None)
      /\ pool'.pinned = pool.pinned \ S /\ pool'.leased = {} /\ pool'.lock = pool.lock
      /\ pool'.on = pool.on /\ pool'.maint = pool.maint
  BY <1>1, <1>4 DEF Gone, Pool
<1>6. NoWorkers(pool')
  BY <1>1, <1>4, <1>5 DEF NoWorkers, With, OneLoad, InState
<1>7. pool' \in Pool
  <2>1. pool'.st \in [Model -> Residency] BY <1>4, <1>5 DEF With, Pool, Residency
  <2>2. pool'.run \in [Model -> Slot \cup {None}] BY <1>4, <1>5 DEF With, Pool
  <2> QED BY <1>1, <1>4, <1>5, <2>1, <2>2 DEF Gone, Pool
<1>8. (Here.u)' = upd /\ (Here.s)' = store' /\ (Here.p)' = pool' BY <1>1 DEF Here, View
<1>9. OneLoad(pool') /\ OnActive(pool', store') /\ LeasedReady(pool') /\ LoadLocks(pool')
  BY <1>1, <1>5, <1>6 DEF NoWorkers, OneLoad, OnActive, LeasedReady, LoadLocks
<1>10. upd \in Update /\ upd.pc \notin Evictings BY <1>1, HereIs
<1>11. Sound(Here)' BY <1>3, <1>7, <1>8, <1>9, <1>10 DEF Sound, Typed
<1>12. Rested(Here)' BY <1>8, <1>9, <1>10 DEF Rested
<1>13. Staging' /\ Spared' /\ (man \in Slot \cup {None})'
  BY <1>1, <1>3 DEF IInv, Staging, Spared
<1>14. Protected BY <1>1 DEF Protected, Running, Suspended
<1> QED BY <1>11, <1>12, <1>13, <1>14 DEF IInv

-----------------------------------------------------------------------------
(* A request for a load, or for the other of its two outcomes.             *)
LEMMA WantKeeps ==
  ASSUME IInv, NEW m \in Model, NEW pin \in BOOLEAN, WantLoad(m, pin)
  PROVE  IInv' /\ Protected
<1>1. /\ pool \in Pool /\ OneLoad(pool) /\ OnActive(pool, store) /\ LeasedReady(pool)
  BY HereIs
<1>2. /\ pool'.st = [pool.st EXCEPT ![m] = "wanted"] /\ pool'.run = [pool.run EXCEPT ![m] = None]
      /\ pool'.on = pool.on /\ pool'.lock = pool.lock /\ pool'.leased = pool.leased
      /\ pool' \in Pool
      /\ upd' = upd /\ store' = store /\ man' = man /\ pool.st[m] \in {"absent", "evicting"}
  BY <1>1 DEF WantLoad, Pool, Residency
<1>3. \A n \in Model : /\ pool'.st[n] = (IF n = m THEN "wanted" ELSE pool.st[n])
                       /\ n # m => pool'.run[n] = pool.run[n]
  BY <1>1, <1>2 DEF Pool
<1>4. OneLoad(pool') /\ OnActive(pool', store) /\ (LoadLocks(pool) => LoadLocks(pool'))
      /\ (NoWorkers(pool) => NoWorkers(pool'))
  BY <1>1, <1>2, <1>3 DEF OneLoad, OnActive, LoadLocks, NoWorkers
<1>5. LeasedReady(pool') BY <1>1, <1>2, <1>3 DEF LeasedReady, Pool
<1> QED BY <1>2, <1>4, <1>5, HereIs, PoolKeeps

(* A load begins under the lock, on the active runtime.                    *)
LEMMA StartLoadKeeps ==
  ASSUME IInv, NEW m \in Model, StartLoad(m)
  PROVE  IInv' /\ Protected
<1>1. /\ pool \in Pool /\ OneLoad(pool) /\ OnActive(pool, store) /\ LeasedReady(pool)
      /\ ~pool.lock /\ pool.st[m] = "wanted" /\ upd.pc \notin Evictings
  BY HereIs DEF StartLoad
<1>2. upd' = upd /\ store' = store /\ man' = man BY DEF StartLoad
<1>3. CASE store.active = None
  <2>1. /\ pool'.st = With(pool.st, {m}, "absent") /\ pool'.run = With(pool.run, {m}, None)
        /\ pool'.pinned = pool.pinned \ {m} /\ pool'.on = pool.on /\ ~pool'.lock
        /\ pool'.leased = pool.leased /\ pool'.maint = pool.maint
    BY <1>1, <1>3 DEF StartLoad, Gone, Pool
  <2>2. pool' \in Pool
    <3>1. pool'.st \in [Model -> Residency] BY <1>1, <2>1 DEF With, Pool, Residency
    <3>2. pool'.run \in [Model -> Slot \cup {None}] BY <1>1, <2>1 DEF With, Pool
    <3> QED BY <1>1, <1>3, <2>1, <3>1, <3>2 DEF StartLoad, Gone, Pool
  <2>3. \A n \in Model : /\ pool'.st[n] = (IF n = m THEN "absent" ELSE pool.st[n])
                         /\ n # m => pool'.run[n] = pool.run[n]
    BY <2>1 DEF With
  <2>4. OneLoad(pool') /\ OnActive(pool', store) /\ LoadLocks(pool')
    BY <1>1, <2>1, <2>3 DEF OneLoad, OnActive, LoadLocks
  <2>5. LeasedReady(pool') BY <1>1, <2>1, <2>3 DEF LeasedReady, Pool
  <2> QED BY <1>1, <1>2, <2>2, <2>4, <2>5, PoolKeeps
<1>4. CASE store.active # None
  <2>1. pool' = [pool EXCEPT !.st[m] = "loading", !.run[m] = store.active, !.lock = TRUE]
    BY <1>4 DEF StartLoad
  <2>2. store.active \in Slot \cup {None} BY HereIs DEF Store
  <2>3. /\ pool'.st = [pool.st EXCEPT ![m] = "loading"]
        /\ pool'.run = [pool.run EXCEPT ![m] = store.active]
        /\ pool'.on = pool.on /\ pool'.lock /\ pool'.leased = pool.leased /\ pool' \in Pool
    BY <1>1, <2>1, <2>2 DEF Pool, Residency
  <2>4. \A n \in Model : /\ pool'.st[n] = (IF n = m THEN "loading" ELSE pool.st[n])
                         /\ pool'.run[n] = (IF n = m THEN store.active ELSE pool.run[n])
    BY <1>1, <2>3 DEF Pool
  <2>5. OneLoad(pool') /\ OnActive(pool', store) /\ LoadLocks(pool')
    BY <1>1, <2>3, <2>4 DEF OneLoad, OnActive, LoadLocks
  <2>6. LeasedReady(pool') BY <1>1, <2>3, <2>4 DEF LeasedReady, Pool
  <2> QED BY <1>1, <1>2, <2>3, <2>5, <2>6, PoolKeeps
<1> QED BY <1>3, <1>4

(* It ends, with the model or without: nobody else is loading.             *)
LEMMA EndLoadKeeps ==
  ASSUME IInv, NEW m \in Model, EndLoad(m)
  PROVE  IInv' /\ Protected
<1>1. /\ pool \in Pool /\ OneLoad(pool) /\ OnActive(pool, store) /\ LeasedReady(pool)
      /\ pool.st[m] = "loading"
  BY HereIs DEF EndLoad
<1>2. upd' = upd /\ store' = store /\ man' = man /\ upd.pc \notin Evictings
  BY <1>1, HereIs DEF EndLoad, NoWorkers
<1>3. /\ pool' \in Pool /\ pool'.on = pool.on /\ ~pool'.lock /\ pool'.leased = pool.leased
      /\ \A n \in Model : n # m => pool'.st[n] = pool.st[n] /\ pool'.run[n] = pool.run[n]
      /\ \/ pool'.st[m] = "ready" /\ pool'.run[m] = pool.run[m]
         \/ pool'.st[m] = "absent"
  <2>1. CASE pool' = [pool EXCEPT !.st[m] = "ready", !.lock = FALSE]
    <3>1. /\ pool'.st = [pool.st EXCEPT ![m] = "ready"] /\ pool'.run = pool.run
          /\ pool'.on = pool.on /\ ~pool'.lock /\ pool'.leased = pool.leased /\ pool' \in Pool
      BY <1>1, <2>1 DEF Pool, Residency
    <3> QED BY <1>1, <3>1 DEF Pool
  <2>2. CASE pool' = [Gone(pool, {m}) EXCEPT !.lock = FALSE]
    <3>1. /\ pool'.st = With(pool.st, {m}, "absent") /\ pool'.run = With(pool.run, {m}, None)
          /\ pool'.pinned = pool.pinned \ {m} /\ pool'.on = pool.on /\ ~pool'.lock
          /\ pool'.leased = pool.leased /\ pool'.maint = pool.maint
      BY <1>1, <2>2 DEF Gone, Pool
    <3>2. pool'.st \in [Model -> Residency] BY <1>1, <3>1 DEF With, Pool, Residency
    <3>3. pool'.run \in [Model -> Slot \cup {None}] BY <1>1, <3>1 DEF With, Pool
    <3>4. pool' \in Pool BY <1>1, <2>2, <3>1, <3>2, <3>3 DEF Gone, Pool
    <3> QED BY <3>1, <3>4 DEF With
  <2> QED BY <2>1, <2>2 DEF EndLoad
<1>4. \A n \in Model : pool'.st[n] # "loading"
  BY <1>1, <1>3 DEF OneLoad
<1>5. OneLoad(pool') /\ LoadLocks(pool') BY <1>3, <1>4 DEF OneLoad, LoadLocks
<1>6. OnActive(pool', store) BY <1>1, <1>3 DEF OnActive
<1>7. LeasedReady(pool') BY <1>1, <1>3 DEF LeasedReady, Pool
<1> QED BY <1>2, <1>3, <1>5, <1>6, <1>7, PoolKeeps

(* Requests lease ready models and return them.                            *)
LEMMA LeaseKeeps ==
  ASSUME IInv, NEW m \in Model, Lease(m) \/ Return(m)
  PROVE  IInv' /\ Protected
<1>1. /\ pool \in Pool /\ OneLoad(pool) /\ OnActive(pool, store) /\ LeasedReady(pool)
  BY HereIs
<1>2. PICK S \in SUBSET Model : pool' = [pool EXCEPT !.leased = S]
                             /\ \A n \in S : n \in pool.leased \/ (n = m /\ pool.st[m] = "ready")
  <2>1. CASE Lease(m)
    <3> DEFINE S == pool.leased \cup {m}
    <3>1. pool' = [pool EXCEPT !.leased = S] BY <2>1 DEF Lease
    <3>2. S \in SUBSET Model BY <1>1 DEF Pool
    <3>3. \A n \in S : n \in pool.leased \/ (n = m /\ pool.st[m] = "ready")
      BY <2>1 DEF Lease
    <3> HIDE DEF S
    <3> QED BY <3>1, <3>2, <3>3
  <2>2. CASE Return(m)
    <3> DEFINE S == pool.leased \ {m}
    <3>1. pool' = [pool EXCEPT !.leased = S] BY <2>2 DEF Return
    <3>2. S \in SUBSET Model BY <1>1 DEF Pool
    <3>3. \A n \in S : n \in pool.leased OBVIOUS
    <3> HIDE DEF S
    <3> QED BY <3>1, <3>2, <3>3
  <2> QED BY <2>1, <2>2
<1>3. /\ pool' \in Pool /\ pool'.st = pool.st /\ pool'.run = pool.run /\ pool'.lock = pool.lock
      /\ pool'.on = pool.on /\ pool'.leased = S
  BY <1>1, <1>2 DEF Pool
<1>4. LeasedReady(pool') BY <1>1, <1>2, <1>3 DEF LeasedReady
<1>5. OneLoad(pool') /\ OnActive(pool', store) /\ (LoadLocks(pool) => LoadLocks(pool'))
      /\ (NoWorkers(pool) => NoWorkers(pool'))
  BY <1>1, <1>3 DEF OneLoad, OnActive, LoadLocks, NoWorkers
<1>6. upd' = upd /\ store' = store /\ man' = man BY DEF Lease, Return
<1> QED BY <1>3, <1>4, <1>5, <1>6, HereIs, PoolKeeps

(* The empty pool of a coordinator that has just started.                  *)
LEMMA NewPoolIs ==
  ASSUME NEW on \in Enabled
  PROVE  /\ NewPool(on) \in Pool
         /\ \A s : OnActive(NewPool(on), s)
         /\ OneLoad(NewPool(on)) /\ LeasedReady(NewPool(on)) /\ LoadLocks(NewPool(on))
<1>1. NewPool(on) \in Pool BY DEF NewPool, Pool, Residency
<1>2. \A m \in Model : NewPool(on).st[m] = "absent" BY DEF NewPool
<1>3. NewPool(on).leased = {} /\ ~NewPool(on).lock BY DEF NewPool
<1> QED BY <1>1, <1>2, <1>3 DEF OnActive, OneLoad, LeasedReady, LoadLocks

(* The coordinator dies and restarts, with or without a slot deleted.      *)
LEMMA CrashKeeps == ASSUME IInv, Crash PROVE IInv' /\ Protected
<1>1. upd' = NoUpdate /\ man' = None /\ pool' = NewPool(pool.on) BY DEF Crash
<1>2. store' \in Store /\ Usable(store') /\ Numbered(store') /\ store'.active = store.active
  <2>1. CASE store' = store BY <2>1, HereIs
  <2>2. ASSUME NEW n \in Slot, Deletable(n), store' = Remove(store, {n})
        PROVE  store' \in Store /\ Usable(store') /\ Numbered(store') /\ store'.active = store.active
    BY <2>2, DeletedIs
  <2> QED BY <2>1, <2>2 DEF Crash
<1>3. pool.on \in Enabled BY HereIs DEF Pool
<1>4. upd' \in Update /\ upd'.pc = "idle" BY <1>1, BoundAssumption DEF NoUpdate, Update, None
<1>5. (Here.u)' = upd' /\ (Here.s)' = store' /\ (Here.p)' = pool' BY DEF Here, View
<1>6. Sound(Here)' BY <1>1, <1>2, <1>3, <1>4, <1>5, NewPoolIs DEF Sound, Typed
<1>7. Rested(Here)' BY <1>1, <1>3, <1>4, <1>5, NewPoolIs DEF Rested, Evictings
<1>8. Staging' /\ Spared' BY <1>1, <1>4 DEF Staging, Spared
<1>9. Protected BY <1>2, <1>4 DEF Protected
<1> QED BY <1>1, <1>6, <1>7, <1>8, <1>9 DEF IInv

-----------------------------------------------------------------------------
(* The initial states.                                                     *)
LEMMA InitSound == Init => IInv
<1> SUFFICES ASSUME Init PROVE IInv
  OBVIOUS
<1>1. PICK S \in {{}, {1}} : store = [dirs |-> S, ok |-> S, active |-> Cardinality(S),
                                     prev |-> None, made |-> Cardinality(S)]
  BY DEF Init
<1>2. PICK on \in Enabled : pool = NewPool(on) BY DEF Init
<1>3. upd = NoUpdate /\ man = None BY DEF Init
<1>4. store \in Store /\ Usable(store) /\ Numbered(store)
  <2>1. 1 \in Slot /\ 0 \in 0..MaxSlot /\ 1 \in 0..MaxSlot BY BoundAssumption DEF Slot
  <2>2. CASE S = {}
    <3>1. Cardinality(S) = 0 BY <2>2, FS_EmptySet
    <3> QED BY <1>1, <2>1, <2>2, <3>1 DEF Store, Usable, Numbered, None
  <2>3. CASE S = {1}
    <3>1. Cardinality(S) = 1 BY <2>3, FS_Singleton
    <3> QED BY <1>1, <2>1, <2>3, <3>1 DEF Store, Usable, Numbered, None
  <2> QED BY <2>2, <2>3
<1>5. upd \in Update /\ upd.pc = "idle" BY <1>3, BoundAssumption DEF NoUpdate, Update, None
<1>6. Here.u = upd /\ Here.s = store /\ Here.p = pool BY DEF Here, View
<1>7. Sound(Here) BY <1>2, <1>4, <1>5, <1>6, NewPoolIs DEF Sound, Typed
<1>8. Rested(Here) BY <1>2, <1>5, <1>6, NewPoolIs DEF Rested, Evictings
<1> QED BY <1>3, <1>5, <1>7, <1>8 DEF IInv, Staging, Spared

(* Every step keeps the invariant and the protection of the residents.     *)
LEMMA StepKeeps == ASSUME IInv, [Next]_vars PROVE IInv' /\ (Protected \/ UNCHANGED vars)
<1>1. CASE UpdateStep
  <2>1. CASE Locked
    <3>1. upd \in Update BY HereIs
    <3> QED BY <2>1, <3>1, StageKeeps DEF Locked
  <2> QED BY <1>1, <2>1, CheckedKeeps, InstalledKeeps, WaitsKeep DEF UpdateStep
<1>2. ASSUME NEW m \in Model, PoolStep(m) PROVE IInv' /\ Protected
  BY <1>2, WantKeeps, StartLoadKeeps, EndLoadKeeps, LeaseKeeps DEF PoolStep
<1>3. CASE UNCHANGED vars
  <2>1. IInv' = IInv
    BY <1>3 DEF vars, IInv, Here, Sound, Rested, Staging, Spared, Typed, View
  <2> QED BY <1>3, <2>1
<1> QED BY <1>1, <1>2, <1>3, StartUpdateKeeps, CancelKeeps, StageJobKeeps, SwitchKeeps,
          DeleteKeeps, CrashKeeps DEF Next

(* The store, the jobs and the pool keep their types.                      *)
THEOREM TypeCorrect == Spec => []TypeOK
<1>1. IInv => TypeOK BY HereIs DEF TypeOK, IInv
<1> QED BY <1>1, InitSound, StepKeeps, PTL DEF Spec

(* Keeping three runtime slots or more: the engine always has a usable     *)
(* runtime, its residents run it, the load lock has a holder and the       *)
(* directory of an installation stays.                                     *)
THEOREM RuntimeIsSound == ASSUME Keep > 2 PROVE Spec => []RuntimeSound
<1>1. IInv => RuntimeSound
  <2> SUFFICES ASSUME IInv PROVE RuntimeSound
    OBVIOUS
  <2>1. ActiveUsable BY HereIs DEF ActiveUsable, Usable, Verified
  <2>2. ResidentsRunActive BY HereIs DEF ResidentsRunActive, OnActive, InState
  <2>3. LockOwned BY HereIs DEF LockOwned, LoadLocks, Evictings, InState
  <2>4. StagingKept BY DEF IInv, Spared, StagingKept, Installing
  <2> QED BY <2>1, <2>2, <2>3, <2>4 DEF RuntimeSound
<1> QED BY <1>1, InitSound, StepKeeps, PTL DEF Spec

(* The runtime is not switched under a lease, and the step that ends a job *)
(* lifts the maintenance it began.                                         *)
THEOREM MaintenanceIsKept == Spec => MaintenanceKept
<1> DEFINE Switch == pool.on /\ store'.active # store.active => pool.leased = {} \/ pool'.leased = {}
           Ends == Running /\ upd.owns /\ upd'.pc = "ended" => ~pool'.maint \/ upd'.rollback = "broken"
<1>1. IInv /\ [Next]_vars => IInv' /\ [Switch]_vars /\ [Ends]_vars
  BY StepKeeps DEF Protected
<1>2. Spec => [][Switch]_vars /\ [][Ends]_vars
  BY <1>1, InitSound, PTL DEF Spec
<1> QED BY <1>2 DEF MaintenanceKept, NoSwitchUnderLease, MaintenanceEnds

-----------------------------------------------------------------------------
(* The job manager.                                                        *)

ActiveRow == {"queued", "running"}
Event == {"running"} \cup Terminal
QueueState == [held : Queue \cup {NoQueue}, items : [Queue -> Seq(Event)]]

(* Where the task is tells what its row says, as long as it lives.         *)
TaskAndRow ==
  /\ task.pc = "none" => row = "none" /\ ~task.kill
  /\ row = "none" => task.pc = "none"
  /\ task.pc = "fresh" => row = "queued"
  /\ task.pc = "working" => row = "running"

(* Whoever cancelled the task of an active row waits for it.               *)
KillerWaits ==
  (row \in ActiveRow /\ (task.kill \/ task.pc = "done"))
    => \E c \in Canceller : cancs[c] = "joining"

(* A terminal event in a queue is what the row says.                       *)
Tells(qs, r) ==
  \A k \in Queue : \A i \in 1..Len(qs.items[k]) :
    qs.items[k][i] \in Terminal => r = qs.items[k][i]

(* A stream that waits has a queue to wait on.                             *)
WaitersHoldQueue == \A s \in Sub : subs[s].pc = "waiting" => subs[s].q \in Queue

(* The inductive invariant.  StreamTellsOutcome needs the queues' part (a  *)
(* stream reads its last event from a queue), ActiveIsTended the cancellers'*)
JobInv ==
  /\ JobTypeOK /\ TaskAndRow /\ KillerWaits /\ WaitersHoldQueue
  /\ Tells(queues, row) /\ StreamTellsOutcome

-----------------------------------------------------------------------------
(* Putting an event into a queue, and dropping the queue.                  *)
LEMMA PutType ==
  ASSUME NEW qs \in QueueState, NEW e \in Event
  PROVE  Put(qs, e) \in QueueState
<1>1. CASE qs.held = NoQueue
  BY <1>1 DEF Put
<1>2. CASE qs.held # NoQueue
  <2>1. qs.held \in Queue
    BY <1>2 DEF QueueState
  <2>2. qs.items[qs.held] \in Seq(Event)
    BY <2>1 DEF QueueState
  <2>3. Append(qs.items[qs.held], e) \in Seq(Event)
    BY <2>2
  <2> QED BY <1>2, <2>1, <2>3 DEF Put, QueueState
<1> QED BY <1>1, <1>2

(* Dropping a job's queues yields queues. *)
LEMMA DropType ==
  ASSUME NEW qs \in QueueState PROVE Dropped(qs) \in QueueState
BY DEF Dropped, QueueState

(* Publishing an event to every subscriber keeps the last word of each queue true. *)
LEMMA PutTells ==
  ASSUME NEW qs \in QueueState, NEW e \in Event, NEW r, NEW s,
         Tells(qs, r), r \notin Terminal, e \in Terminal => s = e
  PROVE  Tells(Put(qs, e), s)
<1>1. \A k \in Queue : \A i \in 1..Len(qs.items[k]) : qs.items[k][i] \notin Terminal
  BY DEF Tells
<1>2. CASE qs.held = NoQueue
  BY <1>1, <1>2 DEF Put, Tells
<1>3. CASE qs.held # NoQueue
  <2> SUFFICES ASSUME NEW k \in Queue,
                      NEW i \in 1..Len(Put(qs, e).items[k]),
                      Put(qs, e).items[k][i] \in Terminal
               PROVE  s = Put(qs, e).items[k][i]
    BY DEF Tells
  <2>1. CASE k # qs.held
    <3>1. Put(qs, e).items[k] = qs.items[k]
      BY <1>3, <2>1 DEF Put, QueueState
    <3> QED BY <1>1, <3>1
  <2>2. CASE k = qs.held
    <3>1. qs.items[k] \in Seq(Event)
      BY DEF QueueState
    <3>2. Put(qs, e).items[k] = Append(qs.items[k], e)
      BY <1>3, <2>2 DEF Put, QueueState
    <3>3. CASE i \in 1..Len(qs.items[k])
      <4>1. Put(qs, e).items[k][i] = qs.items[k][i]
        BY <3>1, <3>2, <3>3
      <4> QED BY <1>1, <3>3, <4>1
    <3>4. CASE i = Len(qs.items[k]) + 1
      BY <3>1, <3>2, <3>4
    <3> QED BY <3>1, <3>2, <3>3, <3>4
  <2> QED BY <2>1, <2>2
<1> QED BY <1>2, <1>3

(* Dropping the queues of a job keeps the last word of each queue true. *)
LEMMA DropTells ==
  ASSUME NEW qs \in QueueState, NEW r, Tells(qs, r) PROVE Tells(Dropped(qs), r)
BY DEF Dropped, Tells, QueueState

-----------------------------------------------------------------------------

(* The types hold when nothing has been created. *)
LEMMA TypeInit == ASSUME JobInit PROVE JobTypeOK
<1>1. queues \in [held : Queue \cup {NoQueue}, items : [Queue -> Seq({"running"} \cup Terminal)]]
  BY DEF JobInit, Queue, NoQueue, Terminal
<1>2. 0 \in 0..MaxProgress
  BY ProgressAssumption
<1> QED BY <1>1, <1>2 DEF JobInit, JobTypeOK, Queue, NoQueue, Terminal

(* Every step keeps the types. *)
LEMMA TypeStep ==
  ASSUME JobTypeOK, WaitersHoldQueue, [JobNext]_jobVars PROVE JobTypeOK'
<1> USE DEF Event
<1> DEFINE Pcs == {"none", "fresh", "working", "done"}
           TaskType == [pc : Pcs, kill : BOOLEAN, sent : 0..MaxProgress]
           Lasts == {"none", "queued", "running", "left"} \cup Terminal
           SubType == [pc : {"idle", "hello", "waiting", "ended"},
                       q : Queue \cup {NoQueue}, last : Lasts]
<1>0. /\ row \in {"none", "queued", "running"} \cup Terminal
      /\ task \in TaskType /\ tracked \in BOOLEAN /\ queues \in QueueState
      /\ subs \in [Sub -> SubType]
      /\ cancs \in [Canceller -> {"idle", "joining", "done"}]
  BY DEF JobTypeOK, QueueState
<1> SUFFICES /\ row' \in {"none", "queued", "running"} \cup Terminal
             /\ task' \in TaskType /\ tracked' \in BOOLEAN /\ queues' \in QueueState
             /\ subs' \in [Sub -> SubType]
             /\ cancs' \in [Canceller -> {"idle", "joining", "done"}]
  BY DEF JobTypeOK, QueueState
<1>1. CASE Create
  <2>1. queues' \in QueueState
    BY <1>0, <1>1 DEF Create, QueueState, Queue
  <2>2. task' \in TaskType
    BY <1>0, <1>1 DEF Create
  <2> QED BY <1>0, <1>1, <2>1, <2>2 DEF Create
<1>2. CASE Progress
  <2>1. queues' \in QueueState
    BY <1>0, <1>2, PutType DEF Progress
  <2>2. (IF task.pc = "fresh" THEN task.sent ELSE task.sent + 1) \in 0..MaxProgress
    BY <1>0, <1>2, ProgressAssumption DEF Progress
  <2>3. task' \in TaskType
    BY <1>0, <1>2, <2>2 DEF Progress
  <2> QED BY <1>0, <1>2, <2>1, <2>3 DEF Progress
<1>3. ASSUME NEW e \in Terminal, Finish(e)
      PROVE  /\ row' \in {"none", "queued", "running"} \cup Terminal
             /\ task' \in TaskType /\ tracked' \in BOOLEAN /\ queues' \in QueueState
             /\ subs' \in [Sub -> SubType]
             /\ cancs' \in [Canceller -> {"idle", "joining", "done"}]
  <2>1. queues' \in QueueState
    BY <1>0, <1>3, PutType, DropType DEF Finish
  <2> QED BY <1>0, <1>3, <2>1 DEF Finish
<1>4. CASE NeverRan
  BY <1>0, <1>4 DEF NeverRan
<1>5. CASE TaskStep
  BY <1>2, <1>3, <1>4, <1>5 DEF TaskStep, Terminal
<1>6. CASE Restart
  <2>1. queues' \in QueueState
    BY <1>6 DEF Restart, QueueState, NoQueue
  <2>2. row' \in {"none", "queued", "running"} \cup Terminal
    BY <1>0, <1>6 DEF Restart, Interrupted, Terminal
  <2>3. subs' \in [Sub -> SubType]
    BY <1>0, <1>6 DEF Restart
  <2>4. task' \in TaskType
    BY <1>6, ProgressAssumption DEF Restart
  <2> QED BY <1>0, <1>6, <2>1, <2>2, <2>3, <2>4 DEF Restart
<1>7. ASSUME NEW c \in Canceller, CancelJob(c) PROVE JobTypeOK'
  <2>1. cancs' \in [Canceller -> {"idle", "joining", "done"}]
    BY <1>0, <1>7 DEF CancelJob
  <2>2. task' \in TaskType
    <3>1. CASE row \in Terminal \/ ~tracked
      BY <1>0, <1>7, <3>1 DEF CancelJob
    <3>2. CASE ~(row \in Terminal \/ ~tracked)
      <4>1. \A b \in BOOLEAN : [task EXCEPT !.kill = b] \in TaskType
        BY <1>0
      <4>2. (task.pc # "done") \in BOOLEAN
        OBVIOUS
      <4>3. task' = [task EXCEPT !.kill = task.pc # "done"]
        BY <1>7, <3>2 DEF CancelJob
      <4> HIDE DEF TaskType
      <4> QED BY <4>1, <4>2, <4>3 DEF CancelJob
    <3> QED BY <3>1, <3>2
  <2> QED BY <1>0, <1>7, <2>1, <2>2 DEF CancelJob, JobTypeOK, QueueState
<1>8. ASSUME NEW c \in Canceller, CancelJoins(c) PROVE JobTypeOK'
  <2>1. "cancelled" \in Terminal
    BY DEF Terminal
  <2>2. queues' \in QueueState
    BY <1>0, <1>8, <2>1, PutType, DropType DEF CancelJoins
  <2> QED BY <1>0, <1>8, <2>1, <2>2 DEF CancelJoins, JobTypeOK, QueueState
<1>9. ASSUME NEW s \in Sub, NEW pc \in {"hello", "waiting", "ended"},
             NEW q \in Queue \cup {NoQueue}, NEW e \in Lasts, Sets(s, pc, q, e)
      PROVE  subs' \in [Sub -> SubType]
  BY <1>0, <1>9 DEF Sets
<1>10. ASSUME NEW s \in Sub, Subscribe(s) PROVE JobTypeOK'
  BY <1>0, <1>9, <1>10 DEF Subscribe, JobTypeOK, QueueState
<1>11. ASSUME NEW s \in Sub, Attach(s) PROVE JobTypeOK'
  <2> DEFINE k == IF queues.held = NoQueue THEN 2 ELSE queues.held
  <2>1. k \in Queue
    BY <1>0 DEF QueueState, Queue
  <2>2. queues' \in QueueState
    BY <1>0, <1>11, <2>1 DEF Attach, QueueState
  <2>3. subs[s].last \in Lasts /\ row \in Lasts
    BY <1>0
  <2>4. subs' \in [Sub -> SubType]
    <3> HIDE DEF k
    <3>1. \/ Sets(s, "ended", NoQueue, subs[s].last) \/ Sets(s, "ended", NoQueue, row)
          \/ Sets(s, "waiting", k, row)
      BY <1>11 DEF Attach, k
    <3> QED BY <1>9, <2>1, <2>3, <3>1
  <2> QED BY <1>0, <1>11, <2>2, <2>4 DEF Attach, JobTypeOK, QueueState
<1>12. ASSUME NEW s \in Sub, Receive(s) PROVE JobTypeOK'
  <2> DEFINE q == subs[s].q
             items == queues.items[q]
  <2>1. q \in Queue /\ items \in Seq(Event) /\ items # <<>>
    BY <1>0, <1>12 DEF Receive, QueueState, WaitersHoldQueue
  <2>2. Head(items) \in Event /\ Tail(items) \in Seq(Event)
    BY <2>1
  <2>3. queues' \in QueueState
    BY <1>0, <1>12, <2>1, <2>2 DEF Receive, QueueState
  <2>4. subs' \in [Sub -> SubType]
    <3>1. Head(items) \in Lasts
      BY <2>2
    <3>2. \E pc \in {"waiting", "ended"} : Sets(s, pc, q, Head(items))
      BY <1>12 DEF Receive
    <3> QED BY <1>9, <2>1, <3>1, <3>2
  <2> QED BY <1>0, <1>12, <2>3, <2>4 DEF Receive, JobTypeOK, QueueState
<1>13. ASSUME NEW s \in Sub, Leave(s) PROVE JobTypeOK'
  BY <1>0, <1>9, <1>13 DEF Leave, JobTypeOK, QueueState
<1>14. CASE UNCHANGED jobVars
  BY <1>0, <1>14 DEF jobVars
<1> QED
  BY <1>0, <1>1, <1>5, <1>6, <1>7, <1>8, <1>10, <1>11, <1>12, <1>13, <1>14
  DEF JobNext, Stop, JobTypeOK, QueueState

-----------------------------------------------------------------------------
(* The type facts the steps below use.                                     *)
LEMMA JobTyped ==
  ASSUME JobTypeOK
  PROVE  /\ queues \in QueueState /\ row \in {"none"} \cup ActiveRow \cup Terminal
         /\ DOMAIN cancs = Canceller /\ DOMAIN subs = Sub
         /\ cancs = [c \in Canceller |-> cancs[c]]
         /\ task = [pc |-> task.pc, kill |-> task.kill, sent |-> task.sent]
BY DEF JobTypeOK, QueueState, Event, ActiveRow

(* Task and row stay in step: a row is active only while a task can still end it. *)
LEMMA TaskAndRowStep ==
  ASSUME JobTypeOK, TaskAndRow, [JobNext]_jobVars PROVE TaskAndRow'
<1>0. task \in [pc : {"none", "fresh", "working", "done"}, kill : BOOLEAN, sent : 0..MaxProgress]
  BY DEF JobTypeOK
<1>1. CASE Create
  BY <1>0, <1>1 DEF Create, TaskAndRow
<1>2. CASE TaskStep
  <2>1. CASE Progress
    BY <1>0, <2>1 DEF Progress, TaskAndRow
  <2>2. CASE NeverRan
    BY <1>0, <2>2 DEF NeverRan, TaskAndRow
  <2>3. ASSUME NEW e \in Terminal, Finish(e) PROVE TaskAndRow'
    BY <1>0, <2>3 DEF Finish, TaskAndRow, Terminal
  <2> QED BY <1>2, <2>1, <2>2, <2>3 DEF TaskStep, Terminal
<1>3. CASE Restart
  BY <1>3 DEF Restart, TaskAndRow, Interrupted
<1>4. ASSUME NEW c \in Canceller, CancelJob(c) PROVE TaskAndRow'
  <2>1. row # "none" /\ task.pc # "none" /\ row' = row /\ task'.pc = task.pc
    BY <1>0, <1>4 DEF CancelJob, TaskAndRow
  <2> QED BY <2>1 DEF TaskAndRow
<1>5. ASSUME NEW c \in Canceller, CancelJoins(c) PROVE TaskAndRow'
  BY <1>5 DEF CancelJoins, TaskAndRow, Terminal
<1>6. ASSUME UNCHANGED <<row, task>> PROVE TaskAndRow'
  BY <1>6 DEF TaskAndRow
<1> QED
  BY <1>1, <1>2, <1>3, <1>4, <1>5, <1>6
  DEF JobNext, Stop, jobVars, Subscribe, Attach, Receive, Leave

(* A canceller that waits still has a task to wait for, or one that has ended. *)
LEMMA KillerStep ==
  ASSUME JobTypeOK, TaskAndRow, KillerWaits, [JobNext]_jobVars PROVE KillerWaits'
<1>0. /\ task \in [pc : {"none", "fresh", "working", "done"}, kill : BOOLEAN,
                   sent : 0..MaxProgress]
      /\ cancs \in [Canceller -> {"idle", "joining", "done"}]
  BY DEF JobTypeOK
<1>1. CASE Create
  BY <1>0, <1>1 DEF Create, TaskAndRow, KillerWaits
<1>2. CASE TaskStep
  <2>1. CASE Progress
    BY <1>0, <2>1 DEF Progress, TaskAndRow, KillerWaits, ActiveRow
  <2>2. CASE NeverRan
    BY <1>0, <2>2 DEF NeverRan, KillerWaits
  <2>3. ASSUME NEW e \in Terminal, Finish(e) PROVE KillerWaits'
    BY <2>3 DEF Finish, KillerWaits, Terminal, ActiveRow
  <2> QED BY <1>2, <2>1, <2>2, <2>3 DEF TaskStep, Terminal
<1>3. CASE Restart
  BY <1>3 DEF Restart, KillerWaits, Interrupted, ActiveRow
<1>4. ASSUME NEW c \in Canceller, CancelJob(c) PROVE KillerWaits'
  <2>1. CASE row \in Terminal \/ ~tracked
    <3>1. /\ UNCHANGED <<row, task>>
          /\ \A d \in Canceller : cancs[d] = "joining" => cancs'[d] = "joining"
      BY <1>0, <1>4, <2>1 DEF CancelJob
    <3> QED BY <3>1 DEF KillerWaits
  <2>2. CASE ~(row \in Terminal \/ ~tracked)
    <3>1. cancs'[c] = "joining"
      BY <1>0, <1>4, <2>2 DEF CancelJob
    <3> QED BY <3>1 DEF KillerWaits
  <2> QED BY <2>1, <2>2
<1>5. ASSUME NEW c \in Canceller, CancelJoins(c) PROVE KillerWaits'
  BY <1>5 DEF CancelJoins, KillerWaits, ActiveRow, Terminal
<1>6. ASSUME UNCHANGED <<row, task, cancs>> PROVE KillerWaits'
  BY <1>6 DEF KillerWaits
<1> QED
  BY <1>1, <1>2, <1>3, <1>4, <1>5, <1>6
  DEF JobNext, Stop, jobVars, Subscribe, Attach, Receive, Leave

-----------------------------------------------------------------------------

(* A queue that ends tells the row's outcome, after every step. *)
LEMMA TellsStep ==
  ASSUME JobTypeOK, TaskAndRow, WaitersHoldQueue, Tells(queues, row), [JobNext]_jobVars
  PROVE  Tells(queues, row)'
<1> DEFINE Goal == Tells(queues', row')
<1> SUFFICES Goal
  BY DEF Tells
<1>0. queues \in QueueState
  BY JobTyped
<1>1. CASE Create
  BY <1>0, <1>1 DEF Create, Tells, Terminal, QueueState
<1>2. CASE TaskStep
  <2>1. CASE Progress
    <3>1. row \notin Terminal /\ "running" \in Event /\ "running" \notin Terminal
      BY <2>1 DEF Progress, TaskAndRow, Terminal, Event
    <3>2. queues' = Put(queues, "running")
      BY <2>1 DEF Progress
    <3> QED BY <1>0, <3>1, <3>2, PutTells
  <2>2. CASE NeverRan
    BY <2>2 DEF NeverRan
  <2>3. ASSUME NEW e \in Terminal, Finish(e) PROVE Goal
    <3>1. row \notin Terminal /\ e \in Event
      BY <2>3 DEF Finish, TaskAndRow, Terminal, Event
    <3>2. Put(queues, e) \in QueueState /\ Tells(Put(queues, e), e)
      BY <1>0, <3>1, PutType, PutTells
    <3>3. queues' = Dropped(Put(queues, e)) /\ row' = e
      BY <2>3 DEF Finish
    <3> QED BY <3>2, <3>3, DropTells
  <2> QED BY <1>2, <2>1, <2>2, <2>3 DEF TaskStep, Terminal
<1>3. CASE Restart
  BY <1>3 DEF Restart, Tells
<1>4. ASSUME NEW c \in Canceller, CancelJoins(c) PROVE Goal
  <2>1. CASE row \in Terminal
    BY <1>4, <2>1 DEF CancelJoins
  <2>2. CASE row \notin Terminal
    <3>1. "cancelled" \in Event /\ "cancelled" \in Terminal
      BY DEF Event, Terminal
    <3>2. Put(queues, "cancelled") \in QueueState /\ Tells(Put(queues, "cancelled"), "cancelled")
      BY <1>0, <2>2, <3>1, PutType, PutTells
    <3>3. queues' = Dropped(Put(queues, "cancelled")) /\ row' = "cancelled"
      BY <1>4, <2>2 DEF CancelJoins
    <3> QED BY <3>2, <3>3, DropTells
  <2> QED BY <2>1, <2>2
<1>5. ASSUME NEW s \in Sub, Attach(s) PROVE Goal
  <2>1. queues'.items = queues.items /\ row' = row
    BY <1>0, <1>5 DEF Attach, QueueState
  <2> QED BY <2>1 DEF Tells
<1>6. ASSUME NEW s \in Sub, Receive(s) PROVE Goal
  <2> DEFINE q == subs[s].q
             items == queues.items[q]
  <2>1. q \in Queue /\ items \in Seq(Event) /\ items # <<>>
    BY <1>0, <1>6 DEF Receive, QueueState, WaitersHoldQueue
  <2>2. /\ \A k \in Queue : k # q => queues'.items[k] = queues.items[k]
        /\ queues'.items[q] = Tail(items)
        /\ row' = row
    BY <1>0, <1>6, <2>1 DEF Receive, QueueState
  <2>3. \A i \in 1..Len(Tail(items)) : i + 1 \in 1..Len(items) /\ Tail(items)[i] = items[i + 1]
    BY <2>1
  <2>4. \A i \in 1..Len(items) : items[i] \in Terminal => row = items[i]
    BY <2>1 DEF Tells
  <2>5. \A i \in 1..Len(Tail(items)) : Tail(items)[i] \in Terminal => row = Tail(items)[i]
    BY <2>3, <2>4
  <2>6. ASSUME NEW k \in Queue, NEW i \in 1..Len(queues'.items[k]),
               queues'.items[k][i] \in Terminal
        PROVE  row' = queues'.items[k][i]
    <3>1. CASE k = q
      BY <2>2, <2>5, <2>6, <3>1
    <3>2. CASE k # q
      <4>1. queues'.items[k] = queues.items[k] /\ row' = row
        BY <2>2, <3>2
      <4> QED BY <2>6, <4>1 DEF Tells
    <3> QED BY <3>1, <3>2
  <2> QED BY <2>6 DEF Tells
<1>7. ASSUME UNCHANGED <<row, queues>> PROVE Goal
  BY <1>7 DEF Tells
<1> QED
  BY <1>1, <1>2, <1>3, <1>4, <1>5, <1>6, <1>7
  DEF JobNext, Stop, jobVars, Subscribe, CancelJob, Leave

(* A waiting subscriber still has its queue, after every step. *)
LEMMA WaitersStep ==
  ASSUME JobTypeOK, WaitersHoldQueue, [JobNext]_jobVars PROVE WaitersHoldQueue'
<1>0. /\ queues \in QueueState /\ DOMAIN subs = Sub
      /\ subs = [s \in Sub |-> subs[s]]
  BY DEF JobTypeOK, QueueState, Event
<1>1. ASSUME NEW s \in Sub, NEW pc, NEW q, NEW e, Sets(s, pc, q, e),
             pc = "waiting" => q \in Queue
      PROVE  WaitersHoldQueue'
  BY <1>0, <1>1 DEF Sets, WaitersHoldQueue
<1>2. ASSUME NEW s \in Sub, Attach(s) PROVE WaitersHoldQueue'
  <2> DEFINE k == IF queues.held = NoQueue THEN 2 ELSE queues.held
  <2>1. k \in Queue
    BY <1>0 DEF QueueState, Queue
  <2> HIDE DEF k
  <2>2. \/ Sets(s, "ended", NoQueue, subs[s].last) \/ Sets(s, "ended", NoQueue, row)
        \/ Sets(s, "waiting", k, row)
    BY <1>2 DEF Attach, k
  <2> QED BY <1>1, <2>1, <2>2
<1>3. ASSUME NEW s \in Sub, Receive(s) PROVE WaitersHoldQueue'
  <2>1. subs[s].q \in Queue
    BY <1>3 DEF Receive, WaitersHoldQueue
  <2>2. \E pc, e : Sets(s, pc, subs[s].q, e)
    BY <1>3 DEF Receive
  <2> QED BY <1>1, <2>1, <2>2
<1>4. ASSUME NEW s \in Sub, Subscribe(s) \/ Leave(s) PROVE WaitersHoldQueue'
  BY <1>1, <1>4 DEF Subscribe, Leave
<1>5. CASE Restart
  BY <1>0, <1>5 DEF Restart, WaitersHoldQueue
<1>6. ASSUME UNCHANGED subs PROVE WaitersHoldQueue'
  BY <1>6 DEF WaitersHoldQueue
<1> QED
  BY <1>2, <1>3, <1>4, <1>5, <1>6
  DEF JobNext, Stop, jobVars, Create, TaskStep, Progress, NeverRan, Finish, CancelJob, CancelJoins

(* A row that ended keeps its value.                                       *)
LEMMA EndedStays ==
  ASSUME JobTypeOK, TaskAndRow, [JobNext]_jobVars, row \in Terminal PROVE row' = row
<1>0. row \notin {"none", "queued", "running"}
  BY DEF Terminal
<1>1. CASE TaskStep
  BY <1>0, <1>1 DEF TaskStep, Progress, NeverRan, Finish, TaskAndRow
<1>2. CASE Restart
  BY <1>0, <1>2 DEF Restart, Interrupted
<1>3. ASSUME NEW c \in Canceller, CancelJoins(c) PROVE row' = row
  BY <1>3 DEF CancelJoins
<1> QED
  BY <1>0, <1>1, <1>2, <1>3
  DEF JobNext, Stop, jobVars, Create, CancelJob, Subscribe, Attach, Receive, Leave

(* A subscriber that was told an outcome was told the row's, after every step. *)
LEMMA OutcomeStep ==
  ASSUME JobInv, [JobNext]_jobVars PROVE StreamTellsOutcome'
<1>0. /\ DOMAIN subs = Sub /\ subs = [s \in Sub |-> subs[s]]
      /\ JobTypeOK /\ StreamTellsOutcome /\ TaskAndRow
  BY DEF JobInv, JobTypeOK
<1>1. ASSUME NEW s \in Sub, NEW pc, NEW q, NEW e, Sets(s, pc, q, e), row' = row,
             e \in Terminal => row = e
      PROVE  StreamTellsOutcome'
  BY <1>0, <1>1 DEF Sets, StreamTellsOutcome
<1>2. ASSUME NEW s \in Sub, Subscribe(s) \/ Leave(s) PROVE StreamTellsOutcome'
  <2>1. "left" \notin Terminal
    BY DEF Terminal
  <2> QED BY <1>1, <1>2, <2>1 DEF Subscribe, Leave
<1>3. ASSUME NEW s \in Sub, Attach(s) PROVE StreamTellsOutcome'
  <2>1. row' = row /\ (subs[s].last \in Terminal => row = subs[s].last)
    BY <1>0, <1>3 DEF Attach, StreamTellsOutcome
  <2>2. \E pc, q : Sets(s, pc, q, subs[s].last) \/ Sets(s, pc, q, row)
    BY <1>3 DEF Attach
  <2> QED BY <1>1, <2>1, <2>2
<1>4. ASSUME NEW s \in Sub, Receive(s) PROVE StreamTellsOutcome'
  <2> DEFINE items == queues.items[subs[s].q]
  <2>1. items \in Seq(Event) /\ items # <<>> /\ subs[s].q \in Queue
    BY <1>0, <1>4, JobTyped DEF Receive, QueueState, WaitersHoldQueue, JobInv
  <2>2. 1 \in 1..Len(items) /\ Head(items) = items[1]
    BY <2>1
  <2>3. items[1] \in Terminal => row = items[1]
    BY <2>1, <2>2 DEF Tells, JobInv
  <2>4. \E pc : Sets(s, pc, subs[s].q, Head(items))
    BY <1>4 DEF Receive
  <2> QED BY <1>1, <1>4, <2>2, <2>3, <2>4 DEF Receive
<1>5. CASE Restart
  <2>1. "left" \notin Terminal
    BY DEF Terminal
  <2> QED BY <1>0, <1>5, <2>1, EndedStays DEF Restart, StreamTellsOutcome
<1>6. ASSUME UNCHANGED subs PROVE StreamTellsOutcome'
  BY <1>0, <1>6, EndedStays DEF StreamTellsOutcome
<1> QED
  BY <1>2, <1>3, <1>4, <1>5, <1>6
  DEF JobNext, Stop, jobVars, Create, TaskStep, Progress, NeverRan, Finish, CancelJob, CancelJoins

-----------------------------------------------------------------------------

(* The inductive invariant holds when nothing has been created. *)
LEMMA JobInitially == ASSUME JobInit PROVE JobInv
<1>1. TaskAndRow /\ KillerWaits /\ WaitersHoldQueue /\ Tells(queues, row) /\ StreamTellsOutcome
  BY DEF JobInit, TaskAndRow, KillerWaits, WaitersHoldQueue, Tells, StreamTellsOutcome,
         ActiveRow, Terminal
<1> QED BY <1>1, TypeInit DEF JobInv

(* Every step keeps the inductive invariant. *)
LEMMA JobInductive == ASSUME JobInv, [JobNext]_jobVars PROVE JobInv'
BY TypeStep, TaskAndRowStep, KillerStep, TellsStep, WaitersStep, OutcomeStep DEF JobInv

(* Every reachable state of the job manager satisfies the inductive invariant. *)
THEOREM JobInvariance == JobSpec => []JobInv
BY JobInitially, JobInductive, PTL DEF JobSpec

(* Every reachable state of the job manager has the declared type.         *)
THEOREM JobsTyped == JobSpec => []JobTypeOK
<1>1. JobInv => JobTypeOK
  BY DEF JobInv
<1> QED BY <1>1, JobInvariance, PTL

(* No row of jobs.py is active without a task or a canceller that ends it. *)
THEOREM RowsAreTended == JobSpec => []ActiveIsTended
<1>1. JobInv => ActiveIsTended
  <2> SUFFICES ASSUME JobInv, row \in ActiveRow PROVE ActiveIsTended
    BY DEF ActiveIsTended, ActiveRow
  <2>1. task.pc # "none" /\ task.pc \in {"none", "fresh", "working", "done"}
    BY DEF JobInv, JobTypeOK, TaskAndRow, ActiveRow
  <2>2. CASE task.pc = "done"
    BY <2>2 DEF JobInv, KillerWaits, ActiveIsTended
  <2> QED BY <2>1, <2>2 DEF ActiveIsTended
<1> QED BY <1>1, JobInvariance, PTL

(* Every stream of events() that ended with the job reports its outcome.   *)
THEOREM StreamsTellTheOutcome == JobSpec => []StreamTellsOutcome
<1>1. JobInv => StreamTellsOutcome
  BY DEF JobInv
<1> QED BY <1>1, JobInvariance, PTL

(* The job manager implements JobLife: cancel(), _run and the restart      *)
(* sweep together end a row once.                                          *)
THEOREM JobsImplementJobLife == JobSpec => RowLife
<1>1. JobInit => Life!Init
  BY DEF JobInit, Life!Init
<1>2. ASSUME JobInv, [JobNext]_jobVars PROVE [Life!Next]_row
  <2>0. /\ JobTypeOK /\ TaskAndRow
        /\ row \in {"none"} \cup ActiveRow \cup Terminal
    BY <1>2, JobTyped DEF JobInv
  <2> USE DEF Life!Active, Life!Terminal
  <2>1. CASE Create
    BY <2>1 DEF Create, Life!Next, Life!Create
  <2>2. CASE TaskStep
    <3>1. CASE Progress
      BY <2>0, <3>1 DEF Progress, TaskAndRow, Life!Next, Life!Run
    <3>2. CASE NeverRan
      BY <3>2 DEF NeverRan
    <3>3. ASSUME NEW e \in Terminal, Finish(e) PROVE Life!End
      BY <2>0, <3>3 DEF Finish, TaskAndRow, Terminal, Life!End
    <3> QED BY <2>2, <3>1, <3>2, <3>3 DEF TaskStep, Terminal, Life!Next
  <2>3. CASE Restart
    BY <2>0, <2>3 DEF Restart, Interrupted, Life!Next, Life!End
  <2>4. ASSUME NEW c \in Canceller, CancelJoins(c) PROVE [Life!Next]_row
    <3>1. row # "none" \/ row' = row
      BY <2>0, <2>4 DEF CancelJoins, TaskAndRow
    <3> QED BY <2>0, <2>4, <3>1 DEF CancelJoins, Life!Next, Life!End, ActiveRow, Terminal
  <2>5. ASSUME UNCHANGED row PROVE [Life!Next]_row
    BY <2>5
  <2> QED
    BY <1>2, <2>1, <2>2, <2>3, <2>4, <2>5
    DEF JobNext, Stop, jobVars, CancelJob, Subscribe, Attach, Receive, Leave
<1> QED BY <1>1, <1>2, JobInvariance, PTL DEF JobSpec, RowLife, Life!Spec
=============================================================================
