------------------------------ MODULE GenLanes ------------------------------
(***************************************************************************)
(* The generation lanes of the model pool (workers/model_pool.py).         *)
(*                                                                         *)
(* Every resident slot serialises its generations with an asyncio.Lock     *)
(* (its lane) and the whole pool admits at most Conc lanes at a time with  *)
(* an asyncio.Semaphore.  A request takes a lease on its slot, queues for  *)
(* the lane in a helper task (or acquires it inline when the pool looks    *)
(* idle), runs in the slot's worker and gives everything back in a         *)
(* finalizer that may run at any suspension point.  A status poll recovers *)
(* lanes and leases whose owner looks gone.                                *)
(*                                                                         *)
(* The coordinator is one asyncio event loop: code between two awaits is   *)
(* atomic, so an action is one such segment of one task.  A woken waiter   *)
(* ("granted") runs later than the release that woke it, and a cancelled   *)
(* task unwinds later than the cancel() call: both gaps are in the model.  *)
(***************************************************************************)
EXTENDS Naturals, Sequences, FiniteSets

CONSTANTS Req,       \* requests; each runs generate_for_model once
          Slot,      \* ready slots of the pool
          ModelOf,   \* slot -> the model it is a replica of
          Conc,      \* generationConcurrency
          MaxQueued, \* maxQueuedRequests
          None       \* no request

ASSUME ConcAssumption == Conc \in Nat \ {0}
ASSUME FiniteAssumption == IsFiniteSet(Req) /\ IsFiniteSet(Slot)
ASSUME NoneAssumption == None \notin Req
ASSUME SlotAssumption == Slot # {}
ASSUME MaxQueuedAssumption == MaxQueued \in Nat

VARIABLES
  slots,   \* slot -> its lane lock, owner, permit flag, waiters and leases
  pool,    \* the semaphore, the lane counter and the abandon markers
  req,     \* request -> where its generator and its acquire task are
  active   \* slot -> requests registered in its worker's active_requests

vars == <<slots, pool, req, active>>

SlotState ==
  [held : BOOLEAN, lq : Seq(Req), lgrant : SUBSET Req, owner : Req \cup {None},
   permit : BOOLEAN, queued : SUBSET Req, leases : Nat,
   pend : Req \cup {None}, aged : BOOLEAN]

PoolState ==
  [free : Nat, sq : Seq(Req), sgrant : SUBSET Req, raw : SUBSET Req, lanes : Nat,
   abandoned : SUBSET Req, tasks : SUBSET Req]

(* Where the acquire task of a request is suspended.                       *)
Tasks == {"none", "spawned", "lock", "sem", "probe", "nap", "done"}

Idle == [held |-> FALSE, lq |-> <<>>, lgrant |-> {}, owner |-> None,
         permit |-> FALSE, queued |-> {}, leases |-> 0,
         pend |-> None, aged |-> FALSE]

Init ==
  /\ slots = [s \in Slot |-> Idle]
  /\ pool = [free |-> Conc, sq |-> <<>>, sgrant |-> {}, raw |-> {}, lanes |-> 0,
             abandoned |-> {}, tasks |-> {}]
  /\ req = [r \in Req |-> [pc |-> "idle", at |-> CHOOSE s \in Slot : TRUE,
                           task |-> "none", kill |-> FALSE, cancel |-> FALSE]]
  /\ active = [s \in Slot |-> {}]

-----------------------------------------------------------------------------
(* Tasks whose cancel() was called and that have not unwound yet.          *)
Killed == {r \in Req : req[r].kill}

Elems(q) == {q[i] : i \in 1..Len(q)}
Pos(q, r) == CHOOSE i \in 1..Len(q) : q[i] = r
Without(q, r) == SubSeq(q, 1, Pos(q, r) - 1) \o SubSeq(q, Pos(q, r) + 1, Len(q))

(* asyncio.Lock.  release() wakes the first waiter unless its future is    *)
(* already done (woken or cancelled); the lock stays free until the waiter *)
(* runs, and acquire() then still queues behind it.                        *)
WakeFirst(sl) ==
  IF sl.lq # <<>> /\ Head(sl.lq) \notin sl.lgrant \cup Killed
    THEN [sl EXCEPT !.lgrant = @ \cup {Head(sl.lq)}] ELSE sl
LockRelease(sl) == WakeFirst([sl EXCEPT !.held = FALSE])
LockFree(sl) == ~sl.held /\ Elems(sl.lq) \subseteq Killed \ sl.lgrant
LockLeave(sl, r) == [sl EXCEPT !.lq = Without(@, r), !.lgrant = @ \ {r}]

(* asyncio.Semaphore.  Waking a waiter hands it the permit at once.        *)
SemWaiters(pl) == Elems(pl.sq) \ (pl.sgrant \cup Killed)
SemFirst(pl, n) ==
  {r \in SemWaiters(pl) :
     Cardinality({x \in SemWaiters(pl) : Pos(pl.sq, x) <= Pos(pl.sq, r)}) <= n}
SemWake(pl, n) ==
  LET woken == SemFirst(pl, n)
  IN  [pl EXCEPT !.sgrant = @ \cup woken, !.free = @ - Cardinality(woken)]
SemRelease(pl) == SemWake([pl EXCEPT !.free = @ + 1], 1)
SemLocked(pl) == pl.free = 0 \/ Elems(pl.sq) \ (Killed \ pl.sgrant) # {}

-----------------------------------------------------------------------------
(* _acquire_lane, one operator per segment between awaits.  A view holds   *)
(* the slot, the pool and the task's position; an outcome is a set of      *)
(* views because the head-room answer depends on memory the model does not *)
(* hold.                                                                   *)
View(sl, pl, tk) == [sl |-> sl, pl |-> pl, tk |-> tk]

EndTask(x, r) ==
  View(x.sl, [x.pl EXCEPT !.tasks = @ \ {r}, !.abandoned = @ \ {r}], "done")

Commit(x, r) ==
  EndTask(View([x.sl EXCEPT !.permit = TRUE],
               [x.pl EXCEPT !.lanes = @ + 1, !.raw = @ \ {r}], x.tk), r)

GiveBackPermit(pl, r) ==
  IF r \in pl.raw THEN SemRelease([pl EXCEPT !.raw = @ \ {r}]) ELSE pl
DropLane(sl, r) ==
  IF sl.owner = r THEN LockRelease([sl EXCEPT !.owner = None]) ELSE sl

Abort(x, r) == EndTask(View(DropLane(x.sl, r), GiveBackPermit(x.pl, r), x.tk), r)

(* A permit in hand: commit when no other lane is active, otherwise the    *)
(* memory head-room refuses at once or the pressure probe starts.          *)
HavePermit(x, r) ==
  IF r \in x.pl.abandoned THEN {Abort(x, r)}
  ELSE IF x.pl.lanes = 0 THEN {Commit(x, r)}
  ELSE {View(x.sl, GiveBackPermit(x.pl, r), "nap"), View(x.sl, x.pl, "probe")}

(* mutant: the lane goes ahead without taking a permit.                    *)
TrySem_NoPermit(x, r) == HavePermit(View(x.sl, [x.pl EXCEPT !.raw = @ \cup {r}], x.tk), r)

TrySem(x, r) ==
  IF SemLocked(x.pl) THEN {View(x.sl, [x.pl EXCEPT !.sq = Append(@, r)], "sem")}
  ELSE HavePermit(View(x.sl, [x.pl EXCEPT !.free = @ - 1, !.raw = @ \cup {r}], x.tk), r)

TakeLock(x, r) ==
  IF r \in x.pl.abandoned THEN {EndTask(View(LockRelease(x.sl), x.pl, x.tk), r)}
  ELSE TrySem(View([x.sl EXCEPT !.held = TRUE, !.owner = r], x.pl, x.tk), r)

StartAcquire(x, r) ==
  LET y == View(x.sl, [x.pl EXCEPT !.tasks = @ \cup {r}], x.tk)
  IN  IF r \in y.pl.abandoned THEN {EndTask(y, r)}
      ELSE IF LockFree(y.sl) THEN TakeLock(y, r)
      ELSE {View([y.sl EXCEPT !.lq = Append(@, r)], y.pl, "lock")}

-----------------------------------------------------------------------------
Unowned(sl) == LockRelease([sl EXCEPT !.owner = None, !.permit = FALSE])
LaneEnds(pl) == SemRelease([pl EXCEPT !.lanes = IF @ > 0 THEN @ - 1 ELSE 0])

(* mutants: the lane counter is not decremented; the lock is not released. *)
ReleaseLane_NoCount(x, r) ==
  IF x.sl.owner # r THEN x
  ELSE View(Unowned(x.sl), IF x.sl.permit THEN SemRelease(x.pl) ELSE x.pl, x.tk)
ReleaseLane_NoUnlock(x, r) ==
  IF x.sl.owner # r THEN x
  ELSE View([x.sl EXCEPT !.owner = None, !.permit = FALSE],
            IF x.sl.permit THEN LaneEnds(x.pl) ELSE x.pl, x.tk)

ReleaseLane(x, r) ==
  IF x.sl.owner # r THEN x
  ELSE View(Unowned(x.sl), IF x.sl.permit THEN LaneEnds(x.pl) ELSE x.pl, x.tk)

(* _recover_lane: the owner is judged gone when it is neither queued nor   *)
(* known to the worker at two observations half a second apart.            *)
Alive(x, s, o) == o \in active[s] \cup x.sl.queued
Marked(pl, r) == [pl EXCEPT !.abandoned = @ \cup {r}]
Verdict(sl, o) == [sl EXCEPT !.pend = o, !.aged = FALSE]
RecoverLane(x, s) ==
  LET o == x.sl.owner
      With(sl) == View(sl, x.pl, x.tk)
      pl == IF o \in x.pl.tasks THEN Marked(x.pl, o) ELSE x.pl
  IN
  IF ~x.sl.held
    THEN IF o # None /\ ~Alive(x, s, o) THEN With([x.sl EXCEPT !.owner = None]) ELSE x
  ELSE IF Alive(x, s, o) THEN With(Verdict(x.sl, None))
  ELSE IF x.sl.pend # o THEN With(Verdict(x.sl, o))
  ELSE IF ~x.sl.aged THEN x
  ELSE IF active[s] # {} THEN With(Verdict(x.sl, None))
  ELSE ReleaseLane(View(Verdict(x.sl, None), pl, x.tk), o)

(* _recover_slot_state also drops leases nobody visible can hold.          *)
RecoverSlotState(x, s) ==
  LET y == RecoverLane(x, s) IN
  IF y.sl.leases > 0 /\ active[s] = {} /\ y.sl.queued = {}
       /\ y.sl.owner = None /\ ~y.sl.held
    THEN View([y.sl EXCEPT !.leases = 0], y.pl, y.tk) ELSE y

(* The synchronous part of generate_for_model's finally block.             *)
Dequeued(sl, r) == [sl EXCEPT !.queued = @ \ {r}]
Returned(x, n) == View([x.sl EXCEPT !.leases = n], x.pl, x.tk)

(* mutants: the lane or the queue entry is left behind.                    *)
Finalize_KeepsLane(x, r) ==
  LET y == View(Dequeued(x.sl, r), Marked(x.pl, r), x.tk)
  IN  Returned(y, IF y.sl.leases > 0 THEN y.sl.leases - 1 ELSE 0)
Finalize_KeepsQueued(x, r) ==
  LET y == ReleaseLane(View(x.sl, Marked(x.pl, r), x.tk), r)
  IN  Returned(y, IF y.sl.leases > 0 THEN y.sl.leases - 1 ELSE 0)
Finalize(x, r) ==
  LET y == ReleaseLane(View(Dequeued(x.sl, r), Marked(x.pl, r), x.tk), r)
  IN  Returned(y, IF y.sl.leases > 0 THEN y.sl.leases - 1 ELSE 0)

-----------------------------------------------------------------------------
Here(r, s) == View(slots[s], pool, req[r].task)

Store(s, x) == slots' = [slots EXCEPT ![s] = x.sl] /\ pool' = x.pl
Move(r, p, x) == req' = [req EXCEPT ![r].pc = p, ![r].task = x.tk]

(* The request goes to its worker: registered there at once, or waiting    *)
(* for the worker's own lock while an abandoned generator still drains.    *)
ToWorker(r, s, x) ==
  /\ Store(s, x)
  /\ IF active[s] = {}
       THEN Move(r, "running", x) /\ active' = [active EXCEPT ![s] = {r}]
       ELSE Move(r, "handed", x) /\ UNCHANGED active

(* The finalizer ran: the slow path still joins its helper tasks, the fast *)
(* path has none and drops its marker at once.                             *)
Leave(r, s, x) ==
  LET y == Finalize(x, r)
      slow == x.tk # "none" /\ req[r].pc # "acquiring"
      unmarked == [y.pl EXCEPT !.abandoned = @ \ {r}]
  IN  /\ Store(s, IF slow THEN y ELSE View(y.sl, unmarked, y.tk))
      /\ req' = [req EXCEPT ![r].pc = IF slow THEN "closing" ELSE "done",
                            ![r].task = x.tk,
                            ![r].kill = slow /\ x.tk # "done"]

(* leases += 1 and the choice between the inline acquisition, taken when   *)
(* the whole pool looks idle, and the queue.                               *)
TotalQueued(x, s) ==
  Cardinality(x.sl.queued \cup UNION {slots[t].queued : t \in Slot \ {s}})
MustWait(x) == x.sl.held \/ x.sl.queued # {} \/ x.pl.lanes > 0

Enter(r, s) ==
  LET x == RecoverLane(Here(r, s), s)
      y == View([x.sl EXCEPT !.leases = @ + 1], x.pl, x.tk)
      q == RecoverLane(View([y.sl EXCEPT !.queued = @ \cup {r}], y.pl, "spawned"), s)
      At(p, z) == req' = [req EXCEPT ![r].at = s, ![r].pc = p, ![r].task = z.tk]
  IN
  \/ /\ MustWait(y) /\ TotalQueued(y, s) >= MaxQueued      \* QUEUE_FULL
     /\ Store(s, x) /\ At("done", x) /\ UNCHANGED active
  \/ /\ MustWait(y) /\ TotalQueued(y, s) < MaxQueued
     /\ Store(s, q) /\ At("waiting", q) /\ UNCHANGED active
  \/ /\ ~MustWait(y)
     /\ \E z \in StartAcquire(y, r) :
          /\ Store(s, z)
          /\ IF z.tk # "done" THEN At("acquiring", z) /\ UNCHANGED active
             ELSE IF active[s] = {}
               THEN At("running", z) /\ active' = [active EXCEPT ![s] = {r}]
               ELSE At("handed", z) /\ UNCHANGED active

(* _pick_replica: an idle replica, otherwise a least loaded one.           *)
Busy(s) == slots[s].held \/ slots[s].queued # {}
Load(s) == Cardinality(slots[s].queued) + (IF slots[s].held THEN 1 ELSE 0)
Pick(m) ==
  LET mine == {s \in Slot : ModelOf[s] = m}
      idle == {s \in mine : ~Busy(s)}
  IN  IF idle # {} THEN idle
      ELSE {s \in mine : \A t \in mine : Load(s) <= Load(t)}

(* A new request.  When every replica is busy and concurrency allows it,   *)
(* _maybe_expand_replica awaits the load of one more before the lease.     *)
Arrive(r) ==
  /\ req[r].pc = "idle"
  /\ \E m \in {ModelOf[s] : s \in Slot} : \E s \in Pick(m) :
       \/ Enter(r, s)
       \/ /\ Busy(s) /\ Conc > 1
          /\ req' = [req EXCEPT ![r].pc = "expanding", ![r].at = s]
          /\ UNCHANGED <<slots, pool, active>>

(* The load was refused (the request keeps the slot it saw as busy) or     *)
(* succeeded (it picks again).                                             *)
Expanded(r) ==
  /\ req[r].pc = "expanding"
  /\ \E s \in {req[r].at} \cup Pick(ModelOf[req[r].at]) : Enter(r, s)

-----------------------------------------------------------------------------
(* The acquire task runs: its first step, or the resumption of an await.   *)
TaskOutcomes(r) ==
  LET s == req[r].at
      x == Here(r, s)
      unlocked == LockLeave(x.sl, r)
      left == [pool EXCEPT !.sq = Without(@, r), !.sgrant = @ \ {r}]
      refunded == [left EXCEPT !.free = @ + (IF r \in pool.sgrant THEN 1 ELSE 0)]
      taken == [left EXCEPT !.raw = @ \cup {r}]
      Nudge(pl) == View(x.sl, SemWake(pl, pl.free), x.tk)
  IN
  CASE req[r].task = "spawned" ->
         IF req[r].kill THEN {View(x.sl, x.pl, "done")} ELSE StartAcquire(x, r)
    [] req[r].task = "lock" ->
         IF req[r].kill
           THEN {EndTask(View(IF x.sl.held THEN unlocked ELSE WakeFirst(unlocked),
                              x.pl, x.tk), r)}
         ELSE IF r \in x.sl.lgrant THEN TakeLock(View(unlocked, x.pl, x.tk), r)
         ELSE {}
    [] req[r].task = "sem" ->
         IF req[r].kill THEN {Abort(Nudge(refunded), r)}
         ELSE IF r \in pool.sgrant THEN HavePermit(Nudge(taken), r)
         ELSE {}
    [] req[r].task = "probe" ->
         IF req[r].kill \/ r \in pool.abandoned THEN {Abort(x, r)}
         ELSE {Commit(x, r), View(x.sl, GiveBackPermit(pool, r), "nap")}
    [] req[r].task = "nap" ->
         IF req[r].kill THEN {Abort(x, r)} ELSE TrySem(x, r)
    [] OTHER -> {}

TaskStep(r) ==
  \E x \in TaskOutcomes(r) :
    IF req[r].pc # "acquiring"
      THEN /\ Store(req[r].at, x)
           /\ req' = [req EXCEPT ![r].task = x.tk, ![r].kill = @ /\ x.tk # "done"]
           /\ UNCHANGED active
    ELSE IF req[r].kill THEN Leave(r, req[r].at, x) /\ UNCHANGED active
    ELSE IF x.tk = "done" THEN ToWorker(r, req[r].at, x)
    ELSE /\ Store(req[r].at, x) /\ Move(r, "acquiring", x) /\ UNCHANGED active

-----------------------------------------------------------------------------
(* The waiting generator.  asyncio.wait returned: the cancel helper is     *)
(* done, the acquire task is done, or the heartbeat is due.                *)
AfterAcquire(r) ==
  LET s == req[r].at
      x == Here(r, s)
      y == View(Dequeued(x.sl, r), x.pl, x.tk)
  IN
  IF x.sl.owner # r THEN Leave(r, s, x) /\ UNCHANGED active      \* ENGINE_BUSY
  ELSE IF req[r].cancel THEN Store(s, y) /\ Move(r, "ownedYield", y) /\ UNCHANGED active
  ELSE ToWorker(r, s, y)

WaitReturns(r) ==
  /\ req[r].pc = "waiting"
  /\ \/ /\ req[r].cancel
        /\ req' = [req EXCEPT ![r].pc = "cancelYield"]
        /\ UNCHANGED <<slots, pool, active>>
     \/ req[r].task = "done" /\ AfterAcquire(r)

Heartbeat(r) ==
  /\ req[r].pc = "waiting" /\ req[r].task # "done"
  /\ req' = [req EXCEPT ![r].pc = "beat"]
  /\ UNCHANGED <<slots, pool, active>>

(* The consumer takes the queue event and the loop goes round.             *)
BeatResumes(r) ==
  /\ req[r].pc = "beat"
  /\ IF req[r].task = "done" THEN AfterAcquire(r)
     ELSE LET x == RecoverLane(Here(r, req[r].at), req[r].at)
          IN  Store(req[r].at, x) /\ Move(r, "waiting", x) /\ UNCHANGED active

QueueTimeout(r) ==
  /\ req[r].pc = "beat" /\ req[r].task # "done"
  /\ Leave(r, req[r].at, RecoverLane(Here(r, req[r].at), req[r].at))
  /\ UNCHANGED active

(* The generation ends in the worker, well or badly: the worker's finally  *)
(* block runs, then the pool's.                                            *)
Finish(r) ==
  /\ req[r].pc \in {"running", "handed"}
  /\ Leave(r, req[r].at, Here(r, req[r].at))
  /\ active' = [active EXCEPT ![req[r].at] = @ \ {r}]

(* A request at a yield that is resumed to its end, closed by the API      *)
(* layer, or closed by the garbage collector some time after the client    *)
(* went away.  The pool's finalizer runs first; the worker's generator     *)
(* is only closed later (Drain).                                           *)
Close(r) ==
  /\ req[r].pc \in {"beat", "cancelYield", "ownedYield", "running", "handed"}
  /\ Leave(r, req[r].at, Here(r, req[r].at))
  /\ UNCHANGED active

Drain(r) ==
  /\ req[r].pc \in {"closing", "done"} /\ r \in active[req[r].at]
  /\ active' = [active EXCEPT ![req[r].at] = @ \ {r}]
  /\ UNCHANGED <<slots, pool, req>>

(* The worker's lock came free.                                            *)
WorkerAdmits(r) ==
  /\ req[r].pc = "handed" /\ active[req[r].at] = {}
  /\ ToWorker(r, req[r].at, Here(r, req[r].at))

(* The client's task is cancelled while the generator awaits.              *)
Disconnect(r) ==
  \/ /\ req[r].pc = "expanding"
     /\ req' = [req EXCEPT ![r].pc = "done"] /\ UNCHANGED <<slots, pool, active>>
  \/ /\ req[r].pc = "acquiring" /\ ~req[r].kill
     /\ req' = [req EXCEPT ![r].kill = TRUE] /\ UNCHANGED <<slots, pool, active>>
  \/ /\ req[r].pc = "waiting"
     /\ Leave(r, req[r].at, Here(r, req[r].at)) /\ UNCHANGED active

(* The shielded gather of the finalizer returns, or its frame is cancelled *)
(* and stops waiting.                                                      *)
Join(r) ==
  /\ req[r].pc = "closing"
  /\ pool' = IF r \in pool.tasks THEN pool ELSE [pool EXCEPT !.abandoned = @ \ {r}]
  /\ req' = [req EXCEPT ![r].pc = "done"]
  /\ UNCHANGED <<slots, active>>

Cancel(r) ==
  /\ r \in slots[req[r].at].queued /\ ~req[r].cancel
  /\ req' = [req EXCEPT ![r].cancel = TRUE]
  /\ UNCHANGED <<slots, pool, active>>

-----------------------------------------------------------------------------
(* status() polls every slot; raise_if_queue_full only recovers lanes.     *)
Seen(s) == View(slots[s], pool, "none")
StatusPoll(s) ==
  /\ Store(s, RecoverSlotState(Seen(s), s))
  /\ UNCHANGED <<req, active>>

CapacityCheck(s) ==
  /\ Store(s, RecoverLane(Seen(s), s))
  /\ UNCHANGED <<req, active>>

(* Half a second passes after an orphan verdict.  A task that is ready to  *)
(* run does so within one turn of the event loop, so the horizon never     *)
(* passes over a suspected owner that is about to move.                    *)
TaskReady(r) ==
  \/ req[r].kill
  \/ req[r].task = "spawned"
  \/ req[r].task = "lock" /\ r \in slots[req[r].at].lgrant
  \/ req[r].task = "sem" /\ r \in pool.sgrant
AboutToRun(r) ==
  \/ TaskReady(r)
  \/ req[r].pc = "waiting" /\ (req[r].task = "done" \/ req[r].cancel)
  \/ req[r].pc = "handed" /\ active[req[r].at] = {}

GraceElapses(s) ==
  /\ slots[s].pend # None /\ ~slots[s].aged /\ ~AboutToRun(slots[s].pend)
  /\ slots' = [slots EXCEPT ![s].aged = TRUE]
  /\ UNCHANGED <<pool, req, active>>

Finished == \A r \in Req : req[r].pc = "done" /\ req[r].task \in {"none", "done"}
Stop == Finished /\ UNCHANGED vars

Client(r) == Arrive(r) \/ Cancel(r) \/ Disconnect(r) \/ QueueTimeout(r) \/ Heartbeat(r)
Loop(r) ==
  \/ Expanded(r) \/ TaskStep(r) \/ WaitReturns(r) \/ BeatResumes(r)
  \/ Finish(r) \/ Close(r) \/ Drain(r) \/ WorkerAdmits(r) \/ Join(r)
Poll(s) == StatusPoll(s) \/ CapacityCheck(s) \/ GraceElapses(s)

Next == (\E r \in Req : Client(r) \/ Loop(r)) \/ (\E s \in Slot : Poll(s)) \/ Stop

Spec == Init /\ [][Next]_vars

(* Every ready task runs, every consumer resumes or closes its generator   *)
(* (CPython closes a dropped generator), every generation ends within its  *)
(* total timeout and the menu bar polls once a second.                     *)
Fairness ==
  /\ \A r \in Req :
       /\ WF_vars(Expanded(r)) /\ WF_vars(TaskStep(r)) /\ WF_vars(WaitReturns(r))
       /\ WF_vars(BeatResumes(r)) /\ WF_vars(Finish(r)) /\ WF_vars(Drain(r))
       /\ WF_vars(WorkerAdmits(r)) /\ WF_vars(Join(r))
       /\ WF_vars(req[r].pc \in {"cancelYield", "ownedYield"} /\ Close(r))
  /\ \A s \in Slot : WF_vars(StatusPoll(s)) /\ WF_vars(GraceElapses(s))

FairSpec == Spec /\ Fairness

-----------------------------------------------------------------------------
PCs == {"idle", "expanding", "waiting", "beat", "cancelYield", "ownedYield",
        "acquiring", "handed", "running", "closing", "done"}

(* The state of the lanes is of this type.                                 *)
TypeOK ==
  /\ slots \in [Slot -> SlotState]
  /\ pool \in PoolState
  /\ req \in [Req -> [pc : PCs, at : Slot, task : Tasks, kill : BOOLEAN,
                      cancel : BOOLEAN]]
  /\ active \in [Slot -> SUBSET Req]

(* Requests between their lease and their finalizer.                       *)
Entered(r) == req[r].pc \in {"waiting", "beat", "cancelYield", "ownedYield",
                             "acquiring", "handed", "running"}
Permitted == {s \in Slot : slots[s].permit}

(* The semaphore neither loses nor invents a permit: those free, those     *)
(* handed to a waiter that has not run yet, those held by an acquisition   *)
(* that is still deciding and those of the active lanes are the            *)
(* generationConcurrency of __init__, whatever is cancelled, recovered or  *)
(* abandoned in between.                                                   *)
PermitConservation ==
  pool.free + Cardinality(pool.sgrant) + Cardinality(pool.raw)
    + Cardinality(Permitted) = Conc

(* _gen_active_lanes, which decides between the inline acquisition and the *)
(* queue, counts exactly the lanes that hold a permit.                     *)
LanesCounted == pool.lanes = Cardinality(Permitted)

(* A lane is locked exactly while some request is recorded as its owner,   *)
(* and a permit flag is only up on an owned lane: no lock is stranded      *)
(* without an owner to release it.                                         *)
LaneOwned ==
  \A s \in Slot : /\ slots[s].held <=> slots[s].owner # None
                  /\ slots[s].permit => slots[s].owner # None

(* The owner of a lane is a request of that slot whose finalizer has not   *)
(* run, or whose acquire task is still unwinding: a finalized request does *)
(* not come to own a lane afterwards (the zombie wake-up of                *)
(* _acquire_lane's docstring).                                             *)
NoZombieOwner ==
  \A s \in Slot : LET o == slots[s].owner IN
    o # None => /\ req[o].at = s
                /\ Entered(o) \/ req[o].task \in {"probe", "nap", "sem"}

(* A lane with a permit belongs to a request that can still release it.    *)
NoStrandedPermit ==
  \A s \in Slot : slots[s].permit => Entered(slots[s].owner)

(* A request that queued for its lane and whose acquisition completed owns *)
(* the lane and its permit until it moves on: recovery never takes it, and *)
(* the ENGINE_BUSY branch after the wait is never reached.                 *)
QueuedKeepsLane ==
  \A r \in Req : req[r].pc \in {"waiting", "beat"} /\ req[r].task = "done"
    => slots[req[r].at].owner = r /\ slots[req[r].at].permit

(* A slot never counts more leases than it has requests between lease and  *)
(* finalizer: nothing keeps an idle model from being evicted for ever.     *)
NoPhantomLease ==
  \A s \in Slot : slots[s].leases
    <= Cardinality({r \in Req : Entered(r) /\ req[r].at = s})

(* An abandon marker outlives neither its request nor its acquire task: a  *)
(* marker left behind would abort a later request of the same id.          *)
NoStaleMarker ==
  \A r \in pool.abandoned : req[r].pc # "done" \/ r \in pool.tasks

(* When every request is gone and every task has unwound, all bookkeeping  *)
(* is back to its initial value (a pending orphan verdict excepted).       *)
CleanWhenFinished ==
  Finished => /\ \A s \in Slot : [slots[s] EXCEPT !.pend = None, !.aged = FALSE] = Idle
              /\ pool = [free |-> Conc, sq |-> <<>>, sgrant |-> {}, raw |-> {},
                         lanes |-> 0, abandoned |-> {}, tasks |-> {}]

(* The permits and their counter agree with the lanes, whatever is         *)
(* cancelled, recovered or abandoned: what decides between waiting and     *)
(* running never drifts.                                                   *)
PermitsAccounted == PermitConservation /\ LanesCounted

(* A request leaves nothing behind and loses nothing while it is there: no *)
(* lane or permit without a request to release it, no lease or abandon     *)
(* marker that outlives it, no queued acquisition robbed of its lane, and  *)
(* clean books when all are gone.                                          *)
NothingLeftBehind ==
  NoStrandedPermit /\ QueuedKeepsLane /\ NoPhantomLease /\ NoStaleMarker /\ CleanWhenFinished

(* Every request that took a lease ends, without help from the queue       *)
(* timeout: no lane or permit is lost on the way.                          *)
EveryRequestEnds == \A r \in Req : Entered(r) ~> req[r].pc = "done"

(* The lanes implement the lane service: a slot's holder is the owner of   *)
(* its lane once that lane has its permit.                                 *)
Service == INSTANCE LaneService WITH
  holder <- [s \in Slot |-> IF slots[s].permit THEN slots[s].owner ELSE None]
LaneServiceSpec == Service!Spec

(* _recover_lane: a live request cannot be what a second observation half  *)
(* a second later still sees, so recovery never abandons one.              *)
LiveNeverAbandoned == \A r \in Req : Entered(r) => r \notin pool.abandoned
=============================================================================
