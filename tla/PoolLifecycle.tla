---------------------------- MODULE PoolLifecycle ----------------------------
(***************************************************************************)
(* How the pool's worker processes end with the coordinator                *)
(* (workers/model_pool.py, the end of main.py): shutdown() beside loads    *)
(* and the reaper, a coordinator that is killed, and the next start, which *)
(* looks for workers by the manifests they left.  A slot has a worker      *)
(* object of its own, which spawns one process; slots of one model share   *)
(* the path of their manifest.  Nothing is leased here (PoolSlots has the  *)
(* leases and the admission).                                              *)
(***************************************************************************)
EXTENDS Integers

CONSTANTS
  Call,         \* tasks that call load()
  PoolKey,      \* models
  NoSlot,
  MaxWorkers,   \* bound: worker objects made
  MaxEnds       \* bound: times the coordinator stops or is killed

Worker == 1..MaxWorkers
ASSUME EndsCounted == MaxEnds \in Nat
ASSUME SlotsNamed == NoSlot \notin Worker
ASSUME CallersNamed == Call \cap {"nobody", "main"} = {}

VARIABLES
  main,     \* the coordinator: where its last lines are
  table,    \* self._slots
  made,     \* every slot with its worker object
  named,    \* the manifest files: model -> worker
  latch,    \* who holds self._load_lock
  call,     \* the calls of load(): [pc, key, w]
  sweep,    \* the slot the reaper evicts
  todo,     \* the slots the coordinator's last lines have yet to stop
  passed,   \* workers shutdown() stopped before they had a process
  crossed,  \* workers of a model that was loaded while its old slot was evicted
  strays,   \* processes no manifest leads to, or whose coordinator is gone
  ends      \* bound

lifeVars == <<main, table, made, named, latch, call, sweep, todo, passed, crossed, strays, ends>>

Unmade == [key |-> NoSlot, state |-> "none", fut |-> "none", proc |-> "none",
           known |-> FALSE, socket |-> FALSE]
Nobody == "nobody"
NoCall == [pc |-> "rest", key |-> NoSlot, w |-> NoSlot]
Down == {"gone", "killed"}
Up == main \notin Down
\* self._closing
Closing == main \in {"closing", "stop", "cleared"}
Runs(w) == made[w].proc = "runs"
KeyOf(w) == made[w].key
IsReady(w) == w # NoSlot /\ made[w].state = "ready"
Loading(w) == w # NoSlot /\ made[w].fut # "none"
Goes(c, pc) == call' = [call EXCEPT ![c].pc = pc]
Freed(c) == latch' = IF latch = c THEN Nobody ELSE latch

LifeInit ==
  /\ main = "up" /\ table = [k \in PoolKey |-> NoSlot] /\ made = [w \in Worker |-> Unmade]
  /\ named = [k \in PoolKey |-> NoSlot] /\ latch = Nobody /\ call = [c \in Call |-> NoCall]
  /\ sweep = NoSlot /\ todo = {} /\ passed = {} /\ crossed = {} /\ strays = {} /\ ends = 0

-----------------------------------------------------------------------------
\* _stop_worker: it ends the process it knows of, and forgets socket and manifest.
EndsWorker(w) ==
  /\ made' = [made EXCEPT ![w] = [@ EXCEPT !.known = FALSE, !.socket = FALSE,
                                               !.proc = IF made[w].known THEN "ended" ELSE made[w].proc]]
  /\ named' = [named EXCEPT ![KeyOf(w)] = NoSlot]
Popped(w) == table' = IF table[KeyOf(w)] = w THEN [table EXCEPT ![KeyOf(w)] = NoSlot] ELSE table

\* Slots of a model that are under eviction, in the table or not any more.
Leaving(k) == {w \in Worker : KeyOf(w) = k /\ (w = table[k] \/ w = sweep)}

\* A call finds the model ready, waits for its load, or goes for the lock.
Enters(c, k) ==
  call' = [call EXCEPT ![c] =
    IF IsReady(table[k]) THEN NoCall
    ELSE IF Loading(table[k]) THEN [pc |-> "wait", key |-> k, w |-> table[k]]
    ELSE [pc |-> "queue", key |-> k, w |-> NoSlot]]
Load(c) ==
  /\ Up /\ ~Closing /\ call[c].pc = "rest"
  /\ \E k \in PoolKey : Enters(c, k)
  /\ UNCHANGED <<main, table, made, named, latch, sweep, todo, passed, crossed, strays, ends>>
\* The leader is through.  After a cancelled one the waiter enters again, unless
\* the pool is closing or, still finding that slot, it runs out of attempts.
Resolved(c) ==
  /\ call[c].pc = "wait" /\ made[call[c].w].fut # "pending"
  /\ IF made[call[c].w].fut = "cancelled" /\ ~Closing /\ table[call[c].key] # call[c].w
       THEN Enters(c, call[c].key)
     ELSE call' = [call EXCEPT ![c] = NoCall]
  /\ UNCHANGED <<main, table, made, named, latch, sweep, todo, passed, crossed, strays, ends>>

\* Under the load lock: loaded meanwhile, abandoned by its leader, or to be admitted.
TakesLock(c) ==
  /\ call[c].pc = "queue" /\ latch = Nobody
  /\ LET o == table[call[c].key] IN
       \/ /\ IsReady(o) /\ call' = [call EXCEPT ![c] = NoCall] /\ UNCHANGED latch
       \/ /\ ~IsReady(o) /\ latch' = c
          /\ call' = [call EXCEPT ![c] = IF Loading(o) THEN [@ EXCEPT !.pc = "published", !.w = o]
                                                       ELSE [@ EXCEPT !.pc = "admit"]]
  /\ UNCHANGED <<main, table, made, named, sweep, todo, passed, crossed, strays, ends>>

RefusedAtEnd(c) ==
  /\ call[c].pc = "admit" /\ Closing
  /\ call' = [call EXCEPT ![c] = NoCall] /\ Freed(c)
  /\ UNCHANGED <<main, table, made, named, sweep, todo, passed, crossed, strays, ends>>
\* The slot is published; it takes the place of one under eviction.
Publish(c) ==
  /\ call[c].pc = "admit" /\ ~Closing
  /\ LET k == call[c].key IN \E w \in Worker :
       /\ made[w] = Unmade /\ \A v \in Worker : v < w => made[v] # Unmade
       /\ made' = [made EXCEPT ![w] = [Unmade EXCEPT !.key = k, !.state = "loading", !.fut = "pending"]]
       /\ table' = [table EXCEPT ![k] = w]
       /\ call' = [call EXCEPT ![c].pc = "published", ![c].w = w]
       /\ crossed' = IF Leaving(k) = {} THEN crossed ELSE crossed \cup Leaving(k) \cup {w}
  /\ UNCHANGED <<main, named, latch, sweep, todo, passed, strays, ends>>

\* Evictions and the model's metadata are awaited before the process is there.
Spawns(c) ==
  /\ call[c].pc = "published" /\ Goes(c, "spawn")
  /\ made' = [made EXCEPT ![call[c].w] = [@ EXCEPT !.proc = "runs", !.socket = TRUE]]
  /\ UNCHANGED <<main, table, named, latch, sweep, todo, passed, crossed, strays, ends>>
\* create_subprocess_exec returns; without its socket the load fails.
Recorded(c) ==
  /\ call[c].pc = "spawn"
  /\ made' = [made EXCEPT ![call[c].w] =
       [@ EXCEPT !.known = TRUE, !.fut = IF made[call[c].w].socket THEN made[call[c].w].fut ELSE "failed"]]
  /\ named' = [named EXCEPT ![call[c].key] = call[c].w]
  /\ Goes(c, IF made[call[c].w].socket THEN "load" ELSE "close")
  /\ UNCHANGED <<main, table, latch, sweep, todo, passed, crossed, strays, ends>>
Answered(c) ==
  /\ call[c].pc = "load" /\ Runs(call[c].w)
  /\ made' = [made EXCEPT ![call[c].w] = [@ EXCEPT !.state = "ready", !.fut = "none"]]
  /\ call' = [call EXCEPT ![c] = NoCall] /\ Freed(c)
  /\ UNCHANGED <<main, table, named, sweep, todo, passed, crossed, strays, ends>>
LoadBreaks(c) ==
  /\ call[c].pc = "load" /\ Goes(c, "close")
  /\ made' = [made EXCEPT ![call[c].w].fut = "failed"]
  /\ UNCHANGED <<main, table, named, latch, sweep, todo, passed, crossed, strays, ends>>
Closes(c) ==
  /\ call[c].pc = "close" /\ EndsWorker(call[c].w) /\ Popped(call[c].w)
  /\ call' = [call EXCEPT ![c] = NoCall] /\ Freed(c)
  /\ UNCHANGED <<main, sweep, todo, passed, crossed, strays, ends>>

\* The client hangs up, or the event loop ends.  A process that is being
\* spawned is killed; a cancelled eviction of a victim leaves the slot as it is.
Cancelled(c) ==
  /\ \/ /\ call[c].pc \in {"wait", "queue", "admit", "published"}
        /\ call' = [call EXCEPT ![c] = NoCall] /\ Freed(c) /\ UNCHANGED made
     \/ /\ call[c].pc \in {"published", "spawn", "load"}
        /\ made' = [made EXCEPT ![call[c].w] =
             [@ EXCEPT !.fut = "cancelled",
                       !.proc = IF call[c].pc = "spawn" THEN "ended" ELSE made[call[c].w].proc]]
        /\ Goes(c, "close") /\ UNCHANGED latch
  /\ UNCHANGED <<main, table, named, sweep, todo, passed, crossed, strays, ends>>

-----------------------------------------------------------------------------
\* The reaper evicts an idle slot under no lock; "evicting" hides it from loads.
Sweeps ==
  /\ Up /\ ~Closing /\ sweep = NoSlot
  /\ \E k \in PoolKey :
       /\ IsReady(table[k]) /\ sweep' = table[k]
       /\ made' = [made EXCEPT ![table[k]].state = "evicting"]
  /\ UNCHANGED <<main, table, named, latch, call, todo, passed, crossed, strays, ends>>
Swept ==
  /\ sweep # NoSlot /\ EndsWorker(sweep) /\ Popped(sweep) /\ sweep' = NoSlot
  /\ UNCHANGED <<main, latch, call, todo, passed, crossed, strays, ends>>

-----------------------------------------------------------------------------
(* The coordinator's last lines: unload() waits a while for the load lock, *)
(* then shutdown() stops what is left.                                     *)
InTable == {w \in Worker : \E k \in PoolKey : table[k] = w}
Quits ==
  /\ main = "up" /\ ends < MaxEnds /\ main' = "drain" /\ ends' = ends + 1
  /\ UNCHANGED <<table, made, named, latch, call, sweep, todo, passed, crossed, strays>>
Drains ==
  /\ main = "drain" /\ latch = Nobody /\ main' = "unload" /\ latch' = "main" /\ todo' = InTable
  /\ made' = [w \in Worker |-> IF w \in InTable THEN [made[w] EXCEPT !.state = "evicting"]
                                                 ELSE made[w]]
  /\ UNCHANGED <<table, named, call, sweep, passed, crossed, strays, ends>>
UnloadsSlot ==
  /\ main = "unload" /\ \E w \in todo : EndsWorker(w) /\ Popped(w) /\ todo' = todo \ {w}
  /\ UNCHANGED <<main, latch, call, sweep, passed, crossed, strays, ends>>
\* shutdown() refuses loads before its first await, and cancels the reaper.
ShutsDown ==
  /\ main = "drain" \/ (main = "unload" /\ todo = {})
  /\ main' = "closing" /\ latch' = IF latch = "main" THEN Nobody ELSE latch
  /\ UNCHANGED <<table, made, named, call, sweep, todo, passed, crossed, strays, ends>>
\* The reaper is awaited: it ends where it was suspended, or had just finished.
Snapshot ==
  /\ main = "closing" /\ main' = "stop" /\ todo' = InTable /\ sweep' = NoSlot
  /\ UNCHANGED <<table, made, named, latch, call, passed, crossed, strays, ends>>
Stops ==
  /\ main = "stop"
  /\ \E w \in todo :
       /\ EndsWorker(w) /\ todo' = todo \ {w}
       /\ passed' = IF made[w].known THEN passed ELSE passed \cup {w}
  /\ UNCHANGED <<main, table, latch, call, sweep, crossed, strays, ends>>
Clears ==
  /\ main = "stop" /\ todo = {} /\ main' = "cleared" /\ table' = [k \in PoolKey |-> NoSlot]
  /\ UNCHANGED <<made, named, latch, call, sweep, todo, passed, crossed, strays, ends>>
\* The listener is stopped and the event loop ends with no task left.
Exits ==
  /\ main = "cleared" /\ (\A c \in Call : call[c].pc = "rest") /\ main' = "gone"
  /\ UNCHANGED <<table, made, named, latch, call, sweep, todo, passed, crossed, strays, ends>>

Unrecorded == {call[c].w : c \in {d \in Call : call[d].pc = "spawn"}}
Killed ==
  /\ Up /\ ends < MaxEnds /\ ends' = ends + 1 /\ main' = "killed"
  /\ table' = [k \in PoolKey |-> NoSlot] /\ latch' = Nobody /\ call' = [c \in Call |-> NoCall]
  /\ sweep' = NoSlot /\ todo' = {} /\ strays' = strays \cup Unrecorded
  /\ UNCHANGED <<made, named, passed, crossed>>
\* A worker notices that its parent is gone.
WatchdogFires(w) ==
  /\ Runs(w) /\ (w \in strays \/ ~Up)
  /\ made' = [made EXCEPT ![w].proc = "ended"]
  /\ UNCHANGED <<main, table, named, latch, call, sweep, todo, passed, crossed, strays, ends>>
\* _reap_pool_orphans, when the pool is made: what a manifest names is ended.
ReapsOrphans ==
  /\ ~Up /\ main' = "up" /\ named' = [k \in PoolKey |-> NoSlot]
  /\ LET left == {w \in Worker : Runs(w) /\ \A k \in PoolKey : named[k] # w} IN
     /\ strays' = left
     /\ made' = [w \in Worker |-> IF made[w] = Unmade THEN Unmade
                  ELSE [Unmade EXCEPT !.key = KeyOf(w), !.proc = IF w \in left THEN "runs" ELSE "ended"]]
  /\ passed' = {} /\ crossed' = {}
  /\ UNCHANGED <<table, latch, call, sweep, todo, ends>>

LifeNext ==
  \/ \E c \in Call :
       \/ Load(c) \/ Resolved(c) \/ TakesLock(c) \/ RefusedAtEnd(c) \/ Publish(c) \/ Spawns(c)
       \/ Recorded(c) \/ Answered(c) \/ LoadBreaks(c) \/ Closes(c) \/ Cancelled(c)
  \/ Sweeps \/ Swept \/ Quits \/ Drains \/ UnloadsSlot \/ ShutsDown \/ Snapshot \/ Stops \/ Clears
  \/ Exits \/ Killed \/ ReapsOrphans \/ \E w \in Worker : WatchdogFires(w)

-----------------------------------------------------------------------------
LifeTypeOK ==
  /\ main \in {"up", "drain", "unload", "closing", "stop", "cleared"} \cup Down
  /\ table \in [PoolKey -> Worker \cup {NoSlot}] /\ named \in [PoolKey -> Worker \cup {NoSlot}]
  /\ latch \in Call \cup {Nobody, "main"} /\ sweep \in Worker \cup {NoSlot}
  /\ todo \cup passed \cup crossed \cup strays \subseteq Worker /\ ends \in 0..MaxEnds
  /\ \A c \in Call : call[c].w \in Worker \cup {NoSlot}

\* "Nothing can create a slot between this snapshot and the teardown below":
\* whatever waited for a lock, an admission or a cancelled leader when the pool
\* began to close, its table is empty once it is cleared.
ClosedForLoads == main \in {"cleared", "gone"} => \A k \in PoolKey : table[k] = NoSlot

\* The manifest "is what lets a fresh start find and clean it up": at any moment
\* a coordinator may be killed, each of its processes is named by its model's
\* manifest or is just being spawned - unless the model was loaded again while
\* its old slot was evicted, for the two share one manifest.
WorkersFindable ==
  \A w \in Worker : Runs(w) => named[KeyOf(w)] = w \/ w \in Unrecorded \cup crossed \cup strays

\* A coordinator that ended by itself leaves no process, other than one whose
\* load had its slot in the snapshot and no process yet.
ExitsClean == main = "gone" => \A w \in Worker : Runs(w) => w \in passed \cup crossed \cup strays

\* The same without exceptions, as main.py says it of the last lines: a worker
\* not stopped there "survives this coordinator as an orphan".  The code breaks it.
NoneSurvives == main = "gone" => \A w \in Worker : Runs(w) => w \in strays
\* What the manifest is for, also when the reaper ends the old worker of a model
\* after the new one has been recorded.  The code breaks it.
AlwaysNamed == \A w \in Worker : Runs(w) => named[KeyOf(w)] = w \/ w \in Unrecorded \cup strays
=============================================================================
