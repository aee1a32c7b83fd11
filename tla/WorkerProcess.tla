--------------------------- MODULE WorkerProcess ---------------------------
(***************************************************************************)
(* A worker supervisor (src/Coordinator/mlxbar/workers/supervisor.py) and  *)
(* the process it looks after.  Loads exclude each other by a lock, but    *)
(* generations, cancels, unloads, probes and status calls do not take it:  *)
(* they stop the worker, or forget the model, while a load is suspended    *)
(* anywhere.  The coordinator may die and start again.                     *)
(***************************************************************************)
EXTENDS Integers, Sequences, FiniteSets

CONSTANTS
  Loader, Gen, Unloader, Forcer, Prober,  \* tasks: load, generate, unload, cancel, probe
  ProcModel, Engine,
  Candidates,   \* what a load may try: an explicit engine, or an engine and its fallback
  Nothing,
  MaxPid,       \* bound: processes started
  MaxLoads,     \* bound: loads asked for
  MaxDeaths,    \* bound: workers that die or hang by themselves
  MaxProcRestarts   \* bound: coordinators that die

ASSUME CandidatesSeq == Candidates \subseteq Seq(Engine) \ {<<>>}

Threshold == 2   \* CRASH_LOOP_THRESHOLD
Task == Loader \cup Gen \cup Unloader \cup Forcer \cup Prober
Pid == 1..MaxPid
ASSUME PidsCounted == MaxPid \in Nat
ASSUME LoadersApart == Loader \cap (Gen \cup Unloader \cup Forcer \cup Prober) = {}
ASSUME NothingApart == Nothing \notin Task \cup Pid

VARIABLES
  alive,      \* processes that run
  holds,      \* the model in the memory of each process
  proc,       \* self.process: its pid, which may be dead, or Nothing
  socket,     \* whether self.socket_path is set
  eng,        \* self.engine
  manifest,   \* the pid in the worker manifest
  loaded,     \* self.loaded: [m, e], or Nothing
  lock,       \* who holds self.lock
  crashes,    \* the models of the deaths within the window, oldest first
  orphans,    \* workers of coordinators that died
  task,       \* the tasks: [pc, m, todo, pid, then]
  used       \* bounds: [pid, loads, deaths, restarts, probed]

worker == <<alive, holds, proc, socket, eng, manifest>>
procVars == <<worker, loaded, lock, crashes, orphans, task, used>>

Resting == [pc |-> "rest", m |-> Nothing, todo |-> <<>>, pid |-> Nothing, then |-> "none"]
Lives(p) == p \in alive
PutTask(t, r) == task' = [task EXCEPT ![t] = r]
Pc(t) == task[t].pc
Engaged == {g \in Gen : Pc(g) \in {"stream", "halt"}}

ProcInit ==
  /\ alive = {} /\ holds = [p \in Pid |-> Nothing] /\ proc = Nothing /\ socket = FALSE
  /\ eng = Nothing /\ manifest = Nothing /\ loaded = Nothing /\ lock = Nothing
  /\ crashes = <<>> /\ orphans = {} /\ task = [t \in Task |-> Resting]
  /\ used = [pid |-> 0, loads |-> 0, deaths |-> 0, restarts |-> 0, probed |-> FALSE]

-----------------------------------------------------------------------------
(* Stopping and starting.  Both end in a continuation of their caller.     *)
Gone == proc' = Nothing /\ socket' = FALSE /\ eng' = Nothing /\ manifest' = Nothing

\* create_subprocess_exec is awaited with the socket's path chosen.
Spawning(t, todo) ==
  /\ PutTask(t, [task[t] EXCEPT !.pc = "spawn", !.pid = Nothing, !.todo = todo])
  /\ socket' = TRUE /\ proc' = Nothing /\ eng' = Nothing /\ manifest' = Nothing
Finish(t, r) == PutTask(t, IF t \in Loader THEN [Resting EXCEPT !.pc = r, !.m = task[t].m] ELSE Resting)

\* What the caller does once the worker is stopped: it starts another, or
\* fails; either may follow the end of the loaded model.
Starts == {"start", "fresh"}
Forgets == {"fresh", "forget"}
Land(t, then, todo) == IF then \in Starts THEN Spawning(t, todo) ELSE Gone /\ Finish(t, "failed")
Settled(t, then) ==
  /\ loaded' = IF then \in Forgets THEN Nothing ELSE loaded
  /\ lock' = IF then \notin Starts /\ lock = t THEN Nothing ELSE lock

\* _stop_worker: a running process is terminated, then killed, and awaited.
Running == proc # Nothing /\ Lives(proc)
Stop(t, then, todo) ==
  IF Running
    THEN /\ PutTask(t, [task[t] EXCEPT !.pc = "halt", !.pid = proc, !.then = then, !.todo = todo])
         /\ UNCHANGED <<proc, socket, eng, manifest>>
    ELSE Land(t, then, todo)
Halt(t, then, todo) ==
  Stop(t, then, todo) /\ IF Running THEN UNCHANGED <<loaded, lock>> ELSE Settled(t, then)
Halted(t) ==
  /\ Pc(t) = "halt" /\ ~Lives(task[t].pid)
  /\ Land(t, task[t].then, task[t].todo) /\ Settled(t, task[t].then)
  /\ UNCHANGED <<alive, holds, crashes, orphans, used>>
Terminated(p) ==
  /\ \E t \in Task : Pc(t) = "halt" /\ task[t].pid = p
  /\ Lives(p) /\ alive' = alive \ {p}
  /\ UNCHANGED <<holds, proc, socket, eng, manifest, loaded, lock, crashes, orphans, task, used>>

\* _start_worker: a worker of the same engine is taken as it is.
Begin(t, todo) ==
  IF Running /\ eng = Head(todo)
    THEN /\ PutTask(t, [task[t] EXCEPT !.pc = "ready", !.pid = proc, !.todo = todo])
         /\ UNCHANGED <<proc, socket, eng, manifest>>
    ELSE Stop(t, "start", todo)

\* Whoever waits for a process resumes in the step of the event loop that
\* delivers its death; a spawn takes longer than that.
Delivered == \A t \in Task : Pc(t) = "halt" => Lives(task[t].pid)
\* The manifest is written at spawn time.
Record(p) == manifest' = p
Spawned(t) ==
  /\ Pc(t) = "spawn" /\ Delivered /\ used.pid < MaxPid
  /\ LET p == used.pid + 1 IN
     /\ alive' = alive \cup {p} /\ proc' = p /\ Record(p) /\ eng' = Head(task[t].todo)
     /\ PutTask(t, [task[t] EXCEPT !.pc = "health", !.pid = p])
     /\ used' = [used EXCEPT !.pid = p]
  /\ UNCHANGED <<holds, socket, loaded, lock, crashes, orphans>>

Healthy(t) ==
  /\ Pc(t) = "health" /\ socket /\ Running
  /\ PutTask(t, [task[t] EXCEPT !.pc = "ready", !.pid = proc])
  /\ UNCHANGED <<worker, loaded, lock, crashes, orphans, used>>
\* Another task stopped the worker and cleared what this one reads.
Robbed(t) ==
  /\ Pc(t) = "health" /\ (~socket \/ proc = Nothing)
  /\ Halt(t, "fail", <<>>)
  /\ UNCHANGED <<alive, holds, crashes, orphans, used>>
Crash(m) == crashes' = Append(crashes, m)
StartupDeath(t) ==
  /\ Pc(t) = "health" /\ proc # Nothing /\ ~Lives(proc)
  /\ Crash(task[t].m) /\ Halt(t, "fail", <<>>)
  /\ UNCHANGED <<alive, holds, orphans, used>>
StartupTimeout(t) ==
  /\ Pc(t) = "health" /\ Running /\ socket /\ used.deaths < MaxDeaths
  /\ Crash(task[t].m) /\ Halt(t, "fail", <<>>)
  /\ used' = [used EXCEPT !.deaths = @ + 1]
  /\ UNCHANGED <<alive, holds, orphans>>

-----------------------------------------------------------------------------
(* load *)
Ask(l, m, c) ==
  /\ Pc(l) \in {"rest", "loaded", "failed", "refused"} /\ used.loads < MaxLoads
  /\ used' = [used EXCEPT !.loads = @ + 1]
  /\ PutTask(l, [Resting EXCEPT !.pc = "lock", !.m = m, !.todo = c])
  /\ UNCHANGED <<worker, loaded, lock, crashes, orphans>>

CrashLoop(m) == Len(crashes) >= Threshold /\ (loaded # Nothing => loaded.m = m)
Resident(l) == loaded = [m |-> task[l].m, e |-> Head(task[l].todo)]
Entering(l) == Pc(l) = "lock" /\ lock = Nothing

Refuse(l) ==
  /\ Entering(l) /\ CrashLoop(task[l].m) /\ Finish(l, "refused")
  /\ UNCHANGED <<worker, loaded, lock, crashes, orphans, used>>
AlreadyLoaded(l) ==
  /\ Entering(l) /\ ~CrashLoop(task[l].m) /\ Resident(l) /\ Finish(l, "loaded")
  /\ UNCHANGED <<worker, loaded, lock, crashes, orphans, used>>
Switch(l) ==
  /\ Entering(l) /\ ~CrashLoop(task[l].m) /\ loaded # Nothing /\ ~Resident(l)
  /\ lock' = l /\ PutTask(l, [task[l] EXCEPT !.pc = "unload", !.pid = proc])
  /\ UNCHANGED <<worker, loaded, crashes, orphans, used>>
FirstLoad(l) ==
  /\ Entering(l) /\ ~CrashLoop(task[l].m) /\ loaded = Nothing
  /\ lock' = l /\ Begin(l, task[l].todo)
  /\ UNCHANGED <<alive, holds, loaded, crashes, orphans, used>>

\* The worker answers its calls in order.
Answers(t) == Lives(task[t].pid) /\ \A u \in Unloader : Pc(u) = "unload" => task[u].pid # task[t].pid
LoadOk(l) ==
  /\ l \in Loader /\ Pc(l) = "ready" /\ Answers(l)
  /\ loaded' = [m |-> task[l].m, e |-> Head(task[l].todo)]
  /\ holds' = [holds EXCEPT ![task[l].pid] = task[l].m]
  /\ Finish(l, "loaded") /\ lock' = Nothing
  /\ UNCHANGED <<alive, proc, socket, eng, manifest, crashes, orphans, used>>
\* The next candidate is tried; without one the load has failed.
Incompatible(l) ==
  /\ l \in Loader /\ Pc(l) = "ready" /\ Answers(l)
  /\ IF Len(task[l].todo) = 1 THEN Halt(l, "fail", <<>>) ELSE Halt(l, "start", Tail(task[l].todo))
  /\ UNCHANGED <<alive, holds, crashes, orphans, used>>
\* Another error, a timeout or a lost connection.
LoadError(l) ==
  /\ l \in Loader /\ Pc(l) = "ready" /\ (~Lives(task[l].pid) \/ used.deaths < MaxDeaths)
  /\ used' = [used EXCEPT !.deaths = IF Lives(task[l].pid) THEN @ + 1 ELSE @]
  /\ Halt(l, "fail", <<>>)
  /\ UNCHANGED <<alive, holds, crashes, orphans>>

-----------------------------------------------------------------------------
(* unload, alone or within a load; the worker process stays. *)
UnloadBegin(u) ==
  /\ Pc(u) = "rest" /\ loaded # Nothing
  /\ PutTask(u, [Resting EXCEPT !.pc = "unload", !.pid = proc])
  /\ UNCHANGED <<worker, loaded, lock, crashes, orphans, used>>
UnloadOk(t) ==
  /\ Pc(t) = "unload" /\ task[t].pid # Nothing /\ Lives(task[t].pid)
  /\ holds' = [holds EXCEPT ![task[t].pid] = Nothing] /\ loaded' = Nothing
  /\ IF t \in Unloader THEN PutTask(t, Resting) /\ UNCHANGED <<proc, socket, eng, manifest>>
     ELSE Begin(t, task[t].todo)
  /\ UNCHANGED <<alive, lock, crashes, orphans, used>>
UnloadFails(t) ==
  /\ Pc(t) = "unload" /\ (task[t].pid = Nothing \/ ~Lives(task[t].pid) \/ used.deaths < MaxDeaths)
  /\ used' = [used EXCEPT !.deaths = IF task[t].pid # Nothing /\ Lives(task[t].pid) THEN @ + 1 ELSE @]
  /\ Halt(t, IF t \in Unloader THEN "forget" ELSE "fresh", task[t].todo)
  /\ UNCHANGED <<alive, holds, crashes, orphans>>

-----------------------------------------------------------------------------
(* A generation, the cancel that gives up on it, and the status call. *)
Generate(g) ==
  /\ Pc(g) = "rest" /\ loaded # Nothing /\ Engaged = {}
  /\ PutTask(g, [Resting EXCEPT !.pc = "stream", !.m = loaded.m, !.pid = proc])
  /\ UNCHANGED <<worker, loaded, lock, crashes, orphans, used>>
Replied(g) ==
  /\ Pc(g) = "stream" /\ PutTask(g, Resting)
  /\ UNCHANGED <<worker, loaded, lock, crashes, orphans, used>>
\* The connection is lost, or neither a token nor a heartbeat came for too long.
StreamBreaks(g) ==
  /\ Pc(g) = "stream" /\ (task[g].pid = Nothing \/ ~Lives(task[g].pid) \/ used.deaths < MaxDeaths)
  /\ used' = [used EXCEPT !.deaths = IF task[g].pid # Nothing /\ Lives(task[g].pid) THEN @ + 1 ELSE @]
  /\ Crash(task[g].m) /\ Halt(g, "forget", <<>>)
  /\ UNCHANGED <<alive, holds, orphans>>
GivesUp(f) ==
  /\ Pc(f) = "rest" /\ Engaged # {} /\ used.deaths < MaxDeaths
  /\ used' = [used EXCEPT !.deaths = @ + 1] /\ Halt(f, "forget", <<>>)
  /\ UNCHANGED <<alive, holds, crashes, orphans>>
ForgetDead ==
  /\ loaded # Nothing /\ (proc = Nothing \/ ~Lives(proc)) /\ Engaged = {}
  /\ \A l \in Loader : Pc(l) \in {"rest", "lock", "loaded", "failed", "refused"}
  /\ loaded' = Nothing
  /\ UNCHANGED <<worker, lock, crashes, orphans, task, used>>

\* probe_runtime starts a worker without the lock and always stops it.
Probe(p, e) ==
  /\ Pc(p) = "rest" /\ loaded = Nothing /\ ~used.probed
  /\ used' = [used EXCEPT !.probed = TRUE]
  /\ Begin(p, <<e>>)
  /\ UNCHANGED <<alive, holds, loaded, lock, crashes, orphans>>
Probed(p) ==
  /\ p \in Prober /\ Pc(p) = "ready" /\ Halt(p, "fail", <<>>)
  /\ UNCHANGED <<alive, holds, crashes, orphans, used>>

-----------------------------------------------------------------------------
(* The processes, time and the coordinator. *)
Dies(p) ==
  /\ Lives(p) /\ used.deaths < MaxDeaths /\ used' = [used EXCEPT !.deaths = @ + 1]
  /\ alive' = alive \ {p}
  /\ UNCHANGED <<holds, proc, socket, eng, manifest, loaded, lock, crashes, orphans, task>>
WindowPasses ==
  /\ crashes # <<>> /\ crashes' = Tail(crashes)
  /\ UNCHANGED <<worker, loaded, lock, orphans, task, used>>
\* The worker a manifest names, if it still runs.
OurWorker == alive \cap {manifest}
\* The coordinator dies and starts again: the manifest names the worker to kill.
ProcRestart ==
  /\ used.restarts < MaxProcRestarts /\ used' = [used EXCEPT !.restarts = @ + 1]
  /\ alive' = alive \ OurWorker /\ orphans' = alive \ OurWorker
  /\ Gone /\ loaded' = Nothing /\ lock' = Nothing /\ crashes' = <<>>
  /\ task' = [t \in Task |-> Resting] /\ UNCHANGED holds
\* A worker whose parent is gone ends by itself.
OrphanExits(p) ==
  /\ p \in orphans /\ orphans' = orphans \ {p} /\ alive' = alive \ {p}
  /\ UNCHANGED <<holds, proc, socket, eng, manifest, loaded, lock, crashes, task, used>>

Progress(t) ==
  \/ Halted(t) \/ Spawned(t) \/ Healthy(t) \/ Robbed(t) \/ StartupDeath(t) \/ UnloadOk(t) \/ UnloadFails(t)
LoadStep(l) ==
  \/ Refuse(l) \/ AlreadyLoaded(l) \/ Switch(l) \/ FirstLoad(l)
  \/ LoadOk(l) \/ Incompatible(l) \/ LoadError(l)
ProcNext ==
  \/ \E t \in Task : Progress(t) \/ StartupTimeout(t)
  \/ \E l \in Loader : LoadStep(l) \/ \E m \in ProcModel, c \in Candidates : Ask(l, m, c)
  \/ \E u \in Unloader : UnloadBegin(u)
  \/ \E g \in Gen : Generate(g) \/ Replied(g) \/ StreamBreaks(g)
  \/ \E f \in Forcer : GivesUp(f)
  \/ \E p \in Prober : Probed(p) \/ \E e \in Engine : Probe(p, e)
  \/ \E p \in Pid : Terminated(p) \/ Dies(p) \/ OrphanExits(p)
  \/ ForgetDead \/ WindowPasses \/ ProcRestart
ProcSpec == ProcInit /\ [][ProcNext]_procVars

-----------------------------------------------------------------------------
ProcTypeOK ==
  /\ alive \subseteq Pid /\ holds \in [Pid -> ProcModel \cup {Nothing}]
  /\ proc \in Pid \cup {Nothing} /\ socket \in BOOLEAN /\ eng \in Engine \cup {Nothing}
  /\ manifest \in Pid \cup {Nothing} /\ loaded \in [m : ProcModel, e : Engine] \cup {Nothing}
  /\ lock \in Loader \cup {Nothing} /\ orphans \subseteq Pid
  /\ \A t \in Task : task[t].pid \in Pid \cup {Nothing}

\* "The manifest written at spawn time is what lets a fresh start find and clean
\* it up": every worker that runs is the supervisor's own and named by the
\* manifest, or somebody waits for it to end, or its parent is gone - as long
\* as no probe ran beside a load.
WorkersAccounted ==
  \A p \in alive \ orphans :
    \/ p = proc /\ p = manifest
    \/ \E t \in Task : Pc(t) = "halt" /\ task[t].pid = p
    \/ used.probed

\* Once the tasks that stop workers are through, a model is called loaded only
\* on a worker that holds it, or that has died since.
LoadedIsHeld ==
  loaded # Nothing /\ ~used.probed /\ (\A t \in Task : Pc(t) # "halt") =>
    /\ proc # Nothing
    /\ Lives(proc) => holds[proc] = loaded.m \/ \E t \in Task : Pc(t) = "unload"

\* "True when this model has exhausted its retry budget": a model that never
\* brought the worker down is not refused.  The code breaks it when one
\* supervisor serves several models.
RefusedForItself ==
  [][\A l \in Loader : Refuse(l) => task[l].m \in {crashes[k] : k \in DOMAIN crashes}]_procVars
=============================================================================
