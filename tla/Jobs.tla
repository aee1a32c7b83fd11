-------------------------------- MODULE Jobs --------------------------------
(***************************************************************************)
(* The job manager (jobs.py): one job, the task that runs it, the handlers *)
(* that cancel it, the event streams that follow it and the coordinator's  *)
(* restart.  An action is the code of one task between two suspensions;    *)
(* update() never suspends, its queue is unbounded.                        *)
(***************************************************************************)
EXTENDS Naturals, Sequences, FiniteSets

CONSTANTS Sub,          \* event streams: one call of events() each
          Canceller,    \* calls of cancel()
          MaxProgress   \* bound: progress events of the job

ASSUME SubAssumption == IsFiniteSet(Sub) /\ IsFiniteSet(Canceller)
ASSUME ProgressAssumption == MaxProgress \in Nat

VARIABLES
  row,     \* the job's state in the database
  task,    \* its asyncio task, and whether cancel() was called on it
  tracked, \* the job is in JobManager.tasks
  queues,  \* the queue JobManager.queues holds for the job, and the contents
           \* of every queue object that ever was there
  subs,    \* stream -> where its generator is and the queue it reads
  cancs    \* canceller -> where it is

jobVars == <<row, task, tracked, queues, subs, cancs>>

Terminal == {"completed", "failed", "cancelled"}

(* Queue objects: the one create() makes, and the one setdefault() makes   *)
(* when a stream finds none.                                               *)
NoQueue == 0
Queue == 1..2

JobInit ==
  /\ row = "none"
  /\ task = [pc |-> "none", kill |-> FALSE, sent |-> 0]
  /\ tracked = FALSE
  /\ queues = [held |-> NoQueue, items |-> [k \in Queue |-> <<>>]]
  /\ subs = [s \in Sub |-> [pc |-> "idle", q |-> NoQueue, last |-> "none"]]
  /\ cancs = [c \in Canceller |-> "idle"]

Put(qs, e) ==
  IF qs.held = NoQueue THEN qs
  ELSE [qs EXCEPT !.items[qs.held] = Append(@, e)]
Dropped(qs) == [qs EXCEPT !.held = NoQueue]

-----------------------------------------------------------------------------
Create ==
  /\ row = "none"
  /\ row' = "queued" /\ tracked' = TRUE
  /\ task' = [task EXCEPT !.pc = "fresh"]
  /\ queues' = [queues EXCEPT !.held = 1]
  /\ UNCHANGED <<subs, cancs>>

(* _run's first step, and update() of the work (a cancelled work may still *)
(* report its clean-up).                                                   *)
Progress ==
  /\ \/ task.pc = "fresh" /\ ~task.kill
     \/ task.pc = "working" /\ task.sent < MaxProgress
  /\ row' = "running"
  /\ queues' = Put(queues, "running")
  /\ task' = [task EXCEPT !.pc = "working", !.sent = IF task.pc = "fresh" THEN @ ELSE @ + 1]
  /\ UNCHANGED <<tracked, subs, cancs>>

(* The work returns, raises, or is cancelled; cancelled work may turn the  *)
(* cancellation into another error (a rollback that failed) or return.     *)
Finish(state) ==
  /\ task.pc = "working"
  /\ row' = state /\ queues' = Dropped(Put(queues, state))
  /\ task' = [task EXCEPT !.pc = "done"] /\ tracked' = FALSE
  /\ UNCHANGED <<subs, cancs>>

(* Cancelled before its first step: no line of _run ever executes.         *)
NeverRan ==
  /\ task.pc = "fresh" /\ task.kill
  /\ task' = [task EXCEPT !.pc = "done"]
  /\ UNCHANGED <<row, tracked, queues, subs, cancs>>

TaskStep ==
  \/ Progress \/ NeverRan
  \/ Finish("completed") \/ Finish("failed")
  \/ (task.kill /\ Finish("cancelled"))

-----------------------------------------------------------------------------
(* A row that ended, or a job no longer tracked, is returned as it is.     *)
CancelJob(c) ==
  /\ cancs[c] = "idle" /\ row # "none"
  /\ IF row \in Terminal \/ ~tracked
       THEN cancs' = [cancs EXCEPT ![c] = "done"] /\ UNCHANGED task
       ELSE /\ task' = [task EXCEPT !.kill = task.pc # "done"]
            /\ cancs' = [cancs EXCEPT ![c] = "joining"]
  /\ UNCHANGED <<row, tracked, queues, subs>>

(* mutants: the row is not read again after the wait; no terminal record   *)
(* is written for a task that never ran.                                   *)
CancelJoins_Blind(c) ==
  /\ cancs[c] = "joining" /\ task.pc = "done"
  /\ cancs' = [cancs EXCEPT ![c] = "done"]
  /\ row' = "cancelled" /\ tracked' = FALSE
  /\ queues' = Dropped(Put(queues, "cancelled"))
  /\ UNCHANGED <<task, subs>>
CancelJoins_Trusts(c) ==
  /\ cancs[c] = "joining" /\ task.pc = "done"
  /\ cancs' = [cancs EXCEPT ![c] = "done"]
  /\ UNCHANGED <<row, task, tracked, queues, subs>>

(* The cancelled task ended.  One that never ran left its row behind.      *)
CancelJoins(c) ==
  /\ cancs[c] = "joining" /\ task.pc = "done"
  /\ cancs' = [cancs EXCEPT ![c] = "done"]
  /\ IF row \in Terminal THEN UNCHANGED <<row, tracked, queues>>
     ELSE /\ row' = "cancelled" /\ tracked' = FALSE
          /\ queues' = Dropped(Put(queues, "cancelled"))
  /\ UNCHANGED <<task, subs>>

-----------------------------------------------------------------------------
Sets(s, pc, q, e) == subs' = [subs EXCEPT ![s] = [pc |-> pc, q |-> q, last |-> e]]

(* events(): the row first.                                                *)
Subscribe(s) ==
  /\ subs[s].pc = "idle" /\ row # "none"
  /\ Sets(s, "hello", NoQueue, row)
  /\ UNCHANGED <<row, task, tracked, queues, cancs>>

(* The consumer took the row: subscribe, then look at the row once more.   *)
(* mutant: the row is not looked at again.                                 *)
Attach_Once(s) ==
  /\ subs[s].pc = "hello"
  /\ LET k == IF queues.held = NoQueue THEN 2 ELSE queues.held
     IN  IF subs[s].last \in Terminal
           THEN Sets(s, "ended", NoQueue, subs[s].last) /\ UNCHANGED queues
         ELSE queues' = [queues EXCEPT !.held = k] /\ Sets(s, "waiting", k, row)
  /\ UNCHANGED <<row, task, tracked, cancs>>

Attach(s) ==
  /\ subs[s].pc = "hello"
  /\ LET k == IF queues.held = NoQueue THEN 2 ELSE queues.held
     IN  IF subs[s].last \in Terminal
           THEN Sets(s, "ended", NoQueue, subs[s].last) /\ UNCHANGED queues
         ELSE /\ queues' = [queues EXCEPT !.held = k]
              /\ IF row \in Terminal THEN Sets(s, "ended", NoQueue, row)
                 ELSE Sets(s, "waiting", k, row)
  /\ UNCHANGED <<row, task, tracked, cancs>>

(* queue.get(): one of the streams that wait on a queue takes its head,    *)
(* and goes round when its consumer has taken it.                          *)
Receive(s) ==
  /\ subs[s].pc = "waiting" /\ queues.items[subs[s].q] # <<>>
  /\ LET e == Head(queues.items[subs[s].q])
     IN  Sets(s, IF e \in Terminal THEN "ended" ELSE "waiting", subs[s].q, e)
  /\ queues' = [queues EXCEPT !.items[subs[s].q] = Tail(@)]
  /\ UNCHANGED <<row, task, tracked, cancs>>

(* The client goes away.                                                   *)
Leave(s) ==
  /\ subs[s].pc \in {"hello", "waiting"}
  /\ Sets(s, "ended", NoQueue, "left")
  /\ UNCHANGED <<row, task, tracked, queues, cancs>>

-----------------------------------------------------------------------------
(* The coordinator dies and comes back: rows still active become failed.   *)
(* mutant: every row does.                                                 *)
Interrupted_All(r) == "failed"
Interrupted(r) == IF r \in {"queued", "running"} THEN "failed" ELSE r

Restart ==
  /\ row # "none"
  /\ row' = Interrupted(row)
  /\ task' = [pc |-> "done", kill |-> FALSE, sent |-> 0] /\ tracked' = FALSE
  /\ queues' = [held |-> NoQueue, items |-> [k \in Queue |-> <<>>]]
  /\ subs' = [s \in Sub |-> IF subs[s].pc = "idle" THEN subs[s]
                            ELSE [pc |-> "ended", q |-> NoQueue, last |-> "left"]]
  /\ cancs' = [c \in Canceller |-> IF cancs[c] = "idle" THEN "idle" ELSE "done"]

Done == /\ row \in Terminal
        /\ \A s \in Sub : subs[s].pc = "ended"
        /\ \A c \in Canceller : cancs[c] = "done"
Stop == Done /\ UNCHANGED jobVars

JobNext ==
  \/ Create \/ TaskStep \/ Restart \/ Stop
  \/ \E c \in Canceller : CancelJob(c) \/ CancelJoins(c)
  \/ \E s \in Sub : Subscribe(s) \/ Attach(s) \/ Receive(s) \/ Leave(s)

JobSpec == JobInit /\ [][JobNext]_jobVars

(* The loop runs every ready task, every job has its timeouts and every    *)
(* consumer reads on.                                                      *)
JobFairSpec ==
  /\ JobSpec /\ WF_jobVars(TaskStep)
  /\ \A c \in Canceller : WF_jobVars(CancelJoins(c))
  /\ \A s \in Sub : WF_jobVars(Attach(s)) /\ WF_jobVars(Receive(s))

-----------------------------------------------------------------------------
(* The job manager's state is of this type.                                *)
JobTypeOK ==
  /\ row \in {"none", "queued", "running"} \cup Terminal
  /\ task \in [pc : {"none", "fresh", "working", "done"}, kill : BOOLEAN,
               sent : 0..MaxProgress]
  /\ tracked \in BOOLEAN
  /\ queues \in [held : Queue \cup {NoQueue}, items : [Queue -> Seq({"running"} \cup Terminal)]]
  /\ subs \in [Sub -> [pc : {"idle", "hello", "waiting", "ended"},
                       q : Queue \cup {NoQueue},
                       last : {"none", "queued", "running", "left"} \cup Terminal]]
  /\ cancs \in [Canceller -> {"idle", "joining", "done"}]

(* The row implements the life of a job: it ends once, whichever of the    *)
(* task, two cancellers and a restart ends it, and never changes again.    *)
Life == INSTANCE JobLife
RowLife == Life!Spec

(* A row still active has a task that will end it, or a canceller that     *)
(* will: no job is reported as running for ever, which would refuse every  *)
(* later update of its engine.                                             *)
ActiveIsTended ==
  row \in {"queued", "running"} =>
    \/ task.pc \in {"fresh", "working"}
    \/ \E c \in Canceller : cancs[c] = "joining"

(* A stream that stopped at a terminal event told its client the outcome   *)
(* the row records for good, however the task, the cancellers and the      *)
(* stream's two reads of the row interleaved.                              *)
StreamTellsOutcome ==
  \A s \in Sub : subs[s].last \in Terminal => row = subs[s].last

(* Every stream ends.                                                      *)
StreamsEnd == \A s \in Sub : (subs[s].pc \in {"hello", "waiting"}) ~> (subs[s].pc = "ended")
=============================================================================
