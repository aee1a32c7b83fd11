----------------------------- MODULE WorkerGate -----------------------------
(***************************************************************************)
(* The gate of a supervisor that serves one model without the pool         *)
(* (supervisor.py, generate, cancel and the recovery of an orphaned slot): *)
(* one generation at a time, the others queued in order of arrival.  A     *)
(* request that waits has an acquire task; asyncio.Lock serves those in    *)
(* the order they came, so the queue is also the order of the lock.        *)
(***************************************************************************)
EXTENDS Naturals, Sequences, SequencesExt

CONSTANTS Caller, MaxQueued, None
ASSUME NoneIsNobody == None \notin Caller
VARIABLES
  at,       \* where each request is
  queue,    \* queued_requests, in order of arrival
  locked,   \* generation_lock.locked()
  owner     \* generation_owner

gateVars == <<at, queue, locked, owner>>

ActiveNow == {r \in Caller : at[r] = "run"}
Waiting(r) == r \in ToSet(queue)
\* queued_requests without one request.
Dequeued(r) == RemoveAt(queue, CHOOSE k \in DOMAIN queue : queue[k] = r)
GateInit ==
  at = [r \in Caller |-> "new"] /\ queue = <<>> /\ locked = FALSE /\ owner = None

\* An owner in neither table has vanished; its slot is taken back unless
\* something is generated.
Orphaned == locked /\ owner \notin ActiveNow /\ ~Waiting(owner) /\ ActiveNow = {}
LockedNow == locked /\ ~Orphaned
OwnerNow == IF Orphaned THEN None ELSE owner
Recover ==
  Orphaned /\ locked' = FALSE /\ owner' = None /\ UNCHANGED <<at, queue>>

At(r, p) == at' = [at EXCEPT ![r] = p]
QueueFull == Len(queue) >= MaxQueued

Arrive(r) ==
  /\ at[r] = "new"
  /\ \/ /\ ~LockedNow /\ queue = <<>>
        /\ At(r, "run") /\ locked' = TRUE /\ owner' = r /\ UNCHANGED queue
     \/ /\ LockedNow \/ queue # <<>>
        /\ locked' = LockedNow /\ owner' = OwnerNow
        /\ IF QueueFull THEN At(r, "over") /\ UNCHANGED queue
           ELSE At(r, "wait") /\ queue' = Append(queue, r)

\* The lock goes to the task that has waited longest.
Acquired(r) ==
  /\ ~locked /\ queue # <<>> /\ r = Head(queue)
  /\ locked' = TRUE /\ owner' = r /\ UNCHANGED <<at, queue>>

\* The slot is returned by its owner alone.
Released(r) ==
  IF owner = r THEN owner' = None /\ locked' = FALSE ELSE UNCHANGED <<owner, locked>>

\* The wait ends with the slot.  The request leaves the queue, then waits for
\* its helper tasks to end, and only then is it an active request.
Take(r) ==
  /\ at[r] = "wait" /\ owner = r
  /\ At(r, "helpers") /\ queue' = Dequeued(r)
  /\ UNCHANGED <<locked, owner>>
Engage(r) ==
  /\ at[r] = "helpers" /\ At(r, "run") /\ UNCHANGED <<queue, locked, owner>>
\* The model was unloaded while the request waited.
NotLoaded(r) ==
  /\ at[r] = "helpers" /\ At(r, "over") /\ Released(r) /\ UNCHANGED queue

(* mutant: a request that gives up has nothing to return *)
GiveUp_Queued(r) ==
  /\ at[r] = "wait" /\ At(r, "over") /\ queue' = Dequeued(r)
  /\ UNCHANGED <<locked, owner>>

\* The wait ends without it: cancelled, timed out, or the client went away.
GiveUp(r) ==
  /\ at[r] = "wait" /\ At(r, "over") /\ queue' = Dequeued(r)
  /\ Released(r)

Done(r) ==
  /\ at[r] = "run" /\ At(r, "over") /\ Released(r) /\ UNCHANGED queue

GateNext ==
  \/ Recover
  \/ \E r \in Caller :
       \/ Arrive(r) \/ Acquired(r) \/ Take(r) \/ Engage(r) \/ NotLoaded(r)
       \/ GiveUp(r) \/ Done(r)
GateSpec == GateInit /\ [][GateNext]_gateVars

-----------------------------------------------------------------------------
GateTypeOK ==
  /\ at \in [Caller -> {"new", "wait", "helpers", "run", "over"}]
  /\ queue \in Seq(Caller) /\ locked \in BOOLEAN /\ owner \in Caller \cup {None}

\* A slot that is taken has an owner that will still return it, and the queue
\* holds exactly the requests that wait: recovery has nothing left to repair.
GateNotStranded ==
  /\ locked = (owner # None)
  /\ locked => at[owner] \in {"wait", "helpers", "run"}
  /\ ToSet(queue) = {r \in Caller : at[r] = "wait"} /\ IsInjective(queue)

\* "Releasing while an unowned active request exists could allow two MLX
\* generations to overlap. Preserve serialization": one at a time.
OneGeneration == \A r, s \in ActiveNow : r = s
=============================================================================
