---------------------------- MODULE WorkerStream ----------------------------
(***************************************************************************)
(* The worker process (Workers/common/server.py): its event loop runs one  *)
(* lines() generator per /generate and answers /rpc cancel, and one thread *)
(* runs every MLX call in the order of its queue.  An action of a stream   *)
(* is lines() between two suspensions; an action of the thread is one job, *)
(* except that a token takes two, for what arrives while it is computed.   *)
(***************************************************************************)
EXTENDS Naturals, Sequences

CONSTANTS Req,      \* request ids; the coordinator never reuses one
          ToolReq   \* those whose reply is parsed for tool calls

ASSUME ToolAssumption == ToolReq \subseteq Req
ASSUME IdleAssumption == "idle" \notin Req

VARIABLES
  req,        \* lines(): where it is suspended, the answer of its MLX job,
              \* what the client was told, `iterator is not None`, `stopped`
  gen,        \* the adapter's generator and what became of its KV cache
  mlx,        \* the MLX executor: queued jobs, and the token in progress
  abort,      \* the GenerationAbort of each request: in adapter.aborts, set,
              \* and the kind in _abort_kinds
  cancelled,  \* the CancellationRegistry
  asked       \* history: where the request was when /rpc cancel came

vars == <<req, gen, mlx, abort, cancelled, asked>>

Jobs == [kind : {"next", "memory", "finalize", "close", "void"}, of : Req]
Job(kind, r) == [kind |-> kind, of |-> r]
Idle == "idle"
Over == {"done", "cut", "failed", "closed"}

Init ==
  /\ req = [r \in Req |-> [pc |-> "idle", ans |-> "none", told |-> "none",
                           held |-> FALSE, stop |-> FALSE]]
  /\ gen = [r \in Req |-> [st |-> "fresh", cache |-> "none"]]
  /\ mlx = [jobs |-> <<>>, busy |-> Idle]
  /\ abort = [r \in Req |-> [live |-> FALSE, set |-> FALSE, noted |-> "none"]]
  /\ cancelled = {}
  /\ asked = [r \in Req |-> "no"]

IsAborted(r) == r \in cancelled \/ (abort[r].live /\ abort[r].set)

-----------------------------------------------------------------------------
(* Pieces of lines().                                                      *)
Submit(kind, r) == mlx' = [mlx EXCEPT !.jobs = Append(@, Job(kind, r))]
Suspend(r, pc) == req' = [req EXCEPT ![r] = [@ EXCEPT !.pc = pc, !.ans = "none"]]
Tell(r, what, held) ==
  req' = [req EXCEPT ![r] = [@ EXCEPT !.pc = "last", !.ans = "none", !.told = what, !.held = held]]

AbortedEnd(r) ==
  /\ Tell(r, "cancelled", FALSE) /\ Submit("close", r)
  /\ abort' = [abort EXCEPT ![r].noted = "cancel"]
  /\ cancelled' = cancelled \ {r}

AskNext(r) ==
  /\ req' = [req EXCEPT ![r] = [@ EXCEPT !.pc = "waiting", !.ans = "none", !.held = TRUE]]
  /\ Submit("next", r)
  /\ UNCHANGED <<abort, cancelled>>

Orphan_AsCancelled(r) ==      \* mutant: the time limit ends as a cancellation
  /\ Tell(r, "cancelled", TRUE)
  /\ abort' = [abort EXCEPT ![r] = [@ EXCEPT !.set = TRUE, !.noted = "orphan"]]
  /\ UNCHANGED <<mlx, cancelled>>

Orphan(r) ==
  /\ Tell(r, "error", TRUE)
  /\ abort' = [abort EXCEPT ![r] = [@ EXCEPT !.set = TRUE, !.noted = "orphan"]]
  /\ UNCHANGED <<mlx, cancelled>>

LoopTop(r) ==
  \/ abort[r].set /\ AbortedEnd(r)
  \/ ~abort[r].set /\ (AskNext(r) \/ Orphan(r))

(* An event is internal, or is written out; its text may complete a stop   *)
(* sequence.                                                               *)
Event(r) ==
  \/ IsAborted(r) /\ AbortedEnd(r)
  \/ ~IsAborted(r) /\ LoopTop(r)
  \/ /\ ~IsAborted(r)
     /\ \E stop \in {FALSE, gen[r].st = "open"} :
          req' = [req EXCEPT ![r] = [@ EXCEPT !.pc = "visible", !.ans = "none", !.stop = stop]]
     /\ UNCHANGED <<mlx, abort, cancelled>>

First(r) == req[r].pc = "phase" /\ LoopTop(r)

Answered(r) ==
  /\ req[r].pc = "waiting"
  /\ \/ req[r].ans = "raised" /\ Tell(r, "error", TRUE) /\ UNCHANGED <<mlx, abort, cancelled>>
     \/ req[r].ans = "noevent" /\ Suspend(r, "flush") /\ UNCHANGED <<mlx, abort, cancelled>>
     \/ /\ req[r].ans = "event"
        /\ \/ Suspend(r, "memory") /\ Submit("memory", r) /\ UNCHANGED <<abort, cancelled>>
           \/ Event(r)

Memory(r) ==
  /\ req[r].pc = "memory"
  /\ \/ req[r].ans = "good" /\ Event(r)
     \/ /\ req[r].ans = "bad"
        /\ Tell(r, "pressure", FALSE) /\ Submit("close", r)
        /\ abort' = [abort EXCEPT ![r].noted = "memory"]
        /\ UNCHANGED cancelled

Written(r) ==
  /\ req[r].pc = "visible"
  /\ \/ req[r].stop /\ Suspend(r, "flush") /\ UNCHANGED <<mlx, abort, cancelled>>
     \/ ~req[r].stop /\ LoopTop(r)

Flushed(r) ==
  /\ req[r].pc = "flush"
  /\ IF r \in ToolReq THEN Suspend(r, "finalize") /\ Submit("finalize", r)
                      ELSE Tell(r, "stop", TRUE) /\ UNCHANGED mlx
  /\ UNCHANGED <<abort, cancelled>>

Finalized(r) ==
  /\ req[r].pc = "finalize" /\ req[r].ans # "none"
  /\ Tell(r, IF req[r].ans = "good" THEN "stop" ELSE "error", TRUE)
  /\ UNCHANGED <<mlx, abort, cancelled>>

(* The finally of lines(): a job of the stream that has not started is     *)
(* withdrawn (its place in the queue stays), the generator's close() is    *)
(* queued and not awaited.                                                 *)
Void(js, r) ==
  [i \in DOMAIN js |-> IF js[i].of = r /\ js[i].kind # "close" THEN Job("void", r) ELSE js[i]]
Withdrawn(r) == Void(mlx.jobs, r)

Finally_NoClose(r) ==         \* mutant: the generator is left to the collector
  /\ req' = [req EXCEPT ![r] = [@ EXCEPT !.pc = "ended", !.ans = "none", !.held = FALSE]]
  /\ cancelled' = cancelled \ {r}
  /\ abort' = [abort EXCEPT ![r] = [@ EXCEPT !.set = TRUE, !.live = FALSE]]
  /\ mlx' = [mlx EXCEPT !.jobs = Withdrawn(r)]

Finally(r) ==
  /\ req' = [req EXCEPT ![r] = [@ EXCEPT !.pc = "ended", !.ans = "none", !.held = FALSE]]
  /\ cancelled' = cancelled \ {r}
  /\ abort' = [abort EXCEPT ![r] = [@ EXCEPT !.set = TRUE, !.live = FALSE]]
  /\ mlx' = [mlx EXCEPT !.jobs = IF req[r].held THEN Append(Withdrawn(r), Job("close", r))
                                      ELSE Withdrawn(r)]

-----------------------------------------------------------------------------
(* The event loop.                                                         *)
Generate(r) ==
  /\ req[r].pc = "idle"
  /\ req' = [req EXCEPT ![r].pc = "phase"]
  /\ abort' = [abort EXCEPT ![r] = [@ EXCEPT !.live = TRUE, !.set = FALSE]]
  /\ UNCHANGED <<gen, mlx, cancelled, asked>>

Resume(r) ==
  /\ \/ First(r) \/ Answered(r) \/ Memory(r) \/ Written(r) \/ Flushed(r) \/ Finalized(r)
     \/ req[r].pc = "last" /\ Finally(r)
  /\ UNCHANGED <<gen, asked>>

(* The client is gone: CancelledError or GeneratorExit where it is.        *)
Disconnect(r) ==
  /\ req[r].pc \notin {"idle", "last", "ended"}
  /\ Finally(r)
  /\ UNCHANGED <<gen, asked>>

Cancel_HandleOnly(r) ==       \* mutant: the registry is not told
  /\ asked[r] = "no"
  /\ asked' = [asked EXCEPT ![r] = IF abort[r].live THEN "live"
                                   ELSE IF req[r].pc = "idle" THEN "early" ELSE "late"]
  /\ abort' = [abort EXCEPT ![r].set = @ \/ abort[r].live]
  /\ UNCHANGED <<req, gen, mlx, cancelled>>

Cancel(r) ==
  /\ asked[r] = "no"
  /\ asked' = [asked EXCEPT ![r] = IF abort[r].live THEN "live"
                                   ELSE IF req[r].pc = "idle" THEN "early" ELSE "late"]
  /\ cancelled' = cancelled \union {r}
  /\ abort' = [abort EXCEPT ![r].set = @ \/ abort[r].live]
  /\ UNCHANGED <<req, gen, mlx>>

-----------------------------------------------------------------------------
(* The MLX thread.  An answer nobody waits for any more is dropped.        *)
Answer(r, a) ==
  req' = IF req[r].pc \in {"waiting", "memory", "finalize"} THEN [req EXCEPT ![r].ans = a] ELSE req
Ready(kind, r) == mlx.busy = Idle /\ mlx.jobs # <<>> /\ Head(mlx.jobs) = Job(kind, r)
Took == mlx' = [mlx EXCEPT !.jobs = Tail(@)]

Skip(r) ==
  /\ Ready("void", r) /\ Took
  /\ UNCHANGED <<req, gen, abort, cancelled, asked>>

NextEvent_Unchecked(r) ==     \* mutant: next() is called whatever the handle says
  /\ Ready("next", r)
  /\ IF gen[r].st \in Over
     THEN Took /\ Answer(r, "noevent")
     ELSE mlx' = [jobs |-> Tail(mlx.jobs), busy |-> r] /\ UNCHANGED req
  /\ UNCHANGED <<gen, abort, cancelled, asked>>

NextEvent(r) ==
  /\ Ready("next", r)
  /\ IF abort[r].set \/ gen[r].st \in Over
     THEN Took /\ Answer(r, "noevent")
     ELSE mlx' = [jobs |-> Tail(mlx.jobs), busy |-> r] /\ UNCHANGED req
  /\ UNCHANGED <<gen, abort, cancelled, asked>>

(* What next() comes back with: the adapter yields before and after it     *)
(* looks at the registry, and stores the cache before the closing metrics. *)
Outcomes(r) ==
  LET st == gen[r].st
  IN IF st = "tail" THEN {<<"done", "stored", "noevent">>}
     ELSE {<<"tail", "stored", "event">>, <<"done", "stored", "noevent">>,
           <<"failed", "settled", "raised">>}
          \union (IF r \in cancelled THEN {<<"cut", "settled", "noevent">>} ELSE {})
          \union (IF r \notin cancelled \/ st = "fresh" THEN {<<"open", "none", "event">>} ELSE {})

Token(r) ==
  /\ mlx.busy = r
  /\ mlx' = [mlx EXCEPT !.busy = Idle]
  /\ \E o \in Outcomes(r) :
       gen' = [gen EXCEPT ![r] = [st |-> o[1], cache |-> o[2]]] /\ Answer(r, o[3])
  /\ UNCHANGED <<abort, cancelled, asked>>

CloseGenerator(r) ==
  /\ Ready("close", r) /\ Took
  /\ gen' = [gen EXCEPT ![r] =
       CASE @.st \in Over -> @
         [] @.st = "open" -> [st |-> "closed", cache |->
                                IF abort[r].noted = "memory" THEN "released" ELSE "settled"]
         [] OTHER         -> [@ EXCEPT !.st = "closed"]]
  /\ UNCHANGED <<req, abort, cancelled, asked>>

(* memory_pressure_reason and adapter.finalize.                            *)
Ask(r) ==
  /\ Ready("memory", r) \/ Ready("finalize", r)
  /\ Took
  /\ \E a \in {"good", "bad"} : Answer(r, a)
  /\ UNCHANGED <<gen, abort, cancelled, asked>>

Thread(r) == Skip(r) \/ NextEvent(r) \/ Token(r) \/ CloseGenerator(r) \/ Ask(r)

Next == \E r \in Req : Generate(r) \/ Resume(r) \/ Disconnect(r) \/ Cancel(r) \/ Thread(r)

(* The supervisor reads the stream on or drops it, and the thread runs;    *)
(* nothing says that the client cancels or that the model ends by itself.  *)
Spec ==
  /\ Init /\ [][Next]_vars
  /\ \A r \in Req : WF_vars(Resume(r))
  /\ WF_vars(\E r \in Req : Thread(r))
-----------------------------------------------------------------------------
In(js, kind, r) == \E i \in DOMAIN js : js[i] = Job(kind, r)
Queued(kind, r) == In(mlx.jobs, kind, r)
Active(r) == req[r].pc \notin {"idle", "ended"}

StreamState ==
  [pc : {"idle", "phase", "waiting", "memory", "visible", "flush", "finalize", "last", "ended"},
   ans : {"none", "event", "noevent", "raised", "good", "bad"},
   told : {"none", "stop", "cancelled", "error", "pressure"},
   held : BOOLEAN, stop : BOOLEAN]
GeneratorState == [st : {"fresh", "open", "tail"} \union Over,
                   cache : {"none", "stored", "settled", "released"}]
AbortState == [live : BOOLEAN, set : BOOLEAN, noted : {"none", "cancel", "orphan", "memory"}]

(* The shape of every variable.                                            *)
TypeOK ==
  /\ req \in [Req -> StreamState] /\ gen \in [Req -> GeneratorState]
  /\ mlx \in [jobs : Seq(Jobs), busy : Req \union {Idle}]
  /\ abort \in [Req -> AbortState]
  /\ cancelled \subseteq Req /\ asked \in [Req -> {"no", "early", "live", "late"}]

(* However a stream ended, a generator that is still suspended with its KV *)
(* cache has its close() on the thread's queue: close_on_mlx_thread is not *)
(* awaited, and lines() drops the iterator on several paths.               *)
ClosePending ==
  \A r \in Req :
    req[r].pc = "ended" /\ (gen[r].st \in {"open", "tail"} \/ mlx.busy = r)
      => Queued("close", r)

(* A generation stopped by the memory watchdog gives its cache back, and   *)
(* no other interruption throws a cache away: the reason outlives the      *)
(* request, because the adapter reads it after the stream has returned.    *)
PressureReleases ==
  \A r \in Req :
    /\ gen[r].st = "closed" /\ req[r].told = "pressure" => gen[r].cache \in {"released", "stored"}
    /\ gen[r].cache = "released" => req[r].told = "pressure"

(* A stream that ended leaves nothing of its generator behind: what it     *)
(* still holds is closed, and its cache goes the way its end asks for.     *)
GeneratorsSettle == ClosePending /\ PressureReleases

(* The finish reason is the truth about a client that did not interfere:   *)
(* "cancelled" only after a cancel, and "stop" without one only for a      *)
(* reply the model ended or a stop sequence did.                           *)
ToldTruly ==
  \A r \in Req :
    /\ req[r].told = "cancelled" => asked[r] # "no"
    /\ req[r].told = "stop" /\ asked[r] = "no" => gen[r].st = "done" \/ req[r].stop

(* Once /rpc cancel found the request running, or its stream has ended,    *)
(* the MLX thread starts no further token of it.                           *)
StopsAtNextToken ==
  [][\A r \in Req : mlx.busy # r /\ mlx'.busy = r => asked[r] # "live" /\ Active(r)]_vars

(* A cancelled stream ends, also one whose cancel arrived before it began, *)
(* whatever else the thread has to do and however long the model would     *)
(* have gone on.                                                           *)
CancelStops == \A r \in Req : asked[r] \in {"early", "live"} /\ Active(r) ~> ~Active(r)

(* test_v2_8_generation_abort.py: "a truncated reply is reported as        *)
(* `cancelled`, never as `stop`".  It does not hold: a cancel that lands   *)
(* while next() waits or runs ends the generator without an event, which   *)
(* lines() takes for the end of the reply.                                 *)
TruncatedNeverStop == \A r \in Req : req[r].told = "stop" => gen[r].st = "done" \/ req[r].stop
=============================================================================
