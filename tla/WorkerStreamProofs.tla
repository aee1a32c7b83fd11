------------------------- MODULE WorkerStreamProofs -------------------------
(***************************************************************************)
(* Proofs about the worker's streams, for any set of requests.  The        *)
(* invariant speaks of one request at a time: a step of one request leaves *)
(* everything another one's part of it looks at alone.                     *)
(***************************************************************************)
EXTENDS WorkerStream, TLAPS

-----------------------------------------------------------------------------
(* The executor's queue.                                                   *)
Live == {"next", "memory", "finalize"}
Single(js) ==
  \A i, j \in DOMAIN js :
    js[i].kind \in Live /\ js[j].kind \in Live /\ js[i].of = js[j].of => i = j

(* submit() adds one job and keeps the others.                             *)
LEMMA AppendQueue ==
  ASSUME NEW js \in Seq(Jobs), NEW k \in {"next", "memory", "finalize", "close"}, NEW r \in Req
  PROVE  /\ Append(js, Job(k, r)) \in Seq(Jobs)
         /\ \A x \in Req : \A kk : In(Append(js, Job(k, r)), kk, x)
                                 <=> In(js, kk, x) \/ (kk = k /\ x = r)
         /\ Single(js) /\ (k = "close" \/ \A kk \in Live : ~In(js, kk, r))
              => Single(Append(js, Job(k, r)))
<1> DEFINE as == Append(js, Job(k, r))
<1>1. Job(k, r) \in Jobs
  BY DEF Job, Jobs
<1> DEFINE last == Len(js) + 1
<1>2. /\ as \in Seq(Jobs)
      /\ \A i \in DOMAIN js : i \in DOMAIN as /\ as[i] = js[i] /\ js[i] \in Jobs
      /\ last \in DOMAIN as /\ as[last] = Job(k, r)
      /\ \A i \in DOMAIN as : i \in DOMAIN js \/ i = last
  BY <1>1
<1> HIDE DEF as, last
<1>3. \A x \in Req : \A kk : In(as, kk, x) <=> In(js, kk, x) \/ (kk = k /\ x = r)
  <2> SUFFICES ASSUME NEW x \in Req, NEW kk
               PROVE  In(as, kk, x) <=> In(js, kk, x) \/ (kk = k /\ x = r)
    OBVIOUS
  <2>1. Job(k, r) = Job(kk, x) <=> kk = k /\ x = r
    BY DEF Job
  <2>2. ASSUME In(as, kk, x) PROVE In(js, kk, x) \/ (kk = k /\ x = r)
    BY <1>2, <2>1, <2>2 DEF In
  <2>3. ASSUME In(js, kk, x) PROVE In(as, kk, x)
    <3>1. PICK i \in DOMAIN js : js[i] = Job(kk, x)
      BY <2>3 DEF In
    <3>2. i \in DOMAIN as /\ as[i] = Job(kk, x)
      BY <1>2, <3>1
    <3> QED BY <3>2 DEF In
  <2>4. ASSUME kk = k, x = r PROVE In(as, kk, x)
    BY <1>2, <2>4 DEF In
  <2> QED BY <2>2, <2>3, <2>4
<1>4. ASSUME Single(js), k = "close" \/ \A kk \in Live : ~In(js, kk, r)
      PROVE  Single(as)
  <2> SUFFICES ASSUME NEW i \in DOMAIN as, NEW j \in DOMAIN as,
                      as[i].kind \in Live, as[j].kind \in Live, as[i].of = as[j].of,
                      i # j, i \in DOMAIN js
               PROVE  FALSE
    BY <1>2 DEF Single
  <2>1. as[i] = js[i] /\ js[i] \in Jobs
    BY <1>2
  <2>2. CASE j \in DOMAIN js
    BY <1>2, <1>4, <2>1, <2>2 DEF Single
  <2>3. CASE j = last
    <3>0. as[j] = Job(k, r) /\ Job(k, r).kind = k /\ Job(k, r).of = r
      BY <1>2, <2>3 DEF Job
    <3>1. k \in Live /\ js[i].of = r
      BY <2>1, <3>0
    <3>2. js[i] = Job(js[i].kind, r)
      BY <2>1, <3>1 DEF Job, Jobs
    <3>3. In(js, js[i].kind, r)
      BY <2>1, <3>2 DEF In
    <3> QED BY <1>4, <2>1, <3>1, <3>3 DEF Live
  <2> QED BY <1>2, <2>2, <2>3
<1> QED BY <1>2, <1>3, <1>4 DEF as

(* The thread takes the first job.                                         *)
LEMMA TailQueue ==
  ASSUME NEW js \in Seq(Jobs), js # <<>>, NEW k, NEW r \in Req, Head(js) = Job(k, r)
  PROVE  /\ Tail(js) \in Seq(Jobs)
         /\ \A x \in Req : \A kk : In(js, kk, x) <=> In(Tail(js), kk, x) \/ (kk = k /\ x = r)
         /\ Single(js) => /\ Single(Tail(js))
                          /\ k \in Live => \A kk \in Live : ~In(Tail(js), kk, r)
<1> DEFINE ts == Tail(js)
<1>1. /\ ts \in Seq(Jobs) /\ Len(js) \in Nat \ {0} /\ Len(ts) = Len(js) - 1
      /\ \A i \in 1..Len(js) - 1 : ts[i] = js[i + 1]
      /\ js[1] = Job(k, r)
      /\ DOMAIN ts = 1..Len(js) - 1 /\ DOMAIN js = 1..Len(js)
  OBVIOUS
<1> HIDE DEF ts
<1>2. \A x \in Req : \A kk : In(js, kk, x) <=> In(ts, kk, x) \/ (kk = k /\ x = r)
  <2> SUFFICES ASSUME NEW x \in Req, NEW kk
               PROVE  In(js, kk, x) <=> In(ts, kk, x) \/ (kk = k /\ x = r)
    OBVIOUS
  <2>1. Job(k, r) = Job(kk, x) <=> kk = k /\ x = r
    BY DEF Job
  <2>2. ASSUME In(js, kk, x), ~(kk = k /\ x = r) PROVE In(ts, kk, x)
    <3>1. PICK i \in DOMAIN js : js[i] = Job(kk, x)
      BY <2>2 DEF In
    <3>2. i # 1
      BY <1>1, <2>1, <2>2, <3>1
    <3>3. i - 1 \in DOMAIN ts /\ ts[i - 1] = Job(kk, x)
      BY <1>1, <3>1, <3>2
    <3> QED BY <3>3 DEF In
  <2>3. ASSUME In(ts, kk, x) PROVE In(js, kk, x)
    <3>1. PICK i \in DOMAIN ts : ts[i] = Job(kk, x)
      BY <2>3 DEF In
    <3>2. i + 1 \in DOMAIN js /\ js[i + 1] = Job(kk, x)
      BY <1>1, <3>1
    <3> QED BY <3>2 DEF In
  <2>4. ASSUME kk = k, x = r PROVE In(js, kk, x)
    BY <1>1, <2>4 DEF In
  <2> QED BY <2>2, <2>3, <2>4
<1>3. ASSUME Single(js) PROVE Single(ts)
  <2> SUFFICES ASSUME NEW i \in DOMAIN ts, NEW j \in DOMAIN ts,
                      ts[i].kind \in Live, ts[j].kind \in Live, ts[i].of = ts[j].of
               PROVE  i = j
    BY DEF Single
  <2>1. i + 1 \in DOMAIN js /\ j + 1 \in DOMAIN js /\ ts[i] = js[i + 1] /\ ts[j] = js[j + 1]
    BY <1>1
  <2>2. i + 1 = j + 1
    BY <1>3, <2>1 DEF Single
  <2> QED BY <1>1, <2>2
<1>4. ASSUME Single(js), k \in Live, NEW kk \in Live, In(ts, kk, r) PROVE FALSE
  <2>1. PICK i \in DOMAIN ts : ts[i] = Job(kk, r)
    BY <1>4 DEF In
  <2>2. i + 1 \in DOMAIN js /\ 1 \in DOMAIN js /\ js[i + 1] = Job(kk, r) /\ i + 1 # 1
    BY <1>1, <2>1
  <2>3. js[1].kind \in Live /\ js[i + 1].kind \in Live /\ js[1].of = js[i + 1].of
    BY <1>1, <1>4, <2>2 DEF Job
  <2> QED BY <1>4, <2>2, <2>3 DEF Single
<1> QED BY <1>1, <1>2, <1>3, <1>4 DEF ts

(* cancel() withdraws the jobs of a request that have not started.         *)
LEMMA VoidQueue ==
  ASSUME NEW js \in Seq(Jobs), NEW r \in Req
  PROVE  /\ Void(js, r) \in Seq(Jobs)
         /\ \A k \in Live : ~In(Void(js, r), k, r)
         /\ In(Void(js, r), "close", r) <=> In(js, "close", r)
         /\ \A x \in Req \ {r} : \A k : In(Void(js, r), k, x) <=> In(js, k, x)
         /\ Single(js) => Single(Void(js, r))
<1> DEFINE vs == Void(js, r)
<1>1. /\ DOMAIN vs = DOMAIN js /\ DOMAIN js = 1..Len(js) /\ Len(js) \in Nat
      /\ \A i \in DOMAIN js : js[i] \in Jobs
      /\ \A i \in DOMAIN js : vs[i] = IF js[i].of = r /\ js[i].kind # "close"
                                       THEN Job("void", r) ELSE js[i]
  BY DEF Void
<1>2. \A i \in DOMAIN js : vs[i] \in Jobs
  BY <1>1 DEF Job, Jobs
<1>3. vs \in Seq(Jobs)
  <2>1. vs = [i \in 1..Len(js) |-> vs[i]]
    BY <1>1 DEF Void
  <2> QED BY <1>1, <1>2, <2>1
<1> HIDE DEF vs
<1>4. \A i \in DOMAIN js : /\ vs[i].of = js[i].of
                           /\ vs[i].kind \in Live => vs[i] = js[i] /\ js[i].of # r
  BY <1>1 DEF Job, Live, Jobs
<1>5. \A k \in Live : ~In(vs, k, r)
  BY <1>1, <1>4 DEF In, Job
<1>6. In(vs, "close", r) <=> In(js, "close", r)
  BY <1>1 DEF In, Job
<1>7. \A x \in Req \ {r} : \A k : In(vs, k, x) <=> In(js, k, x)
  BY <1>1 DEF In, Job
<1>8. Single(js) => Single(vs)
  BY <1>1, <1>4 DEF Single
<1> QED BY <1>3, <1>5, <1>6, <1>7, <1>8 DEF vs
-----------------------------------------------------------------------------
(* What holds of each request.  Its jobs: lines() waits for the one that   *)
(* is queued, and for the token in progress unless it is gone.             *)
Waits(r, k) ==
  req[r].pc = (IF k = "next" THEN "waiting" ELSE k) /\ req[r].ans = "none"
Outstanding(r) == \A k \in Live : Queued(k, r) => Waits(r, k)
Running(r) ==
  mlx.busy = r => /\ gen[r].st \notin Over
                  /\ \A k \in Live : ~Queued(k, r)
                  /\ req[r].pc = "ended" \/ Waits(r, "next")

(* Its generator: a close() is queued only once the iterator was dropped,  *)
(* and a dropped iterator that is still suspended has one.                 *)
Closing(r) == Queued("close", r) => ~req[r].held /\ req[r].pc \in {"last", "ended"}
Suspended(r) == gen[r].st \in {"open", "tail"} \/ mlx.busy = r
Kept(r) == ~req[r].held /\ Suspended(r) => Queued("close", r)
Holds(r) ==
  /\ req[r].pc = "ended" => ~req[r].held
  /\ req[r].pc \in {"waiting", "memory", "visible", "flush", "finalize"} => req[r].held

(* Its cancellation and what the client hears of it.                       *)
Causes(r) ==
  /\ r \in cancelled => asked[r] # "no"
  /\ abort[r].set => asked[r] # "no" \/ req[r].pc \in {"last", "ended"}
  /\ gen[r].st = "cut" => asked[r] # "no"
Signal(r) ==
  /\ asked[r] = "live" => abort[r].set /\ req[r].pc # "idle"
  /\ abort[r].live => req[r].pc # "idle"
Whole(r) == asked[r] # "no" \/ gen[r].st = "done" \/ req[r].stop
Verdicts(r) ==
  /\ req[r].pc \in {"flush", "finalize"} => Whole(r)
  /\ req[r].pc = "waiting" /\ req[r].ans = "noevent" => asked[r] # "no" \/ gen[r].st = "done"
  /\ gen[r].st \in {"failed", "closed"} =>
       req[r].pc \in {"last", "ended"} \/ (req[r].pc = "waiting" /\ req[r].ans = "raised")
Reported(r) ==
  /\ req[r].told # "none" => req[r].pc \in {"last", "ended"}
  /\ req[r].told = "cancelled" => asked[r] # "no"
  /\ req[r].told = "stop" => Whole(r)

(* Its cache, and the memory watchdog.                                     *)
Watchdog(r) ==
  /\ req[r].told = "pressure" => abort[r].noted = "memory" /\ gen[r].st # "fresh"
  /\ abort[r].noted = "memory" => req[r].told = "pressure"
  /\ gen[r].st = "tail" => gen[r].cache = "stored"
  /\ req[r].pc \in {"memory", "visible"} \/ (req[r].pc = "waiting" /\ req[r].ans = "event")
       => gen[r].st \in {"open", "tail"}
  /\ gen[r].st = "closed" /\ req[r].told = "pressure" => gen[r].cache \in {"released", "stored"}
  /\ gen[r].cache = "released" => req[r].told = "pressure"

Stream(r) ==
  /\ Outstanding(r) /\ Running(r) /\ Closing(r) /\ Kept(r) /\ Holds(r)
  /\ Causes(r) /\ Signal(r) /\ Verdicts(r) /\ Reported(r) /\ Watchdog(r)
IInv == TypeOK /\ Single(mlx.jobs) /\ \A r \in Req : Stream(r)

(* What a step of another request leaves alone.                            *)
Same(x) ==
  /\ req'[x] = req[x] /\ gen'[x] = gen[x] /\ abort'[x] = abort[x] /\ asked'[x] = asked[x]
  /\ x \in cancelled' <=> x \in cancelled
  /\ mlx'.busy = x <=> mlx.busy = x
  /\ \A k \in Live \union {"close"} : Queued(k, x)' <=> Queued(k, x)

(* A request none of whose fields, jobs or handle changed keeps its invariant. *)
LEMMA Frame ==
  ASSUME NEW x \in Req, Stream(x), Same(x)
  PROVE  Stream(x)'
<1> USE DEF Same
<1>1. Outstanding(x)' BY DEF Stream, Outstanding, Waits
<1>2. Running(x)' BY DEF Stream, Running, Waits
<1>3. Closing(x)' /\ Holds(x)' BY DEF Stream, Closing, Holds
<1>4. Kept(x)' BY DEF Stream, Kept, Suspended
<1>5. Causes(x)' /\ Signal(x)' BY DEF Stream, Causes, Signal
<1>6. Verdicts(x)' /\ Reported(x)' BY DEF Stream, Verdicts, Reported, Whole
<1>7. Watchdog(x)' BY DEF Stream, Watchdog
<1> QED BY <1>1, <1>2, <1>3, <1>4, <1>5, <1>6, <1>7 DEF Stream

-----------------------------------------------------------------------------
(* What the pieces of an action do to one variable.                        *)
Submitted(k, r) ==
  /\ mlx'.busy = mlx.busy
  /\ \A x \in Req : \A kk : Queued(kk, x)' <=> Queued(kk, x) \/ (kk = k /\ x = r)

(* on_mlx_thread keeps the queue well formed: at most one live job per request. *)
LEMMA SubmitDoes ==
  ASSUME TypeOK, Single(mlx.jobs), NEW k \in {"next", "memory", "finalize", "close"}, NEW r \in Req,
         k = "close" \/ \A kk \in Live : ~Queued(kk, r), Submit(k, r)
  PROVE  /\ mlx' \in [jobs : Seq(Jobs), busy : Req \union {Idle}] /\ Single(mlx'.jobs)
         /\ Submitted(k, r)
<1>1. mlx.jobs \in Seq(Jobs) /\ mlx.busy \in Req \union {Idle}
  BY DEF TypeOK
<1>2. mlx'.busy = mlx.busy /\ mlx'.jobs = Append(mlx.jobs, Job(k, r))
      /\ mlx' = [jobs |-> mlx'.jobs, busy |-> mlx'.busy]
  BY DEF Submit, TypeOK
<1>3. /\ mlx'.jobs \in Seq(Jobs) /\ Single(mlx'.jobs)
      /\ \A x \in Req : \A kk : In(mlx'.jobs, kk, x) <=> In(mlx.jobs, kk, x) \/ (kk = k /\ x = r)
  BY <1>1, <1>2, AppendQueue DEF Queued
<1> QED BY <1>1, <1>2, <1>3 DEF Submitted, Queued

Taken(k, r) ==
  /\ mlx.busy = Idle
  /\ \A x \in Req : \A kk : Queued(kk, x) <=> Queued(kk, x)' \/ (kk = k /\ x = r)
  /\ k \in Live => \A kk \in Live : ~Queued(kk, r)'

(* The thread takes the head: the request it served has no other live job. *)
LEMMA TakeDoes ==
  ASSUME TypeOK, Single(mlx.jobs), NEW k, NEW r \in Req, Ready(k, r), NEW b \in Req \union {Idle},
         mlx' = [jobs |-> Tail(mlx.jobs), busy |-> b]
  PROVE  /\ mlx' \in [jobs : Seq(Jobs), busy : Req \union {Idle}] /\ Single(mlx'.jobs)
         /\ Taken(k, r)
<1>1. mlx.jobs \in Seq(Jobs) /\ mlx.busy = Idle /\ mlx.jobs # <<>> /\ Head(mlx.jobs) = Job(k, r)
  BY DEF TypeOK, Ready
<1>2. mlx'.busy = b /\ mlx'.jobs = Tail(mlx.jobs)
  OBVIOUS
<1>3. /\ mlx'.jobs \in Seq(Jobs) /\ Single(mlx'.jobs)
      /\ \A x \in Req : \A kk : In(mlx.jobs, kk, x) <=> In(mlx'.jobs, kk, x) \/ (kk = k /\ x = r)
      /\ k \in Live => \A kk \in Live : ~In(mlx'.jobs, kk, r)
  BY <1>1, <1>2, TailQueue
<1> QED BY <1>1, <1>2, <1>3 DEF Taken, Queued


(* The stream of r becomes this record, the others stay.                   *)
Now(r, pc, ans, told, held, stop) ==
  /\ req' \in [Req -> StreamState]
  /\ req'[r] = [pc |-> pc, ans |-> ans, told |-> told, held |-> held, stop |-> stop]
  /\ \A x \in Req \ {r} : req'[x] = req[x]

(* The last frame fixes what the client was told and ends the loop. *)
LEMMA TellDoes ==
  ASSUME TypeOK, NEW r \in Req, NEW held \in BOOLEAN,
         NEW what \in {"stop", "cancelled", "error", "pressure"}, Tell(r, what, held)
  PROVE  Now(r, "last", "none", what, held, req[r].stop)
BY DEF TypeOK, Tell, Now, StreamState

(* An await of the stream loop changes only where the loop stands. *)
LEMMA SuspendDoes ==
  ASSUME TypeOK, NEW r \in Req, NEW pc \in {"flush", "memory", "finalize"}, Suspend(r, pc)
  PROVE  Now(r, pc, "none", req[r].told, req[r].held, req[r].stop)
BY DEF TypeOK, Suspend, Now, StreamState

(* The abort handle of r becomes this record, the others stay.             *)
Handle(r, live, set, noted) ==
  /\ abort' \in [Req -> AbortState]
  /\ abort'[r] = [live |-> live, set |-> set, noted |-> noted]
  /\ \A x \in Req \ {r} : abort'[x] = abort[x]

(* Noting a reason on the abort handle leaves its flag alone. *)
LEMMA NoteDoes ==
  ASSUME TypeOK, NEW r \in Req, NEW n \in {"cancel", "memory"},
         abort' = [abort EXCEPT ![r].noted = n]
  PROVE  Handle(r, abort[r].live, abort[r].set, n)
BY DEF TypeOK, Handle, AbortState

-----------------------------------------------------------------------------
(* One lemma for each way a stream goes on.                                *)
Good(r) ==
  /\ TypeOK' /\ Single(mlx.jobs)'
  /\ \A x \in Req \ {r} : Same(x)
  /\ Stream(r)'
Awake(r) ==
  \/ req[r].pc \in {"phase", "visible"}
  \/ req[r].pc = "waiting" /\ req[r].ans = "event"
  \/ req[r].pc = "memory" /\ req[r].ans = "good"

(* While it runs itself it has no job, and it has told nothing.            *)
LEMMA AwakeIsAlone ==
  ASSUME TypeOK, NEW r \in Req, Stream(r),
         Awake(r) \/ req[r].pc = "flush" \/ (req[r].pc \in {"waiting", "memory", "finalize"} /\ req[r].ans # "none")
  PROVE  /\ \A k \in Live : ~Queued(k, r)
         /\ ~Queued("close", r) /\ mlx.busy # r
         /\ req[r].told = "none" /\ abort[r].noted # "memory"
<1>1. \A k \in Live : ~Queued(k, r)
  BY DEF Stream, Outstanding, Waits, Awake, Live
<1>2. ~Queued("close", r)
  BY DEF Stream, Closing, Awake
<1>3. mlx.busy # r
  BY DEF Stream, Running, Waits, Awake
<1>4. req[r].told = "none"
  BY DEF Stream, Reported, Awake
<1>5. abort[r].noted # "memory"
  BY <1>4 DEF Stream, Watchdog
<1> QED BY <1>1, <1>2, <1>3, <1>4, <1>5

(* Until its last frame, a started stream holds a generator that must be closed. *)
LEMMA HoldsIsTrue ==
  ASSUME TypeOK, NEW r \in Req, Stream(r),
         req[r].pc \in {"waiting", "memory", "visible", "flush", "finalize"}
  PROVE  req[r].held = TRUE
BY DEF TypeOK, StreamState, Stream, Holds

(* Ending on a set abort flag keeps the request's invariant. *)
LEMMA AbortedEndGood ==
  ASSUME TypeOK, Single(mlx.jobs), NEW r \in Req, Stream(r), Awake(r), IsAborted(r) \/ abort[r].set,
         AbortedEnd(r), UNCHANGED <<gen, asked>>
  PROVE  Good(r)
<1>1. Now(r, "last", "none", "cancelled", FALSE, req[r].stop)
  BY TellDoes DEF AbortedEnd
<1>2. /\ mlx' \in [jobs : Seq(Jobs), busy : Req \union {Idle}] /\ Single(mlx'.jobs)
      /\ Submitted("close", r)
  BY SubmitDoes DEF AbortedEnd
<1>3. Handle(r, abort[r].live, abort[r].set, "cancel")
  BY NoteDoes DEF AbortedEnd
<1>4. cancelled' = cancelled \ {r}
  BY DEF AbortedEnd
<1>5. asked[r] # "no" /\ gen'[r] = gen[r] /\ asked'[r] = asked[r]
  BY DEF IsAborted, Stream, Causes, Awake
<1>6. /\ \A k \in Live : ~Queued(k, r)
      /\ mlx.busy # r /\ req[r].told = "none"
  BY AwakeIsAlone
<1>7. TypeOK'
  BY <1>1, <1>2, <1>3, <1>4 DEF TypeOK, Now, Handle
<1>8. \A x \in Req \ {r} : Same(x)
  BY <1>1, <1>2, <1>3, <1>4 DEF Same, Now, Handle, Submitted, Live
<1>9. Stream(r)'
  <2> USE <1>1, <1>5, <1>6
  <2>1. Outstanding(r)' /\ Running(r)'
    BY <1>2 DEF Now, Submitted, Outstanding, Running, Live
  <2>2. Closing(r)' /\ Kept(r)' /\ Holds(r)'
    BY <1>2 DEF Now, Submitted, Closing, Kept, Holds
  <2>3. Causes(r)' /\ Signal(r)'
    BY <1>3, <1>4 DEF Now, Handle, Causes, Signal, Stream
  <2>4. Verdicts(r)' /\ Reported(r)'
    BY DEF Now, Verdicts, Reported
  <2>5. Watchdog(r)'
    BY <1>3, AwakeIsAlone DEF Now, Handle, Watchdog, Stream
  <2> QED BY <2>1, <2>2, <2>3, <2>4, <2>5 DEF Stream
<1> QED BY <1>2, <1>7, <1>8, <1>9 DEF Good


(* Asking the thread for the next event keeps the request's invariant. *)
LEMMA AskNextGood ==
  ASSUME TypeOK, Single(mlx.jobs), NEW r \in Req, Stream(r), Awake(r),
         AskNext(r), UNCHANGED <<gen, asked>>
  PROVE  Good(r)
<1>1. Now(r, "waiting", "none", req[r].told, TRUE, req[r].stop)
  BY DEF AskNext, Now, TypeOK, StreamState
<1>2. /\ \A k \in Live : ~Queued(k, r)
      /\ ~Queued("close", r) /\ mlx.busy # r /\ req[r].told = "none"
  BY AwakeIsAlone
<1>3. /\ mlx' \in [jobs : Seq(Jobs), busy : Req \union {Idle}] /\ Single(mlx'.jobs)
      /\ Submitted("next", r)
  BY <1>2, SubmitDoes DEF AskNext
<1>4. abort' = abort /\ cancelled' = cancelled /\ gen' = gen /\ asked' = asked
  BY DEF AskNext
<1>5. TypeOK'
  BY <1>1, <1>3, <1>4 DEF TypeOK, Now
<1>6. \A x \in Req \ {r} : Same(x)
  BY <1>1, <1>3, <1>4 DEF Same, Now, Submitted, Live
<1>7. Stream(r)'
  <2> USE <1>1, <1>2, <1>4
  <2>1. Outstanding(r)' /\ Running(r)'
    BY <1>3 DEF Now, Submitted, Outstanding, Waits, Running, Live
  <2>2. Closing(r)' /\ Kept(r)' /\ Holds(r)'
    BY <1>3 DEF Now, Submitted, Closing, Kept, Holds
  <2>3. Causes(r)' /\ Signal(r)'
    BY DEF Now, Causes, Signal, Stream, Awake
  <2>4. Verdicts(r)' /\ Reported(r)'
    BY DEF Now, Verdicts, Reported, Stream, Awake
  <2>5. Watchdog(r)'
    BY DEF Now, Watchdog, Stream
  <2> QED BY <2>1, <2>2, <2>3, <2>4, <2>5 DEF Stream
<1> QED BY <1>3, <1>5, <1>6, <1>7 DEF Good

(* Ending on the orphan limit keeps the request's invariant. *)
LEMMA OrphanGood ==
  ASSUME TypeOK, Single(mlx.jobs), NEW r \in Req, Stream(r), Awake(r),
         Orphan(r), UNCHANGED <<gen, asked>>
  PROVE  Good(r)
<1>1. Now(r, "last", "none", "error", TRUE, req[r].stop)
  BY TellDoes DEF Orphan
<1>2. /\ \A k \in Live : ~Queued(k, r)
      /\ ~Queued("close", r) /\ mlx.busy # r /\ req[r].told = "none"
  BY AwakeIsAlone
<1>3. Handle(r, abort[r].live, TRUE, "orphan")
  BY DEF Orphan, Handle, TypeOK, AbortState
<1>4. mlx' = mlx /\ cancelled' = cancelled /\ gen' = gen /\ asked' = asked
  BY DEF Orphan
<1>5. TypeOK'
  BY <1>1, <1>3, <1>4 DEF TypeOK, Now, Handle
<1>6. \A x \in Req \ {r} : Same(x)
  BY <1>1, <1>3, <1>4 DEF Same, Now, Handle, Queued
<1>7. Stream(r)'
  <2> USE <1>1, <1>2, <1>4
  <2>1. Outstanding(r)' /\ Running(r)'
    BY DEF Now, Queued, Outstanding, Running
  <2>2. Closing(r)' /\ Kept(r)' /\ Holds(r)'
    BY DEF Now, Queued, Closing, Kept, Holds
  <2>3. Causes(r)' /\ Signal(r)'
    BY <1>3 DEF Now, Handle, Causes, Signal, Stream
  <2>4. Verdicts(r)' /\ Reported(r)'
    BY DEF Now, Verdicts, Reported
  <2>5. Watchdog(r)'
    BY <1>3 DEF Now, Handle, Watchdog, Stream
  <2> QED BY <2>1, <2>2, <2>3, <2>4, <2>5 DEF Stream
<1> QED BY <1>4, <1>5, <1>6, <1>7 DEF Good

(* The top of the loop, whichever branch it takes, keeps the request's invariant. *)
LEMMA LoopTopGood ==
  ASSUME TypeOK, Single(mlx.jobs), NEW r \in Req, Stream(r), Awake(r),
         LoopTop(r), UNCHANGED <<gen, asked>>
  PROVE  Good(r)
BY AbortedEndGood, AskNextGood, OrphanGood DEF LoopTop

(* A step that only moves the stream on, without a job of it anywhere.     *)
LEMMA MoveGood ==
  ASSUME TypeOK, Single(mlx.jobs), NEW r \in Req, Stream(r),
         NEW pc \in {"visible", "flush", "last"}, NEW told \in {"none", "stop", "error"},
         NEW stop \in BOOLEAN,
         Now(r, pc, "none", told, TRUE, stop), UNCHANGED <<gen, mlx, abort, cancelled, asked>>,
         Awake(r) \/ (req[r].pc \in {"waiting", "finalize"} /\ req[r].ans # "none")
                  \/ req[r].pc = "flush",
         told # "none" <=> pc = "last",
         pc = "visible" => gen[r].st \in {"open", "tail"},
         pc = "flush" \/ told = "stop" => asked[r] # "no" \/ gen[r].st = "done" \/ stop,
         gen[r].st \in {"failed", "closed"} => pc = "last"
  PROVE  Good(r)
<1>1. /\ \A k \in Live : ~Queued(k, r)
      /\ ~Queued("close", r) /\ mlx.busy # r /\ req[r].told = "none"
      /\ abort[r].noted # "memory"
  BY AwakeIsAlone
<1>2. TypeOK'
  BY DEF TypeOK, Now
<1>3. \A x \in Req \ {r} : Same(x)
  BY DEF Same, Now, Queued
<1>4. Stream(r)'
  <2>1. Outstanding(r)' /\ Running(r)'
    BY <1>1 DEF Now, Queued, Outstanding, Running
  <2>2. Closing(r)' /\ Holds(r)'
    BY <1>1 DEF Now, Queued, Closing, Holds, Awake, Stream
  <2>3. Kept(r)'
    BY <1>1 DEF Now, Queued, Kept, Suspended, Stream
  <2>4. Causes(r)' /\ Signal(r)'
    BY DEF Now, Causes, Signal, Stream, Awake
  <2>5. Verdicts(r)'
    BY DEF Now, Verdicts, Whole
  <2>6. Reported(r)'
    BY DEF Now, Reported, Whole
  <2>7. Watchdog(r)'
    BY <1>1 DEF Now, Watchdog, Stream
  <2> QED BY <2>1, <2>2, <2>3, <2>4, <2>5, <2>6, <2>7 DEF Stream
<1> QED BY <1>2, <1>3, <1>4 DEF Good

(* Handling an event keeps the request's invariant. *)
LEMMA EventGood ==
  ASSUME TypeOK, Single(mlx.jobs), NEW r \in Req, Stream(r),
         (req[r].pc = "waiting" /\ req[r].ans = "event") \/ (req[r].pc = "memory" /\ req[r].ans = "good"),
         Event(r), UNCHANGED <<gen, asked>>
  PROVE  Good(r)
<1>1. Awake(r)
  BY DEF Awake
<1>2. CASE IsAborted(r) /\ AbortedEnd(r)
  BY <1>1, <1>2, AbortedEndGood
<1>3. CASE LoopTop(r)
  BY <1>1, <1>3, LoopTopGood
<1>4. ASSUME NEW stop \in {FALSE, gen[r].st = "open"},
             req' = [req EXCEPT ![r] = [@ EXCEPT !.pc = "visible", !.ans = "none", !.stop = stop]],
             UNCHANGED <<mlx, abort, cancelled>>
      PROVE  Good(r)
  <2>1. stop \in BOOLEAN
    BY <1>4
  <2>2. Now(r, "visible", "none", req[r].told, req[r].held, stop)
    BY <1>4, <2>1 DEF TypeOK, StreamState, Now
  <2>3. req[r].told = "none" /\ req[r].held = TRUE
    BY <1>1, AwakeIsAlone, HoldsIsTrue
  <2>4. gen[r].st \in {"open", "tail"}
    BY DEF Stream, Watchdog
  <2> QED BY <1>1, <1>4, <2>1, <2>2, <2>3, <2>4, MoveGood
<1> QED BY <1>2, <1>3, <1>4 DEF Event


(* Ending on memory pressure queues the close and notes why. *)
LEMMA PressureGood ==
  ASSUME TypeOK, Single(mlx.jobs), NEW r \in Req, Stream(r),
         req[r].pc = "memory", req[r].ans = "bad",
         Tell(r, "pressure", FALSE), Submit("close", r),
         abort' = [abort EXCEPT ![r].noted = "memory"], UNCHANGED <<cancelled, gen, asked>>
  PROVE  Good(r)
<1>1. Now(r, "last", "none", "pressure", FALSE, req[r].stop)
  BY TellDoes
<1>2. /\ mlx' \in [jobs : Seq(Jobs), busy : Req \union {Idle}] /\ Single(mlx'.jobs)
      /\ Submitted("close", r)
  BY SubmitDoes
<1>3. Handle(r, abort[r].live, abort[r].set, "memory")
  BY NoteDoes
<1>4. /\ \A k \in Live : ~Queued(k, r)
      /\ mlx.busy # r /\ req[r].told = "none"
  BY AwakeIsAlone
<1>5. gen[r].st \in {"open", "tail"} /\ gen' = gen /\ asked' = asked
  BY DEF Stream, Watchdog
<1>6. TypeOK'
  BY <1>1, <1>2, <1>3 DEF TypeOK, Now, Handle
<1>7. \A x \in Req \ {r} : Same(x)
  BY <1>1, <1>2, <1>3 DEF Same, Now, Handle, Submitted, Live
<1>8. Stream(r)'
  <2> USE <1>1, <1>4, <1>5
  <2>1. Outstanding(r)' /\ Running(r)'
    BY <1>2 DEF Now, Submitted, Outstanding, Running, Live
  <2>2. Closing(r)' /\ Kept(r)' /\ Holds(r)'
    BY <1>2 DEF Now, Submitted, Closing, Kept, Holds
  <2>3. Causes(r)' /\ Signal(r)'
    BY <1>3 DEF Now, Handle, Causes, Signal, Stream
  <2>4. Verdicts(r)' /\ Reported(r)'
    BY DEF Now, Verdicts, Reported
  <2>5. Watchdog(r)'
    BY <1>3 DEF Now, Handle, Watchdog, Stream
  <2> QED BY <2>1, <2>2, <2>3, <2>4, <2>5 DEF Stream
<1> QED BY <1>2, <1>6, <1>7, <1>8 DEF Good

(* Two steps that hand the thread a job and wait for it.                   *)
LEMMA AskGood ==
  ASSUME TypeOK, Single(mlx.jobs), NEW r \in Req, Stream(r), NEW k \in {"memory", "finalize"},
         Suspend(r, k), Submit(k, r), UNCHANGED <<abort, cancelled, gen, asked>>,
         (k = "memory" /\ req[r].pc = "waiting" /\ req[r].ans = "event")
           \/ (k = "finalize" /\ req[r].pc = "flush")
  PROVE  Good(r)
<1>1. Now(r, k, "none", req[r].told, req[r].held, req[r].stop)
  BY SuspendDoes
<1>2. /\ \A kk \in Live : ~Queued(kk, r)
      /\ ~Queued("close", r) /\ mlx.busy # r /\ req[r].told = "none"
  BY AwakeIsAlone DEF Awake
<1>3. /\ mlx' \in [jobs : Seq(Jobs), busy : Req \union {Idle}] /\ Single(mlx'.jobs)
      /\ Submitted(k, r)
  BY <1>2, SubmitDoes
<1>4. TypeOK'
  BY <1>1, <1>3 DEF TypeOK, Now
<1>5. \A x \in Req \ {r} : Same(x)
  BY <1>1, <1>3 DEF Same, Now, Submitted, Live
<1>6. Stream(r)'
  <2> USE <1>1, <1>2
  <2>1. req[r].held
    BY DEF Stream, Holds
  <2>2. Outstanding(r)' /\ Running(r)'
    BY <1>3, <2>1 DEF Now, Submitted, Outstanding, Waits, Running, Live
  <2>3. Closing(r)' /\ Kept(r)' /\ Holds(r)'
    BY <1>3, <2>1 DEF Now, Submitted, Closing, Kept, Holds
  <2>4. Causes(r)' /\ Signal(r)'
    BY DEF Now, Causes, Signal, Stream
  <2>5. Verdicts(r)' /\ Reported(r)'
    BY DEF Now, Verdicts, Reported, Whole, Stream
  <2>6. Watchdog(r)'
    BY DEF Now, Watchdog, Stream
  <2> QED BY <2>2, <2>3, <2>4, <2>5, <2>6 DEF Stream
<1> QED BY <1>3, <1>4, <1>5, <1>6 DEF Good


(* The finally block queues a close exactly when the generator is still held. *)
LEMMA FinallyGood ==
  ASSUME TypeOK, Single(mlx.jobs), NEW r \in Req, Stream(r),
         req[r].pc \notin {"idle", "ended"}, Finally(r), UNCHANGED <<gen, asked>>
  PROVE  Good(r)
<1>1. Now(r, "ended", "none", req[r].told, FALSE, req[r].stop)
  BY DEF Finally, Now, TypeOK, StreamState
<1>2. Handle(r, FALSE, TRUE, abort[r].noted)
  BY DEF Finally, Handle, TypeOK, AbortState
<1>3. cancelled' = cancelled \ {r} /\ gen' = gen /\ asked' = asked
  BY DEF Finally
<1>4. /\ mlx' \in [jobs : Seq(Jobs), busy : Req \union {Idle}] /\ Single(mlx'.jobs)
      /\ mlx'.busy = mlx.busy
      /\ \A k \in Live : ~Queued(k, r)'
      /\ Queued("close", r)' <=> Queued("close", r) \/ req[r].held
      /\ \A x \in Req \ {r}, k \in Live \union {"close"} : Queued(k, x)' <=> Queued(k, x)
  <2> DEFINE vs == Void(mlx.jobs, r)
  <2>1. mlx.jobs \in Seq(Jobs) /\ mlx.busy \in Req \union {Idle}
    BY DEF TypeOK
  <2>2. /\ mlx'.busy = mlx.busy
        /\ mlx'.jobs = IF req[r].held THEN Append(vs, Job("close", r)) ELSE vs
        /\ mlx' = [jobs |-> mlx'.jobs, busy |-> mlx'.busy]
    BY DEF Finally, Withdrawn, TypeOK
  <2>3. /\ vs \in Seq(Jobs) /\ Single(vs)
        /\ \A k \in Live : ~In(vs, k, r)
        /\ In(vs, "close", r) <=> In(mlx.jobs, "close", r)
        /\ \A x \in Req \ {r} : \A k : In(vs, k, x) <=> In(mlx.jobs, k, x)
    BY <2>1, VoidQueue
  <2> HIDE DEF vs
  <2>4. CASE req[r].held
    <3>1. /\ mlx'.jobs \in Seq(Jobs) /\ Single(mlx'.jobs)
          /\ \A x \in Req : \A k : In(mlx'.jobs, k, x) <=> In(vs, k, x) \/ (k = "close" /\ x = r)
      BY <2>2, <2>3, <2>4, AppendQueue
    <3> QED BY <2>1, <2>2, <2>3, <2>4, <3>1 DEF Queued, Live
  <2>5. CASE ~req[r].held
    BY <2>1, <2>2, <2>3, <2>5 DEF Queued
  <2> QED BY <2>4, <2>5
<1>5. TypeOK'
  BY <1>1, <1>2, <1>3, <1>4 DEF TypeOK, Now, Handle
<1>6. \A x \in Req \ {r} : Same(x)
  BY <1>1, <1>2, <1>3, <1>4 DEF Same, Now, Handle
<1>7. Stream(r)'
  <2> USE <1>1, <1>3
  <2>1. Outstanding(r)' /\ Running(r)'
    BY <1>4 DEF Now, Outstanding, Running, Stream
  <2>2. Closing(r)' /\ Kept(r)' /\ Holds(r)'
    BY <1>4 DEF Now, Closing, Kept, Suspended, Holds, Stream
  <2>3. Causes(r)' /\ Signal(r)'
    BY <1>2 DEF Now, Handle, Causes, Signal, Stream
  <2>4. Verdicts(r)' /\ Reported(r)'
    BY DEF Now, Verdicts, Reported, Whole, Stream
  <2>5. Watchdog(r)'
    BY <1>2 DEF Now, Handle, Watchdog, Stream
  <2> QED BY <2>1, <2>2, <2>3, <2>4, <2>5 DEF Stream
<1> QED BY <1>4, <1>5, <1>6, <1>7 DEF Good

(* Every resumption of the stream keeps the request's invariant. *)
LEMMA ResumeGood ==
  ASSUME TypeOK, Single(mlx.jobs), NEW r \in Req, Stream(r), Resume(r)
  PROVE  Good(r)
<1>0. gen' = gen /\ asked' = asked
  BY DEF Resume
<1>1. CASE First(r)
  BY <1>0, <1>1, LoopTopGood DEF First, Awake
<1>2. CASE Answered(r)
  <2>0. req[r].pc = "waiting"
    BY <1>2 DEF Answered
  <2>1. CASE req[r].ans = "raised" /\ Tell(r, "error", TRUE) /\ UNCHANGED <<mlx, abort, cancelled>>
    <3>1. Now(r, "last", "none", "error", TRUE, req[r].stop) /\ req[r].stop \in BOOLEAN
      BY <2>1, TellDoes DEF TypeOK, StreamState
    <3> QED BY <1>0, <2>0, <2>1, <3>1, MoveGood
  <2>2. CASE req[r].ans = "noevent" /\ Suspend(r, "flush") /\ UNCHANGED <<mlx, abort, cancelled>>
    <3>1. Now(r, "flush", "none", req[r].told, req[r].held, req[r].stop) /\ req[r].stop \in BOOLEAN
      BY <2>2, SuspendDoes DEF TypeOK, StreamState
    <3>2. req[r].told = "none" /\ req[r].held = TRUE
      BY <2>0, <2>2, AwakeIsAlone, HoldsIsTrue
    <3>3. asked[r] # "no" \/ gen[r].st = "done"
      BY <2>0, <2>2 DEF Stream, Verdicts
    <3>4. gen[r].st \notin {"failed", "closed"}
      BY <2>0, <2>2 DEF Stream, Verdicts
    <3> QED BY <1>0, <2>0, <2>2, <3>1, <3>2, <3>3, <3>4, MoveGood
  <2>3. CASE req[r].ans = "event" /\ Suspend(r, "memory") /\ Submit("memory", r) /\ UNCHANGED <<abort, cancelled>>
    BY <1>0, <2>0, <2>3, AskGood
  <2>4. CASE req[r].ans = "event" /\ Event(r)
    BY <1>0, <2>0, <2>4, EventGood
  <2> QED BY <1>2, <2>1, <2>2, <2>3, <2>4 DEF Answered
<1>3. CASE Memory(r)
  <2>1. CASE req[r].ans = "good" /\ Event(r)
    BY <1>0, <1>3, <2>1, EventGood DEF Memory
  <2>2. CASE req[r].ans = "bad" /\ Tell(r, "pressure", FALSE)
    BY <1>0, <1>3, <2>2, PressureGood DEF Memory
  <2> QED BY <1>3, <2>1, <2>2 DEF Memory
<1>4. CASE Written(r)
  <2>1. Awake(r)
    BY <1>4 DEF Written, Awake
  <2>2. CASE req[r].stop /\ Suspend(r, "flush") /\ UNCHANGED <<mlx, abort, cancelled>>
    <3>1. Now(r, "flush", "none", req[r].told, req[r].held, req[r].stop) /\ req[r].stop \in BOOLEAN
      BY <2>2, SuspendDoes DEF TypeOK, StreamState
    <3>2. req[r].told = "none" /\ req[r].held = TRUE
      BY <1>4, <2>1, AwakeIsAlone, HoldsIsTrue DEF Written
    <3>3. gen[r].st \in {"open", "tail"}
      BY <1>4 DEF Written, Stream, Watchdog
    <3> QED BY <1>0, <2>1, <2>2, <3>1, <3>2, <3>3, MoveGood
  <2>3. CASE LoopTop(r)
    BY <1>0, <2>1, <2>3, LoopTopGood
  <2> QED BY <1>4, <2>2, <2>3 DEF Written
<1>5. CASE Flushed(r)
  <2>0. req[r].pc = "flush" /\ abort' = abort /\ cancelled' = cancelled
    BY <1>5 DEF Flushed
  <2>1. CASE Suspend(r, "finalize") /\ Submit("finalize", r)
    BY <1>0, <2>0, <2>1, AskGood
  <2>2. CASE Tell(r, "stop", TRUE) /\ UNCHANGED mlx
    <3>1. Now(r, "last", "none", "stop", TRUE, req[r].stop) /\ req[r].stop \in BOOLEAN
      BY <2>2, TellDoes DEF TypeOK, StreamState
    <3>2. Whole(r)
      BY <2>0 DEF Stream, Verdicts
    <3> QED BY <1>0, <2>0, <2>2, <3>1, <3>2, MoveGood DEF Whole
  <2> QED BY <1>5, <2>1, <2>2 DEF Flushed
<1>6. CASE Finalized(r)
  <2> DEFINE what == IF req[r].ans = "good" THEN "stop" ELSE "error"
  <2>0. /\ req[r].pc = "finalize" /\ req[r].ans # "none" /\ Tell(r, what, TRUE)
        /\ UNCHANGED <<mlx, abort, cancelled>>
    BY <1>6 DEF Finalized
  <2>1. Now(r, "last", "none", what, TRUE, req[r].stop) /\ req[r].stop \in BOOLEAN
    BY <2>0, TellDoes DEF TypeOK, StreamState
  <2>2. Whole(r)
    BY <2>0 DEF Stream, Verdicts
  <2> QED BY <1>0, <2>0, <2>1, <2>2, MoveGood DEF Whole
<1>7. CASE req[r].pc = "last" /\ Finally(r)
  BY <1>0, <1>7, FinallyGood
<1> QED BY <1>1, <1>2, <1>3, <1>4, <1>5, <1>6, <1>7 DEF Resume


(* A new /generate starts from a clean request. *)
LEMMA GenerateGood ==
  ASSUME TypeOK, Single(mlx.jobs), NEW r \in Req, Stream(r), Generate(r)
  PROVE  Good(r)
<1>1. Now(r, "phase", req[r].ans, req[r].told, req[r].held, req[r].stop)
  BY DEF Generate, Now, TypeOK, StreamState
<1>2. Handle(r, TRUE, FALSE, abort[r].noted)
  BY DEF Generate, Handle, TypeOK, AbortState
<1>3. mlx' = mlx /\ cancelled' = cancelled /\ gen' = gen /\ asked' = asked /\ req[r].pc = "idle"
  BY DEF Generate
<1>4. TypeOK'
  BY <1>1, <1>2, <1>3 DEF TypeOK, Now, Handle
<1>5. \A x \in Req \ {r} : Same(x)
  BY <1>1, <1>2, <1>3 DEF Same, Now, Handle, Queued
<1>6. Stream(r)'
  <2> USE <1>1, <1>3
  <2>1. Outstanding(r)' /\ Running(r)'
    BY DEF Now, Queued, Outstanding, Waits, Running, Stream, Live
  <2>2. Closing(r)' /\ Kept(r)' /\ Holds(r)'
    BY DEF Now, Queued, Closing, Kept, Suspended, Holds, Stream
  <2>3. Causes(r)' /\ Signal(r)'
    BY <1>2 DEF Now, Handle, Causes, Signal, Stream
  <2>4. Verdicts(r)' /\ Reported(r)'
    BY DEF Now, Verdicts, Reported, Stream
  <2>5. Watchdog(r)'
    BY <1>2 DEF Now, Handle, Watchdog, Stream
  <2> QED BY <2>1, <2>2, <2>3, <2>4, <2>5 DEF Stream
<1> QED BY <1>3, <1>4, <1>5, <1>6 DEF Good

(* A cancel, before, during or after the stream, keeps the request's invariant. *)
LEMMA CancelGood ==
  ASSUME TypeOK, Single(mlx.jobs), NEW r \in Req, Stream(r), Cancel(r)
  PROVE  Good(r)
<1> DEFINE when == IF abort[r].live THEN "live" ELSE IF req[r].pc = "idle" THEN "early" ELSE "late"
<1>1. /\ asked' \in [Req -> {"no", "early", "live", "late"}] /\ asked'[r] = when
      /\ \A x \in Req \ {r} : asked'[x] = asked[x]
  BY DEF Cancel, TypeOK
<1>2. /\ abort' \in [Req -> AbortState]
      /\ abort'[r] = [abort[r] EXCEPT !.set = @ \/ abort[r].live]
      /\ \A x \in Req \ {r} : abort'[x] = abort[x]
  <2>1. abort' = [abort EXCEPT ![r].set = @ \/ abort[r].live] /\ abort \in [Req -> AbortState]
    BY DEF Cancel, TypeOK
  <2>2. (abort[r].set \/ abort[r].live) \in BOOLEAN
    OBVIOUS
  <2> QED BY <2>1, <2>2 DEF AbortState
<1>3. /\ abort'[r].live = abort[r].live /\ abort'[r].noted = abort[r].noted
      /\ abort'[r].set <=> abort[r].set \/ abort[r].live
  BY <1>2 DEF TypeOK, AbortState
<1>4. req' = req /\ gen' = gen /\ mlx' = mlx /\ cancelled' = cancelled \union {r}
  BY DEF Cancel
<1>5. TypeOK'
  BY <1>1, <1>2, <1>4 DEF TypeOK
<1>6. \A x \in Req \ {r} : Same(x)
  BY <1>1, <1>2, <1>4 DEF Same, Queued
<1>7. Stream(r)'
  <2> USE <1>4
  <2>1. Outstanding(r)' /\ Running(r)' /\ Closing(r)' /\ Kept(r)' /\ Holds(r)'
    BY DEF Queued, Outstanding, Waits, Running, Closing, Kept, Suspended, Holds, Stream
  <2>2. asked'[r] # "no" /\ asked'[r] \in {"live", "early", "late"}
    BY <1>1
  <2>3. Causes(r)'
    BY <1>3, <2>2 DEF Causes
  <2>4. Signal(r)'
    BY <1>1, <1>3 DEF Signal, Stream
  <2>5. Verdicts(r)' /\ Reported(r)'
    BY <2>2 DEF Verdicts, Reported, Whole, Stream
  <2>6. Watchdog(r)'
    BY <1>3 DEF Watchdog, Stream
  <2> QED BY <2>1, <2>3, <2>4, <2>5, <2>6 DEF Stream
<1> QED BY <1>4, <1>5, <1>6, <1>7 DEF Good

-----------------------------------------------------------------------------
(* The thread.                                                             *)
LEMMA AnswerDoes ==
  ASSUME TypeOK, NEW r \in Req, NEW a \in {"event", "noevent", "raised", "good", "bad"}, Answer(r, a)
  PROVE  /\ req[r].pc \in {"waiting", "memory", "finalize"} =>
              Now(r, req[r].pc, a, req[r].told, req[r].held, req[r].stop)
         /\ req[r].pc \notin {"waiting", "memory", "finalize"} => req' = req
BY DEF TypeOK, Answer, Now, StreamState

(* Dropping a withdrawn job keeps the request's invariant. *)
LEMMA SkipGood ==
  ASSUME TypeOK, Single(mlx.jobs), NEW r \in Req, Stream(r), Skip(r)
  PROVE  Good(r)
<1>1. mlx' = [jobs |-> Tail(mlx.jobs), busy |-> Idle] /\ mlx.busy = Idle /\ Ready("void", r)
  BY DEF Skip, Took, Ready, TypeOK
<1>2. /\ mlx' \in [jobs : Seq(Jobs), busy : Req \union {Idle}] /\ Single(mlx'.jobs)
      /\ Taken("void", r)
  BY <1>1, TakeDoes
<1>3. mlx'.busy = mlx.busy
  BY <1>1
<1>4. TypeOK'
  BY <1>2 DEF Skip, TypeOK
<1>5. \A x \in Req : Same(x)
  BY <1>2, <1>3 DEF Same, Skip, Taken, Live
<1>6. Stream(r)'
  BY <1>5, Frame
<1> QED BY <1>2, <1>4, <1>5, <1>6 DEF Good

(* next_event, which asks for the flag before it asks the adapter, keeps the invariant. *)
LEMMA NextEventGood ==
  ASSUME TypeOK, Single(mlx.jobs), NEW r \in Req, Stream(r), NextEvent(r)
  PROVE  Good(r)
<1>0. /\ Ready("next", r) /\ mlx.busy = Idle
      /\ gen' = gen /\ abort' = abort /\ cancelled' = cancelled /\ asked' = asked
  BY DEF NextEvent, Ready
<1>1. Queued("next", r)
  <2>1. mlx.jobs \in Seq(Jobs) /\ mlx.jobs # <<>> /\ mlx.jobs[1] = Job("next", r)
    BY <1>0 DEF Ready, TypeOK
  <2>2. 1 \in DOMAIN mlx.jobs
    BY <2>1
  <2> QED BY <2>1, <2>2 DEF Queued, In
<1>2. /\ req[r].pc = "waiting" /\ req[r].ans = "none" /\ req[r].held = TRUE /\ req[r].told = "none"
      /\ ~Queued("close", r)
  <2>1. req[r].pc = "waiting" /\ req[r].ans = "none"
    BY <1>1 DEF Stream, Outstanding, Waits, Live
  <2> QED BY <2>1, HoldsIsTrue DEF Stream, Reported, Closing
<1>3. CASE (abort[r].set \/ gen[r].st \in Over) /\ Took /\ Answer(r, "noevent")
  <2>1. mlx' = [jobs |-> Tail(mlx.jobs), busy |-> Idle]
    BY <1>0, <1>3 DEF Took, TypeOK
  <2>2. /\ mlx' \in [jobs : Seq(Jobs), busy : Req \union {Idle}] /\ Single(mlx'.jobs)
        /\ Taken("next", r)
    BY <1>0, <2>1, TakeDoes
  <2>3. Now(r, "waiting", "noevent", "none", TRUE, req[r].stop)
    BY <1>2, <1>3, AnswerDoes
  <2>4. asked[r] # "no" \/ gen[r].st = "done"
    BY <1>2, <1>3 DEF Stream, Causes, Verdicts, Over
  <2>5. TypeOK'
    BY <1>0, <2>2, <2>3 DEF TypeOK, Now
  <2>6. mlx'.busy = Idle
    BY <2>1
  <2>7. \A x \in Req \ {r} : Same(x)
    BY <1>0, <2>2, <2>3, <2>6 DEF Same, Now, Taken, Live
  <2>8. Stream(r)'
    <3> USE <1>0, <2>3
    <3>1. Outstanding(r)' /\ Running(r)'
      BY <2>2, <2>6, IdleAssumption DEF Outstanding, Running, Taken, Live, Idle
    <3>2. Closing(r)' /\ Kept(r)' /\ Holds(r)'
      BY <1>2, <2>2 DEF Now, Closing, Kept, Holds, Taken
    <3>3. Causes(r)' /\ Signal(r)'
      BY <1>2 DEF Now, Causes, Signal, Stream
    <3>4. Verdicts(r)' /\ Reported(r)'
      BY <1>2, <2>4 DEF Now, Verdicts, Reported, Stream
    <3>5. Watchdog(r)'
      BY <1>2 DEF Now, Watchdog, Stream
    <3> QED BY <3>1, <3>2, <3>3, <3>4, <3>5 DEF Stream
  <2> QED BY <2>2, <2>5, <2>7, <2>8 DEF Good
<1>4. CASE gen[r].st \notin Over /\ mlx' = [jobs |-> Tail(mlx.jobs), busy |-> r] /\ UNCHANGED req
  <2>1. /\ mlx' \in [jobs : Seq(Jobs), busy : Req \union {Idle}] /\ Single(mlx'.jobs)
        /\ Taken("next", r)
    BY <1>0, <1>4, TakeDoes
  <2>2. mlx'.busy = r /\ req' = req
    BY <1>4
  <2>3. TypeOK'
    BY <1>0, <2>1, <2>2 DEF TypeOK
  <2>4. \A x \in Req \ {r} : Same(x)
    BY <1>0, <2>1, <2>2, IdleAssumption DEF Same, Taken, Live, Idle
  <2>5. Stream(r)'
    <3> USE <1>0, <1>2, <2>2
    <3>1. Outstanding(r)' /\ Running(r)'
      BY <1>4, <2>1 DEF Outstanding, Running, Waits, Taken, Live
    <3>2. Closing(r)' /\ Kept(r)' /\ Holds(r)'
      BY <2>1 DEF Closing, Kept, Holds, Taken
    <3>3. Causes(r)' /\ Signal(r)'
      BY DEF Causes, Signal, Stream
    <3>4. Verdicts(r)' /\ Reported(r)'
      BY DEF Verdicts, Reported, Whole, Stream
    <3>5. Watchdog(r)'
      BY DEF Watchdog, Stream
    <3> QED BY <3>1, <3>2, <3>3, <3>4, <3>5 DEF Stream
  <2> QED BY <2>1, <2>3, <2>4, <2>5 DEF Good
<1> QED BY <1>3, <1>4 DEF NextEvent


(* The outcomes of a token, with what the registry had to say.             *)
LEMMA OutcomesAre ==
  ASSUME NEW r \in Req, TypeOK, gen[r].st \notin Over, NEW o \in Outcomes(r)
  PROVE  /\ o[1] \in {"open", "tail", "done", "failed", "cut"}
         /\ o[2] \in {"none", "stored", "settled"}
         /\ o[3] = (IF o[1] \in {"open", "tail"} THEN "event"
                    ELSE IF o[1] = "failed" THEN "raised" ELSE "noevent")
         /\ o[1] = "tail" => o[2] = "stored"
         /\ o[1] = "cut" => r \in cancelled
BY DEF Outcomes

(* A token, an end, a cut or a failure of the generator keeps the invariant. *)
LEMMA TokenGood ==
  ASSUME TypeOK, Single(mlx.jobs), NEW r \in Req, Stream(r), Token(r)
  PROVE  Good(r)
<1>1. /\ mlx.busy = r /\ mlx' = [mlx EXCEPT !.busy = Idle]
      /\ abort' = abort /\ cancelled' = cancelled /\ asked' = asked
  BY DEF Token
<1>2. mlx' \in [jobs : Seq(Jobs), busy : Req \union {Idle}] /\ mlx'.jobs = mlx.jobs /\ mlx'.busy = Idle
  BY <1>1 DEF TypeOK
<1>3. /\ gen[r].st \notin Over /\ \A k \in Live : ~Queued(k, r)
      /\ req[r].pc = "ended" \/ (req[r].pc = "waiting" /\ req[r].ans = "none")
  BY <1>1 DEF Stream, Running, Waits
<1>4. PICK o \in Outcomes(r) :
        gen' = [gen EXCEPT ![r] = [st |-> o[1], cache |-> o[2]]] /\ Answer(r, o[3])
  BY DEF Token
<1> DEFINE st == o[1]
           cache == o[2]
           a == o[3]
<1>5. /\ st \in {"open", "tail", "done", "failed", "cut"} /\ cache \in {"none", "stored", "settled"}
      /\ a = (IF st \in {"open", "tail"} THEN "event" ELSE IF st = "failed" THEN "raised" ELSE "noevent")
      /\ st = "tail" => cache = "stored"
      /\ st = "cut" => r \in cancelled
  BY <1>3, <1>4, OutcomesAre
<1> HIDE DEF st, cache, a
<1>6. /\ gen' \in [Req -> GeneratorState] /\ gen'[r] = [st |-> st, cache |-> cache]
      /\ \A x \in Req \ {r} : gen'[x] = gen[x]
  BY <1>4, <1>5 DEF TypeOK, GeneratorState, Over, st, cache
<1>7. CASE req[r].pc = "ended"
  <2>1. req' = req
    BY <1>4, <1>5, <1>7, AnswerDoes DEF a
  <2>2. TypeOK'
    BY <1>1, <1>2, <1>6, <2>1 DEF TypeOK
  <2>3. \A x \in Req \ {r} : Same(x)
    BY <1>1, <1>2, <1>6, <2>1, IdleAssumption DEF Same, Queued, Idle
  <2>4. Stream(r)'
    <3> USE <1>1, <1>7, <2>1
    <3>1. Outstanding(r)' /\ Running(r)' /\ Closing(r)' /\ Holds(r)'
      BY <1>2, <1>3, IdleAssumption DEF Outstanding, Running, Closing, Holds, Queued, Stream, Idle
    <3>2. Kept(r)'
      BY <1>2 DEF Kept, Suspended, Queued, Stream
    <3>3. Causes(r)' /\ Signal(r)'
      BY <1>5, <1>6 DEF Causes, Signal, Stream
    <3>4. Verdicts(r)' /\ Reported(r)'
      BY <1>3, <1>6 DEF Verdicts, Reported, Whole, Stream, Over
    <3>5. Watchdog(r)'
      BY <1>5, <1>6 DEF Watchdog, Stream
    <3> QED BY <3>1, <3>2, <3>3, <3>4, <3>5 DEF Stream
  <2> QED BY <1>2, <2>2, <2>3, <2>4 DEF Good
<1>8. CASE req[r].pc = "waiting" /\ req[r].ans = "none"
  <2>0. req[r].held = TRUE /\ req[r].told = "none" /\ ~Queued("close", r)
    BY <1>8, HoldsIsTrue DEF Stream, Reported, Closing
  <2>1. Now(r, "waiting", a, "none", TRUE, req[r].stop)
    BY <1>4, <1>5, <1>8, <2>0, AnswerDoes DEF a
  <2>2. TypeOK'
    BY <1>1, <1>2, <1>6, <2>1 DEF TypeOK, Now
  <2>3. \A x \in Req \ {r} : Same(x)
    BY <1>1, <1>2, <1>6, <2>1, IdleAssumption DEF Same, Now, Queued, Idle
  <2>4. Stream(r)'
    <3> USE <1>1, <2>0, <2>1
    <3>1. Outstanding(r)' /\ Running(r)'
      BY <1>2, <1>3, IdleAssumption DEF Outstanding, Running, Queued, Idle
    <3>2. Closing(r)' /\ Kept(r)' /\ Holds(r)'
      BY <1>2 DEF Now, Closing, Kept, Holds, Queued
    <3>3. Causes(r)' /\ Signal(r)'
      BY <1>5, <1>6, <1>8 DEF Now, Causes, Signal, Stream
    <3>4. Verdicts(r)' /\ Reported(r)'
      BY <1>5, <1>6, <3>3 DEF Now, Verdicts, Reported, Causes
    <3>5. Watchdog(r)'
      BY <1>5, <1>6, <1>8 DEF Now, Watchdog, Stream
    <3> QED BY <3>1, <3>2, <3>3, <3>4, <3>5 DEF Stream
  <2> QED BY <1>2, <2>2, <2>3, <2>4 DEF Good
<1> QED BY <1>3, <1>7, <1>8

(* Closing the generator on the thread settles or releases its cache. *)
LEMMA CloseGood ==
  ASSUME TypeOK, Single(mlx.jobs), NEW r \in Req, Stream(r), CloseGenerator(r)
  PROVE  Good(r)
<1>0. /\ Ready("close", r) /\ mlx.busy = Idle
      /\ req' = req /\ abort' = abort /\ cancelled' = cancelled /\ asked' = asked
  BY DEF CloseGenerator, Ready
<1>1. mlx' = [jobs |-> Tail(mlx.jobs), busy |-> Idle]
  BY <1>0 DEF CloseGenerator, Took, TypeOK
<1>2. /\ mlx' \in [jobs : Seq(Jobs), busy : Req \union {Idle}] /\ Single(mlx'.jobs)
      /\ Taken("close", r) /\ mlx'.busy = Idle
  BY <1>0, <1>1, TakeDoes
<1>3. ~req[r].held /\ req[r].pc \in {"last", "ended"}
  <2>1. Queued("close", r)
    BY <1>2 DEF Taken
  <2> QED BY <2>1 DEF Stream, Closing
<1>4. /\ gen' \in [Req -> GeneratorState]
      /\ \A x \in Req \ {r} : gen'[x] = gen[x]
      /\ gen[r].st \in Over => gen'[r] = gen[r]
      /\ gen[r].st = "open" => gen'[r] = [st |-> "closed", cache |->
                                    IF abort[r].noted = "memory" THEN "released" ELSE "settled"]
      /\ gen[r].st \in {"fresh", "tail"} => gen'[r] = [st |-> "closed", cache |-> gen[r].cache]
      /\ gen[r].st \in {"fresh", "open", "tail"} \union Over
  BY DEF CloseGenerator, TypeOK, GeneratorState, Over
<1>5. TypeOK'
  BY <1>0, <1>2, <1>4 DEF TypeOK
<1>6. \A x \in Req \ {r} : Same(x)
  BY <1>0, <1>2, <1>4 DEF Same, Taken
<1>7. gen'[r].st \in Over /\ (gen'[r].st \in {"closed"} \/ gen'[r].st = gen[r].st)
  BY <1>4 DEF Over
<1>8. Stream(r)'
  <2> USE <1>0, <1>3
  <2>1. Outstanding(r)' /\ Running(r)'
    BY <1>2, IdleAssumption DEF Outstanding, Waits, Running, Taken, Idle, Stream, Live
  <2>2. Closing(r)' /\ Holds(r)'
    BY DEF Closing, Holds, Stream
  <2>3. Kept(r)'
    BY <1>2, <1>7, IdleAssumption DEF Kept, Suspended, Over, Idle
  <2>4. Causes(r)' /\ Signal(r)'
    BY <1>7 DEF Causes, Signal, Stream
  <2>5. Verdicts(r)' /\ Reported(r)'
    BY <1>4 DEF Verdicts, Reported, Whole, Stream, Over
  <2>6. Watchdog(r)'
    BY <1>4 DEF Watchdog, Stream, Over
  <2> QED BY <2>1, <2>2, <2>3, <2>4, <2>5, <2>6 DEF Stream
<1> QED BY <1>2, <1>5, <1>6, <1>8 DEF Good

(* The memory check and finalize keep the invariant. *)
LEMMA AskedGood ==
  ASSUME TypeOK, Single(mlx.jobs), NEW r \in Req, Stream(r), Ask(r)
  PROVE  Good(r)
<1>0. PICK k \in {"memory", "finalize"} : Ready(k, r)
  BY DEF Ask
<1>1. PICK a \in {"good", "bad"} : Answer(r, a)
  BY DEF Ask
<1>2. /\ mlx.busy = Idle
      /\ gen' = gen /\ abort' = abort /\ cancelled' = cancelled /\ asked' = asked
  BY <1>0 DEF Ask, Ready
<1>3. mlx' = [jobs |-> Tail(mlx.jobs), busy |-> Idle]
  BY <1>2 DEF Ask, Took, TypeOK
<1>4. /\ mlx' \in [jobs : Seq(Jobs), busy : Req \union {Idle}] /\ Single(mlx'.jobs)
      /\ Taken(k, r) /\ mlx'.busy = Idle
  BY <1>0, <1>3, TakeDoes
<1>5. /\ req[r].pc = k /\ req[r].ans = "none" /\ req[r].held = TRUE /\ req[r].told = "none"
      /\ ~Queued("close", r)
  <2>1. Queued(k, r)
    BY <1>4 DEF Taken
  <2>2. req[r].pc = k /\ req[r].ans = "none"
    BY <2>1 DEF Stream, Outstanding, Waits, Live
  <2> QED BY <2>2, HoldsIsTrue DEF Stream, Reported, Closing
<1>6. Now(r, k, a, "none", TRUE, req[r].stop)
  BY <1>1, <1>5, AnswerDoes
<1>7. TypeOK'
  BY <1>2, <1>4, <1>6 DEF TypeOK, Now
<1>8. \A x \in Req \ {r} : Same(x)
  BY <1>2, <1>4, <1>6 DEF Same, Now, Taken, Live
<1>9. Stream(r)'
  <2> USE <1>2, <1>5, <1>6
  <2>1. Outstanding(r)' /\ Running(r)'
    BY <1>4, IdleAssumption DEF Outstanding, Running, Taken, Live, Idle
  <2>2. Closing(r)' /\ Kept(r)' /\ Holds(r)'
    BY <1>4 DEF Now, Closing, Kept, Holds, Taken
  <2>3. Causes(r)' /\ Signal(r)'
    BY DEF Now, Causes, Signal, Stream
  <2>4. Verdicts(r)' /\ Reported(r)'
    BY DEF Now, Verdicts, Reported, Whole, Stream
  <2>5. Watchdog(r)'
    BY DEF Now, Watchdog, Stream
  <2> QED BY <2>1, <2>2, <2>3, <2>4, <2>5 DEF Stream
<1> QED BY <1>4, <1>7, <1>8, <1>9 DEF Good

(* Only the thread begins and ends a token.                                *)
LEMMA BusyStays ==
  ASSUME TypeOK, NEW r \in Req, Generate(r) \/ Cancel(r) \/ Resume(r) \/ Disconnect(r)
  PROVE  mlx'.busy = mlx.busy
<1>1. Submit("close", r) \/ Submit("next", r) \/ Submit("memory", r) \/ Submit("finalize", r)
        => mlx'.busy = mlx.busy
  BY DEF Submit, TypeOK
<1>2. Finally(r) => mlx'.busy = mlx.busy
  BY DEF Finally, TypeOK
<1>3. LoopTop(r) => mlx'.busy = mlx.busy
  BY <1>1 DEF LoopTop, AbortedEnd, AskNext, Orphan
<1>4. Event(r) => mlx'.busy = mlx.busy
  BY <1>1, <1>3 DEF Event, AbortedEnd
<1>5. Answered(r) \/ Memory(r) => mlx'.busy = mlx.busy
  BY <1>1, <1>4 DEF Answered, Memory
<1>6. First(r) \/ Written(r) \/ Flushed(r) \/ Finalized(r) => mlx'.busy = mlx.busy
  BY <1>1, <1>3 DEF First, Written, Flushed, Finalized
<1> QED BY <1>2, <1>5, <1>6 DEF Generate, Cancel, Resume, Disconnect

-----------------------------------------------------------------------------
(* The invariant holds.                                                    *)
LEMMA InitHolds == Init => IInv
<1> SUFFICES ASSUME Init PROVE IInv
  OBVIOUS
<1>1. TypeOK
  BY DEF Init, TypeOK, StreamState, GeneratorState, AbortState, Idle
<1>2. mlx.jobs = <<>> /\ mlx.busy = Idle
  BY DEF Init
<1>3. Single(mlx.jobs)
  BY <1>2 DEF Single
<1>4. \A r \in Req : \A k : ~Queued(k, r)
  BY <1>2 DEF Queued, In
<1>5. ASSUME NEW r \in Req PROVE Stream(r)
  <2>1. /\ req[r] = [pc |-> "idle", ans |-> "none", told |-> "none", held |-> FALSE, stop |-> FALSE]
        /\ gen[r] = [st |-> "fresh", cache |-> "none"] /\ asked[r] = "no" /\ cancelled = {}
        /\ abort[r] = [live |-> FALSE, set |-> FALSE, noted |-> "none"]
    BY DEF Init
  <2>2. Outstanding(r) /\ Running(r) /\ Closing(r) /\ Kept(r) /\ Holds(r)
    BY <1>2, <1>4, <2>1, IdleAssumption
       DEF Outstanding, Running, Closing, Kept, Suspended, Holds, Idle
  <2>3. Causes(r) /\ Signal(r) /\ Verdicts(r) /\ Reported(r) /\ Watchdog(r)
    BY <2>1 DEF Causes, Signal, Verdicts, Reported, Watchdog
  <2> QED BY <2>2, <2>3 DEF Stream
<1> QED BY <1>1, <1>3, <1>5 DEF IInv

(* Every step of the system is good for the request that takes it. *)
LEMMA StepGood ==
  ASSUME IInv, NEW r \in Req,
         Generate(r) \/ Resume(r) \/ Disconnect(r) \/ Cancel(r) \/ Thread(r)
  PROVE  Good(r)
<1>0. TypeOK /\ Single(mlx.jobs) /\ Stream(r)
  BY DEF IInv
<1>1. CASE Generate(r)
  BY <1>0, <1>1, GenerateGood
<1>2. CASE Resume(r)
  BY <1>0, <1>2, ResumeGood
<1>3. CASE Disconnect(r)
  BY <1>0, <1>3, FinallyGood DEF Disconnect
<1>4. CASE Cancel(r)
  BY <1>0, <1>4, CancelGood
<1>5. CASE Thread(r)
  BY <1>0, <1>5, SkipGood, NextEventGood, TokenGood, CloseGood, AskedGood DEF Thread
<1> QED BY <1>1, <1>2, <1>3, <1>4, <1>5

(* A good step frames the other requests, so the invariant is inductive. *)
LEMMA NextHolds == IInv /\ [Next]_vars => IInv'
<1> SUFFICES ASSUME IInv, [Next]_vars PROVE IInv'
  OBVIOUS
<1>1. CASE Next
  <2>1. PICK r \in Req : Generate(r) \/ Resume(r) \/ Disconnect(r) \/ Cancel(r) \/ Thread(r)
    BY <1>1 DEF Next
  <2>2. Good(r)
    BY <2>1, StepGood
  <2>3. ASSUME NEW x \in Req PROVE Stream(x)'
    BY <2>2, <2>3, Frame DEF Good, IInv
  <2> QED BY <2>2, <2>3 DEF Good, IInv
<1>2. CASE UNCHANGED vars
  <2>1. TypeOK' /\ Single(mlx.jobs)'
    BY <1>2 DEF vars, IInv, TypeOK, Single
  <2>2. ASSUME NEW x \in Req PROVE Stream(x)'
    <3>1. Same(x)
      BY <1>2 DEF vars, Same, Queued
    <3> QED BY <3>1, Frame DEF IInv
  <2> QED BY <2>1, <2>2 DEF IInv
<1> QED BY <1>1, <1>2

(* Every reachable state of the worker satisfies the inductive invariant. *)
THEOREM Invariance == Spec => []IInv
BY InitHolds, NextHolds, PTL DEF Spec

-----------------------------------------------------------------------------
(* The variables of the worker keep their types.                           *)
THEOREM TypeCorrect == Spec => []TypeOK
<1>1. IInv => TypeOK
  BY DEF IInv
<1> QED BY <1>1, Invariance, PTL

(* close_on_mlx_thread and the finally of lines(): a suspended generator   *)
(* never outlives its stream without a close() on the thread's queue.      *)
THEOREM GeneratorsClose == Spec => []ClosePending
<1>1. IInv => ClosePending
  BY DEF IInv, Stream, Kept, Suspended, Holds, ClosePending
<1> QED BY <1>1, Invariance, PTL

(* The reason of an interruption reaches the adapter's clean-up: caches    *)
(* are released for the memory watchdog and for nothing else.              *)
THEOREM CachesReleased == Spec => []PressureReleases
<1>1. IInv => PressureReleases
  BY DEF IInv, Stream, Watchdog, PressureReleases
<1> QED BY <1>1, Invariance, PTL

(* The two together, as the run checks them: an ended stream leaves        *)
(* nothing of its generator behind.                                        *)
THEOREM GeneratorsAreSettled == Spec => []GeneratorsSettle
BY GeneratorsClose, CachesReleased, PTL DEF GeneratorsSettle

(* A client that did not cancel is told how its reply really ended.        *)
THEOREM ClientsToldTruly == Spec => []ToldTruly
<1>1. IInv => ToldTruly
  BY DEF IInv, Stream, Reported, Whole, ToldTruly
<1> QED BY <1>1, Invariance, PTL

(* The check of next_event, made where no await can come between: once a   *)
(* running request is cancelled, or is gone, no token of it is started.    *)
THEOREM NoTokenAfterCancel == Spec => StopsAtNextToken
<1> DEFINE Fine == \A r \in Req : mlx.busy # r /\ mlx'.busy = r => asked[r] # "live" /\ Active(r)
<1>1. ASSUME IInv, [Next]_vars PROVE [Fine]_vars
  <2> SUFFICES ASSUME Next, NEW x \in Req, mlx.busy # x, mlx'.busy = x
               PROVE  asked[x] # "live" /\ Active(x)
    BY <1>1
  <2>1. PICK r \in Req : Generate(r) \/ Resume(r) \/ Disconnect(r) \/ Cancel(r) \/ Thread(r)
    BY DEF Next
  <2>2. x = r
    BY <2>1, <1>1, StepGood DEF Good, Same
  <2>3. NextEvent(r) /\ ~abort[r].set
    <3>1. CASE Generate(r) \/ Cancel(r) \/ Resume(r) \/ Disconnect(r)
      <4>1. mlx'.busy = mlx.busy
        BY <1>1, <3>1, BusyStays DEF IInv
      <4> QED BY <2>2, <4>1
    <3>2. CASE Skip(r) \/ CloseGenerator(r) \/ Ask(r) \/ Token(r)
      <4>1. mlx'.busy = Idle
        BY <1>1, <3>2 DEF Skip, CloseGenerator, Ask, Token, Took, Ready, IInv, TypeOK
      <4> QED BY <2>2, <4>1, IdleAssumption DEF Idle
    <3>3. CASE NextEvent(r)
      <4>1. CASE Took
        <5>1. mlx'.busy = Idle
          BY <1>1, <3>3, <4>1 DEF NextEvent, Took, Ready, IInv, TypeOK
        <5> QED BY <2>2, <5>1, IdleAssumption DEF Idle
      <4> QED BY <3>3, <4>1 DEF NextEvent
    <3> QED BY <2>1, <3>1, <3>2, <3>3 DEF Thread
  <2>4. req[r].pc = "waiting"
    <3>1. mlx.jobs \in Seq(Jobs) /\ mlx.jobs # <<>> /\ mlx.jobs[1] = Job("next", r)
      BY <1>1, <2>3 DEF NextEvent, Ready, IInv, TypeOK
    <3>2. 1 \in DOMAIN mlx.jobs
      BY <3>1
    <3>3. Queued("next", r)
      BY <3>1, <3>2 DEF Queued, In
    <3> QED BY <1>1, <3>3 DEF IInv, Stream, Outstanding, Waits, Live
  <2>5. asked[r] # "live"
    BY <1>1, <2>3 DEF IInv, Stream, Signal
  <2> QED BY <2>2, <2>4, <2>5 DEF Active
<1> QED BY <1>1, Invariance, PTL DEF Spec, StopsAtNextToken
=============================================================================
