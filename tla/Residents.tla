------------------------------ MODULE Residents ------------------------------
(***************************************************************************)
(* What is loaded on whose word: the resident profiles and the endpoint in *)
(* config.json, the auto-load gate and the last model in the database, and *)
(* the tasks that read and write them (api/management.py, main.py, api/    *)
(* openai_compat.py): profile patches and settings writes, the listener    *)
(* switch and its rollback, loads by the user and by requests, unloads,    *)
(* the preload at start and its retries.  A coordinator may die anywhere.  *)
(***************************************************************************)
EXTENDS Naturals, FiniteSets

CONSTANTS
  Model,
  Patch,         \* profile patches: [m, keep]
  Body,          \* settings writes: [ep, pins], pins = Absent when the body has no profiles
  Endpoint,      \* [host, port]
  Stored,        \* the endpoint of the first start
  Absent,
  MaxResRestarts,   \* bound: coordinators that die
  MaxCalls,      \* bound: calls of clients, of every kind together
  MaxRetries     \* RESIDENT_PRELOAD_RETRY_ATTEMPTS

ASSUME EndpointsKnown == Stored \in Endpoint /\ \A b \in Body : b.ep \in Endpoint
ASSUME PinsKnown == \A b \in Body : b.pins = Absent \/ b.pins \in SUBSET Model
ASSUME PatchesKnown == Patch \subseteq [m : Model, keep : BOOLEAN]

VARIABLES
  pins, ep, tuned,     \* config.json: resident models, api listener, any other key
  gate, last,          \* api_autoload_suspended, last_loaded_model_id
  server,              \* the endpoint the public listener serves, or Absent
  resident,            \* the models that are loaded
  writeLock, autoLock, loadLock,
  patch,               \* each patch: [pc, copy]
  put,                 \* the settings write: [pc, body, seen, rearmed]
  user, api, stop,     \* an explicit load, a request that needs a model, an unload of all
  pre,                 \* the preload: [pc, todo, now, failed, round]
  asked, late,         \* the profiles as the writers asked; a patch was written over newer ones
  imported,            \* the endpoint was written by an import, which applies nothing
  quiet,               \* since the user unloaded everything: "no", "clean" or "racing"
  count

config == <<pins, ep, tuned>>
database == <<gate, last>>
locks == <<writeLock, autoLock, loadLock>>
ghosts == <<asked, late, imported, quiet>>
resVars == <<config, database, server, resident, locks, patch, put, user, api, stop, pre, ghosts, count>>

Off == [pc |-> "off", todo |-> {}, now |-> Absent, failed |-> {}, round |-> 0]
NoPut == [pc |-> "rest", body |-> Absent, seen |-> Absent, rearmed |-> FALSE]
AtRest == [pc |-> "rest", m |-> Absent]

Called == count.calls < MaxCalls /\ count' = [count EXCEPT !.calls = @ + 1]

\* At start: nothing is preloaded behind an armed gate, and the last model only
\* where nothing is pinned.
Preload ==
  LET todo == IF pins # {} THEN pins ELSE {m \in Model : m = last} IN
  IF gate \/ todo = {} THEN Off ELSE [Off EXCEPT !.pc = "lock", !.todo = todo]

ResInit ==
  /\ pins \in SUBSET Model /\ ep = Stored /\ tuned = FALSE /\ gate = FALSE /\ last = Absent
  /\ server = ep /\ resident = {} /\ writeLock = Absent /\ autoLock = Absent /\ loadLock = Absent
  /\ patch = [c \in Patch |-> [pc |-> "new", copy |-> {}]] /\ put = NoPut
  /\ user = AtRest /\ api = AtRest /\ stop = "rest" /\ pre = Preload
  /\ asked = pins /\ late = FALSE /\ imported = FALSE /\ quiet = "no"
  /\ count = [restarts |-> 0, calls |-> 0]

-----------------------------------------------------------------------------
(* put_model_profile: the list is copied, then the write lock awaited.     *)
PatchCopies(c) ==
  /\ Called /\ patch[c].pc = "new" /\ patch' = [patch EXCEPT ![c] = [pc |-> "wait", copy |-> pins]]
  /\ UNCHANGED <<config, database, server, resident, locks, put, user, api, stop, pre, ghosts>>

Edited(old, c) == IF c.keep THEN old \cup {c.m} ELSE old \ {c.m}
\* One entry of the copy is changed.
ProfilesAfter(old, c) == Edited(old, c)

\* A pin opens the gate; an unpinned model is no longer the last one.
Forget(before, after) == last' = IF last \in before \ after THEN Absent ELSE last
\* _rearm_resident_autoload
Rearms(opens) == gate' = (gate /\ ~opens)
PatchWrites(c) ==
  /\ patch[c].pc = "wait" /\ writeLock = Absent
  /\ pins' = ProfilesAfter(patch[c].copy, c)
  /\ Rearms(c.keep) /\ Forget(patch[c].copy, pins')
  /\ patch' = [patch EXCEPT ![c].pc = "done"]
  /\ asked' = Edited(asked, c) /\ late' = (late \/ patch[c].copy # pins)
  /\ quiet' = IF c.keep THEN "no" ELSE quiet
  /\ UNCHANGED <<ep, tuned, server, resident, locks, put, user, api, stop, pre, imported, count>>
PatchConflict(c) ==
  /\ patch[c].pc = "wait" /\ writeLock # Absent /\ patch' = [patch EXCEPT ![c].pc = "done"]
  /\ UNCHANGED <<config, database, server, resident, locks, put, user, api, stop, pre, ghosts, count>>

-----------------------------------------------------------------------------
(* put_settings: the write, then the listener's switch, under the lock.    *)
Seen == [pins |-> pins, ep |-> ep, tuned |-> tuned, imported |-> imported]
PutWrites(b) ==
  /\ Called /\ put.pc = "rest" /\ writeLock = Absent
  /\ LET opens == b.pins # Absent /\ b.pins # {}
         written == IF b.pins = Absent THEN pins ELSE b.pins
         stays == b.ep = ep IN
     /\ pins' = written /\ asked' = (IF b.pins = Absent THEN asked ELSE b.pins) /\ ep' = b.ep
     /\ Rearms(opens) /\ quiet' = (IF opens THEN "no" ELSE quiet)
     /\ put' = IF stays THEN NoPut
               ELSE [pc |-> "switch", body |-> b, seen |-> Seen, rearmed |-> opens /\ gate]
     /\ writeLock' = IF stays THEN Absent ELSE "put"
     /\ IF stays THEN Forget(pins, written) ELSE UNCHANGED last
     /\ imported' = (imported /\ stays)
  /\ UNCHANGED <<tuned, server, resident, autoLock, loadLock, patch, user, api, stop, pre, late>>

\* On the same port the old server goes first; a conflict cannot be told from
\* a server that does not start.
Switching == put.pc = "switch"
SamePort == server # Absent /\ server.port = put.body.ep.port
Launch(e) == server' = e
Switched ==
  /\ Switching /\ Launch(put.body.ep)
  /\ put' = NoPut /\ writeLock' = Absent /\ Forget(put.seen.pins, pins)
  /\ UNCHANGED <<config, gate, resident, autoLock, loadLock, patch, user, api, stop, pre, ghosts, count>>

(* mutant: the rollback leaves the endpoint that did not start *)
RolledBack_NewEndpoint ==
  /\ pins' = (IF put.body.pins = Absent THEN pins ELSE put.seen.pins)
  /\ UNCHANGED <<ep, tuned>>

\* Only what the body touched is put back.
RolledBack ==
  /\ pins' = (IF put.body.pins = Absent THEN pins ELSE put.seen.pins)
  /\ ep' = put.seen.ep /\ UNCHANGED tuned
SwitchFails ==
  /\ Switching /\ RolledBack
  /\ server' \in IF SamePort THEN {server, Absent} ELSE {server}
  /\ gate' = (gate \/ put.rearmed) /\ put' = NoPut /\ writeLock' = Absent
  /\ asked' = (IF put.body.pins = Absent THEN asked ELSE put.seen.pins)
  /\ imported' = put.seen.imported
  /\ UNCHANGED <<last, resident, autoLock, loadLock, patch, user, api, stop, pre, late, quiet, count>>

\* Presets and imports write without the lock, and switch nothing.
Preset ==
  /\ Called /\ tuned' = ~tuned
  /\ UNCHANGED <<pins, ep, database, server, resident, locks, patch, put, user, api, stop, pre, ghosts>>
ImportEndpoint(e) ==
  /\ Called /\ e # ep /\ ep' = e /\ imported' = TRUE
  /\ UNCHANGED <<pins, tuned, database, server, resident, locks, patch, put, user, api, stop, pre, asked, late, quiet>>

-----------------------------------------------------------------------------
(* Loads by the user and by requests *)
Grab(who) == loadLock = Absent /\ loadLock' = who
UserAsks(m) ==
  /\ Called /\ user.pc = "rest"
  /\ user' = [pc |-> "wait", m |-> m] /\ quiet' = "no"
  /\ UNCHANGED <<config, database, server, resident, locks, patch, put, api, stop, pre, asked, late, imported>>
UserLoads ==
  /\ user.pc = "wait" /\ Grab("user") /\ user' = [user EXCEPT !.pc = "load"]
  /\ UNCHANGED <<config, database, server, resident, writeLock, autoLock, patch, put, api, stop, pre, ghosts, count>>
Loaded(m) == resident' = resident \cup {m} /\ last' = m /\ gate' = FALSE
UserLoaded ==
  /\ user.pc = "load" /\ loadLock' = Absent /\ user' = AtRest
  /\ Loaded(user.m) \/ UNCHANGED <<resident, last, gate>>
  /\ UNCHANGED <<config, server, writeLock, autoLock, patch, put, api, stop, pre, ghosts, count>>

(* mutant: a request may load a model whatever the gate says *)
MayAutoload_Always == TRUE

\* The gate is read before the wait for the lock of automatic loads.
MayAutoload == ~gate
ApiAsks(m) ==
  /\ Called /\ api.pc = "rest" /\ m \notin resident /\ MayAutoload /\ api' = [pc |-> "wait", m |-> m]
  /\ UNCHANGED <<config, database, server, resident, locks, patch, put, user, stop, pre, ghosts>>
ApiLocks ==
  /\ api.pc = "wait" /\ autoLock = Absent
  /\ IF api.m \in resident THEN api' = AtRest /\ UNCHANGED autoLock
     ELSE autoLock' = "api" /\ api' = [api EXCEPT !.pc = "locked"]
  /\ UNCHANGED <<config, database, server, resident, writeLock, loadLock, patch, put, user, stop, pre, ghosts, count>>
ApiLoads ==
  /\ api.pc = "locked" /\ Grab("api") /\ api' = [api EXCEPT !.pc = "load"]
  /\ UNCHANGED <<config, database, server, resident, writeLock, autoLock, patch, put, user, stop, pre, ghosts, count>>
ApiLoaded ==
  /\ api.pc = "load" /\ loadLock' = Absent /\ autoLock' = Absent /\ api' = AtRest
  /\ Loaded(api.m) \/ UNCHANGED <<resident, last, gate>>
  /\ UNCHANGED <<config, server, writeLock, patch, put, user, stop, pre, ghosts, count>>

-----------------------------------------------------------------------------
(* Unloads.  A model that generates refuses them, and so does the lock of a *)
(* load when it is held too long.                                           *)
StopAsks ==
  /\ Called /\ stop = "rest" /\ stop' = "wait"
  /\ UNCHANGED <<config, database, server, resident, locks, patch, put, user, api, pre, ghosts>>
StopLocks ==
  /\ stop = "wait" /\ Grab("stop") /\ stop' = "unload"
  /\ UNCHANGED <<config, database, server, resident, writeLock, autoLock, patch, put, user, api, pre, ghosts, count>>
StopRefused ==
  /\ stop = "wait" /\ stop' = "rest"
  /\ UNCHANGED <<config, database, server, resident, locks, patch, put, user, api, pre, ghosts, count>>
NoLoadUnderWay == user.pc = "rest" /\ api.pc = "rest" /\ pre.pc \in {"off", "sleep"}
Stopped ==
  /\ stop = "unload" /\ stop' = "rest" /\ loadLock' = Absent /\ resident' = {} /\ gate' = TRUE
  /\ quiet' = IF NoLoadUnderWay THEN "clean" ELSE "racing"
  /\ UNCHANGED <<config, last, server, writeLock, autoLock, patch, put, user, api, pre, asked, late, imported, count>>
UnloadOne(m) ==
  /\ Called /\ m \in resident /\ loadLock = Absent
  /\ resident' = resident \ {m} /\ last' = IF last = m THEN Absent ELSE last
  /\ UNCHANGED <<config, gate, server, locks, patch, put, user, api, stop, pre, ghosts>>

-----------------------------------------------------------------------------
(* The preload: all of the first pass under the lock of automatic loads,   *)
(* then rounds of retries that take it for one load each.                  *)
PreLocks ==
  /\ pre.pc = "lock" /\ autoLock = Absent /\ autoLock' = "pre" /\ pre' = [pre EXCEPT !.pc = "pass"]
  /\ UNCHANGED <<config, database, server, resident, writeLock, loadLock, patch, put, user, api, stop, ghosts, count>>
\* A retried model that is no longer pinned is dropped.
PreDrops(m) ==
  /\ pre.pc = "retry" /\ pre.now = Absent /\ m \in pre.todo \ pins /\ pre' = [pre EXCEPT !.todo = @ \ {m}]
  /\ UNCHANGED <<config, database, server, resident, locks, patch, put, user, api, stop, ghosts, count>>
PreLoads(m) ==
  /\ pre.now = Absent /\ m \in pre.todo
  /\ \/ pre.pc = "pass" /\ UNCHANGED autoLock
     \/ pre.pc = "retry" /\ m \in pins /\ autoLock = Absent /\ autoLock' = "pre"
  /\ Grab("pre") /\ pre' = [pre EXCEPT !.now = m, !.todo = @ \ {m}]
  /\ UNCHANGED <<config, database, server, resident, writeLock, patch, put, user, api, stop, ghosts, count>>
PreLoaded(ok, again) ==
  /\ pre.now # Absent /\ loadLock' = Absent
  /\ resident' = (IF ok THEN resident \cup {pre.now} ELSE resident)
  /\ pre' = [pre EXCEPT !.now = Absent, !.failed = IF again THEN @ \cup {pre.now} ELSE @]
  /\ autoLock' = IF pre.pc = "retry" THEN Absent ELSE autoLock
  /\ UNCHANGED <<config, database, server, writeLock, patch, put, user, api, stop, ghosts, count>>
PrePassed ==
  /\ pre.pc \in {"pass", "retry"} /\ pre.todo = {} /\ pre.now = Absent
  /\ pre' = IF pre.failed = {} \/ pre.round = MaxRetries THEN Off
            ELSE [Off EXCEPT !.pc = "sleep", !.failed = pre.failed, !.round = pre.round + 1]
  /\ autoLock' = IF pre.pc = "pass" THEN Absent ELSE autoLock
  /\ UNCHANGED <<config, database, server, resident, writeLock, loadLock, patch, put, user, api, stop, ghosts, count>>
PreWakes ==
  /\ pre.pc = "sleep"
  /\ pre' = IF gate THEN Off ELSE [pre EXCEPT !.pc = "retry", !.todo = pre.failed, !.failed = {}]
  /\ UNCHANGED <<config, database, server, resident, locks, patch, put, user, api, stop, ghosts, count>>

\* The coordinator dies and starts again on what is stored.
ResRestart ==
  /\ count.restarts < MaxResRestarts /\ count' = [count EXCEPT !.restarts = @ + 1]
  /\ server' \in {ep, Absent} /\ imported' = FALSE /\ resident' = {}
  /\ writeLock' = Absent /\ autoLock' = Absent /\ loadLock' = Absent
  /\ patch' = [c \in Patch |-> IF patch[c].pc = "wait" THEN [patch[c] EXCEPT !.pc = "done"] ELSE patch[c]]
  /\ put' = NoPut /\ user' = AtRest /\ api' = AtRest /\ stop' = "rest" /\ pre' = Preload
  /\ UNCHANGED <<config, database, asked, late, quiet>>

ResNext ==
  \/ \E c \in Patch : PatchCopies(c) \/ PatchWrites(c) \/ PatchConflict(c)
  \/ \E b \in Body : PutWrites(b)
  \/ Switched \/ SwitchFails \/ Preset
  \/ \E e \in Endpoint : ImportEndpoint(e)
  \/ \E m \in Model : UserAsks(m) \/ ApiAsks(m) \/ UnloadOne(m) \/ PreDrops(m) \/ PreLoads(m)
  \/ UserLoads \/ UserLoaded \/ ApiLocks \/ ApiLoads \/ ApiLoaded
  \/ StopAsks \/ StopLocks \/ StopRefused \/ Stopped
  \/ PreLocks \/ PrePassed \/ PreWakes
  \/ PreLoaded(TRUE, FALSE) \/ PreLoaded(FALSE, FALSE) \/ PreLoaded(FALSE, TRUE)
  \/ ResRestart
ResSpec == ResInit /\ [][ResNext]_resVars

-----------------------------------------------------------------------------
ResTypeOK ==
  /\ pins \subseteq Model /\ ep \in Endpoint /\ server \in Endpoint \cup {Absent}
  /\ last \in Model \cup {Absent} /\ resident \subseteq Model /\ gate \in BOOLEAN /\ tuned \in BOOLEAN
  /\ pre.todo \subseteq Model /\ pre.failed \subseteq Model

\* "A failed host change must not leave the public API down" on an endpoint
\* that is not the stored one: outside a settings write the listener serves
\* what config.json says, or nothing.
ListenerServes == put.pc = "rest" /\ ~imported /\ server # Absent => server = ep

\* A rollback undoes what its request changed and nothing written beside it.
OthersKept == [][tuned' # tuned => Preset]_resVars

\* "Patches one entry by model id and keeps everything else untouched", as long
\* as nothing was written between the copy and the write.
PinsAsAsked == ~late => pins = asked
\* The code breaks it for patches that waited for another write.
PatchesKept == pins = asked

\* "I unloaded this survives a restart": once everything is unloaded with no
\* load under way, nothing is loaded until the user asks for it.
StopSurvives == [][quiet = "clean" /\ quiet' = "clean" => resident' \subseteq resident]_resVars
\* The code breaks it for a load that was waiting: of the preload's next model
\* or of a request that had passed the gate.
StopStays == [][quiet # "no" /\ quiet' # "no" => resident' \subseteq resident]_resVars
=============================================================================
