--------------------------- MODULE ServicesProofs ---------------------------
(***************************************************************************)
(* Proofs about the services of the coordinator, for any tasks, models,    *)
(* documents and bounds.  Each component has an inductive invariant of its *)
(* own; a behaviour of MCServices is one of exactly one component, so each *)
(* invariant also holds where another component steps.                     *)
(***************************************************************************)
EXTENDS MCServices, TLAPS, FiniteSetTheorems, SequenceTheorems, NaturalsInduction,
        WellFoundedInduction

-----------------------------------------------------------------------------
(* Residents.  The records the tasks keep.                                 *)
Pres == [pc : {"off", "lock", "pass", "sleep", "retry"}, todo : SUBSET Model,
         now : Model \cup {Absent}, failed : SUBSET Model, round : Nat]
Seens == [pins : SUBSET Model, ep : Endpoint, tuned : BOOLEAN, imported : BOOLEAN]
Puts == [pc : {"switch"}, body : Body, seen : Seens, rearmed : BOOLEAN]
Asks == [pc : {"rest", "wait", "load", "locked"}, m : Model \cup {Absent}]
Patches0 == [Patch -> [pc : {"new", "wait", "done"}, copy : SUBSET Model]]

ResTyped ==
  /\ pins \in SUBSET Model /\ ep \in Endpoint /\ tuned \in BOOLEAN
  /\ gate \in BOOLEAN /\ last \in Model \cup {Absent}
  /\ server \in Endpoint \cup {Absent} /\ resident \in SUBSET Model
  /\ patch \in Patches0 /\ put \in Puts \cup {NoPut}
  /\ user \in Asks /\ (user.pc # "rest" => user.m \in Model)
  /\ api \in Asks /\ (api.pc # "rest" => api.m \in Model)
  /\ pre \in Pres /\ imported \in BOOLEAN /\ late \in BOOLEAN

(* During a settings write the old listener serves what the write saw, and *)
(* the file has the endpoint of the write; neither after an import.        *)
Serving ==
  /\ put.pc = "rest" /\ ~imported /\ server # Absent => server = ep
  /\ put.pc = "switch" =>
       /\ ~put.seen.imported /\ server # Absent => server = put.seen.ep
       /\ ~imported => ep = put.body.ep

(* After a user's unload the gate is armed and nobody is loading.          *)
Stands ==
  /\ pre.pc \in {"off", "lock", "sleep"} => pre.now = Absent
  /\ quiet = "clean" => gate = TRUE /\ NoLoadUnderWay

ResInv == ResTyped /\ Serving /\ PinsAsAsked /\ Stands

(* What a step may do to the rest: only a preset changes another setting,  *)
(* and nothing is loaded after a stop.                                     *)
ResStep ==
  /\ tuned' # tuned => Preset
  /\ quiet = "clean" /\ quiet' = "clean" => resident' \subseteq resident

(* The initial states.                                                     *)
LEMMA ResInitHolds == ResInit => ResInv
<1> SUFFICES ASSUME ResInit PROVE ResInv
  OBVIOUS
<1>1. pre \in Pres /\ pre.now = Absent
  BY DEF ResInit, Preload, Off, Pres
<1>2. patch \in Patches0 BY DEF ResInit, Patches0
<1>3. user \in Asks /\ user.pc = "rest" /\ api \in Asks /\ api.pc = "rest" BY DEF ResInit, AtRest, Asks
<1>4. put = NoPut /\ put.pc = "rest" BY DEF ResInit, NoPut
<1> QED BY <1>1, <1>2, <1>3, <1>4, EndpointsKnown
        DEF ResInit, ResInv, ResTyped, Serving, PinsAsAsked, Stands

(* put_model_profile.                                                      *)
LEMMA PatchKeeps ==
  ASSUME ResInv, NEW c \in Patch, PatchCopies(c) \/ PatchWrites(c) \/ PatchConflict(c)
  PROVE  ResInv' /\ ResStep
<1>1. patch \in Patches0 /\ c.m \in Model /\ c.keep \in BOOLEAN /\ pins \in SUBSET Model
  BY PatchesKnown DEF ResInv, ResTyped
<1>2. CASE PatchCopies(c)
  <2>1. patch' \in Patches0 BY <1>1, <1>2 DEF PatchCopies, Patches0
  <2> QED BY <1>2, <2>1 DEF PatchCopies, config, database, locks, ghosts,
             ResInv, ResTyped, Serving, PinsAsAsked, Stands, ResStep, NoLoadUnderWay
<1>3. CASE PatchWrites(c)
  <2>1. patch' \in Patches0 BY <1>1, <1>3 DEF PatchWrites, Patches0
  <2>2. patch[c].copy \in SUBSET Model BY <1>1 DEF Patches0
  <2>3. pins' = Edited(patch[c].copy, c) /\ asked' = Edited(asked, c)
        /\ late' = (late \/ patch[c].copy # pins)
    BY <1>3 DEF PatchWrites, ProfilesAfter
  <2>4. pins' \in SUBSET Model BY <1>1, <2>2, <2>3 DEF Edited
  <2>5. PinsAsAsked' BY <2>3 DEF ResInv, PinsAsAsked, Edited
  <2>6. last' \in Model \cup {Absent} BY <1>3 DEF PatchWrites, Forget, ResInv, ResTyped
  <2>7. gate' \in BOOLEAN /\ (gate = TRUE /\ quiet' = "clean" => gate' = TRUE)
    BY <1>1, <1>3 DEF PatchWrites, Rearms, ResInv, ResTyped
  <2>8. ResTyped' BY <1>3, <2>1, <2>3, <2>4, <2>6, <2>7 DEF PatchWrites, locks, ResInv, ResTyped
  <2>9. Serving' BY <1>3 DEF PatchWrites, ResInv, Serving
  <2>10. Stands' /\ ResStep
    BY <1>3, <2>7 DEF PatchWrites, ResInv, Stands, ResStep, NoLoadUnderWay
  <2> QED BY <2>5, <2>8, <2>9, <2>10 DEF ResInv
<1>4. CASE PatchConflict(c)
  <2>1. patch' \in Patches0 BY <1>1, <1>4 DEF PatchConflict, Patches0
  <2> QED BY <1>4, <2>1 DEF PatchConflict, config, database, locks, ghosts,
             ResInv, ResTyped, Serving, PinsAsAsked, Stands, ResStep, NoLoadUnderWay
<1> QED BY <1>2, <1>3, <1>4

(* put_settings, until the listener is switched or not.                    *)
LEMMA PutKeeps == ASSUME ResInv, NEW b \in Body, PutWrites(b) PROVE ResInv' /\ ResStep
<1> DEFINE opens == b.pins # Absent /\ b.pins # {}
           written == IF b.pins = Absent THEN pins ELSE b.pins
           stays == b.ep = ep
           q == [pc |-> "switch", body |-> b, seen |-> Seen, rearmed |-> opens /\ gate]
<1>1. /\ pins' = written /\ asked' = (IF b.pins = Absent THEN asked ELSE b.pins)
      /\ ep' = b.ep /\ Rearms(opens) /\ quiet' = (IF opens THEN "no" ELSE quiet)
      /\ put' = (IF stays THEN NoPut ELSE q)
      /\ (IF stays THEN Forget(pins, written) ELSE UNCHANGED last)
      /\ imported' = (imported /\ stays) /\ put.pc = "rest"
      /\ UNCHANGED <<tuned, server, resident, patch, user, api, stop, pre, late>>
  BY DEF PutWrites
<1>2. b.ep \in Endpoint /\ (b.pins = Absent \/ b.pins \in SUBSET Model)
  BY EndpointsKnown, PinsKnown
<1>3. Seen \in Seens /\ gate \in BOOLEAN BY DEF ResInv, ResTyped, Seen, Seens
<1>4. q \in Puts BY <1>3 DEF Puts
<1>5. gate' \in BOOLEAN /\ (gate = TRUE /\ quiet' = "clean" => gate' = TRUE)
  BY <1>1, <1>3 DEF Rearms
<1>6. last' \in Model \cup {Absent} BY <1>1 DEF Forget, ResInv, ResTyped
<1>7. pins' \in SUBSET Model BY <1>1, <1>2 DEF ResInv, ResTyped
<1>8. put' \in Puts \cup {NoPut} BY <1>1, <1>4
<1>9. ResTyped' BY <1>1, <1>2, <1>5, <1>6, <1>7, <1>8 DEF ResInv, ResTyped
<1>10. Serving'
  <2>1. CASE stays
    <3>1. put'.pc = "rest" BY <1>1, <2>1 DEF NoPut
    <3> QED BY <1>1, <2>1, <3>1 DEF ResInv, Serving
  <2>2. CASE ~stays
    <3>1. /\ put'.pc = "switch" /\ put'.seen.imported = imported /\ put'.seen.ep = ep
          /\ put'.body.ep = b.ep
      BY <1>1, <2>2 DEF Seen
    <3> QED BY <1>1, <3>1 DEF ResInv, Serving
  <2> QED BY <2>1, <2>2
<1>11. PinsAsAsked' BY <1>1 DEF ResInv, PinsAsAsked
<1>12. Stands' /\ ResStep BY <1>1, <1>5 DEF ResInv, Stands, ResStep, NoLoadUnderWay
<1> QED BY <1>9, <1>10, <1>11, <1>12 DEF ResInv

(* The switch of the listener, done or rolled back.                        *)
LEMMA SwitchKeeps == ASSUME ResInv, Switched \/ SwitchFails PROVE ResInv' /\ ResStep
<1>1. put \in Puts /\ put.pc = "switch" /\ put' = NoPut /\ put'.pc = "rest"
  BY DEF Switched, SwitchFails, Switching, NoPut, ResInv, ResTyped
<1>2. /\ put.body \in Body /\ put.seen.ep \in Endpoint /\ put.seen.pins \in SUBSET Model
      /\ put.seen.imported \in BOOLEAN /\ put.rearmed \in BOOLEAN
      /\ put.body.ep \in Endpoint
  BY <1>1, EndpointsKnown DEF Puts, Seens
<1>3. CASE Switched
  <2>1. last' \in Model \cup {Absent} BY <1>3 DEF Switched, Forget, ResInv, ResTyped
  <2>2. ResTyped'
    BY <1>1, <1>2, <1>3, <2>1 DEF Switched, Launch, config, ghosts, ResInv, ResTyped
  <2>3. Serving' BY <1>1, <1>3 DEF Switched, Launch, config, ghosts, ResInv, Serving
  <2>4. PinsAsAsked' /\ Stands' /\ ResStep
    BY <1>3 DEF Switched, config, ghosts, ResInv, PinsAsAsked, Stands, ResStep, NoLoadUnderWay
  <2> QED BY <2>2, <2>3, <2>4 DEF ResInv
<1>4. CASE SwitchFails
  <2>1. /\ ep' = put.seen.ep /\ tuned' = tuned /\ imported' = put.seen.imported
        /\ gate' = (gate \/ put.rearmed) /\ server' \in {server, Absent}
        /\ pins' = (IF put.body.pins = Absent THEN pins ELSE put.seen.pins)
        /\ asked' = (IF put.body.pins = Absent THEN asked ELSE put.seen.pins)
        /\ UNCHANGED <<last, resident, patch, user, api, stop, pre, late, quiet>>
    BY <1>4 DEF SwitchFails, RolledBack
  <2>2. ResTyped' BY <1>1, <1>2, <2>1 DEF ResInv, ResTyped
  <2>3. Serving' BY <1>1, <2>1 DEF ResInv, Serving
  <2>4. PinsAsAsked' /\ Stands' /\ ResStep
    BY <1>2, <2>1 DEF ResInv, ResTyped, PinsAsAsked, Stands, ResStep, NoLoadUnderWay
  <2> QED BY <2>2, <2>3, <2>4 DEF ResInv
<1> QED BY <1>3, <1>4

(* Presets and imports beside it.                                          *)
LEMMA BesideKeeps ==
  ASSUME ResInv, Preset \/ \E e \in Endpoint : ImportEndpoint(e)
  PROVE  ResInv' /\ ResStep
<1>1. CASE Preset
  BY <1>1 DEF Preset, database, locks, ghosts, ResInv, ResTyped, Serving, PinsAsAsked, Stands,
              ResStep, NoLoadUnderWay
<1>2. CASE \E e \in Endpoint : ImportEndpoint(e)
  BY <1>2 DEF ImportEndpoint, database, locks, ResInv, ResTyped, Serving, PinsAsAsked, Stands,
              ResStep, NoLoadUnderWay
<1> QED BY <1>1, <1>2

(* Loads the user asks for.                                                *)
LEMMA UserKeeps ==
  ASSUME ResInv, (\E m \in Model : UserAsks(m)) \/ UserLoads \/ UserLoaded
  PROVE  ResInv' /\ ResStep
<1>1. user \in Asks /\ (user.pc # "rest" => user.m \in Model) BY DEF ResInv, ResTyped
<1>2. user' \in Asks /\ (user'.pc # "rest" => user'.m \in Model)
  <2>1. CASE \E m \in Model : UserAsks(m) BY <2>1 DEF UserAsks, Asks
  <2>2. CASE UserLoads BY <1>1, <2>2 DEF UserLoads, Asks
  <2>3. CASE UserLoaded BY <2>3 DEF UserLoaded, AtRest, Asks
  <2> QED BY <2>1, <2>2, <2>3
<1>3. /\ UNCHANGED <<config, server, patch, put, api, pre, late, imported, asked>>
      /\ \/ UNCHANGED <<last, gate, resident>> /\ (quiet' = quiet \/ quiet' = "no")
         \/ /\ user.pc = "load" /\ last' = user.m /\ resident' = resident \cup {user.m}
            /\ gate' = FALSE /\ quiet' = quiet
  BY DEF UserAsks, UserLoads, UserLoaded, Loaded, database, ghosts
<1>4. quiet' = "clean" => user.pc = "rest" /\ user'.pc = "rest" /\ quiet = "clean"
  <2>1. quiet' = "clean" => quiet = "clean" BY <1>3
  <2>2. quiet' = "clean" => ~(\E m \in Model : UserAsks(m)) BY DEF UserAsks
  <2>3. UserLoads \/ UserLoaded => user.pc # "rest" BY DEF UserLoads, UserLoaded
  <2>4. quiet = "clean" => user.pc = "rest" BY DEF ResInv, Stands, NoLoadUnderWay
  <2> QED BY <2>1, <2>2, <2>3, <2>4
<1>5. ResTyped' BY <1>1, <1>2, <1>3 DEF config, ResInv, ResTyped
<1>6. Serving' /\ PinsAsAsked' BY <1>3 DEF config, ResInv, Serving, PinsAsAsked
<1>7. Stands' BY <1>3, <1>4 DEF ResInv, Stands, NoLoadUnderWay
<1>8. ResStep BY <1>3, <1>4 DEF config, ResStep
<1> QED BY <1>5, <1>6, <1>7, <1>8 DEF ResInv

(* Loads a request asks for.                                               *)
LEMMA ApiKeeps ==
  ASSUME ResInv, (\E m \in Model : ApiAsks(m)) \/ ApiLocks \/ ApiLoads \/ ApiLoaded
  PROVE  ResInv' /\ ResStep
<1>1. api \in Asks /\ (api.pc # "rest" => api.m \in Model) BY DEF ResInv, ResTyped
<1>2. api' \in Asks /\ (api'.pc # "rest" => api'.m \in Model)
  <2>1. CASE \E m \in Model : ApiAsks(m) BY <2>1 DEF ApiAsks, Asks
  <2>2. CASE ApiLocks BY <1>1, <2>2 DEF ApiLocks, AtRest, Asks
  <2>3. CASE ApiLoads BY <1>1, <2>3 DEF ApiLoads, Asks
  <2>4. CASE ApiLoaded BY <2>4 DEF ApiLoaded, AtRest, Asks
  <2> QED BY <2>1, <2>2, <2>3, <2>4
<1>3. /\ UNCHANGED <<config, server, patch, put, user, pre, ghosts>>
      /\ \/ UNCHANGED <<last, gate, resident>>
         \/ /\ api.pc = "load" /\ last' = api.m /\ resident' = resident \cup {api.m}
            /\ gate' = FALSE
  BY DEF ApiAsks, ApiLocks, ApiLoads, ApiLoaded, Loaded, database
<1>4. quiet # "clean"
  <2>1. (\E m \in Model : ApiAsks(m)) => gate # TRUE BY DEF ApiAsks, MayAutoload
  <2>2. ApiLocks \/ ApiLoads \/ ApiLoaded => api.pc # "rest" BY DEF ApiLocks, ApiLoads, ApiLoaded
  <2> QED BY <2>1, <2>2 DEF ResInv, Stands, NoLoadUnderWay
<1>5. ResTyped' BY <1>1, <1>2, <1>3 DEF config, ghosts, ResInv, ResTyped
<1>6. Serving' /\ PinsAsAsked' BY <1>3 DEF config, ghosts, ResInv, Serving, PinsAsAsked
<1>7. Stands' /\ ResStep BY <1>3, <1>4 DEF config, ghosts, ResInv, Stands, ResStep
<1> QED BY <1>5, <1>6, <1>7 DEF ResInv

(* Unloads.                                                                *)
LEMMA StopKeeps ==
  ASSUME ResInv, StopAsks \/ StopLocks \/ StopRefused \/ Stopped \/ \E m \in Model : UnloadOne(m)
  PROVE  ResInv' /\ ResStep
<1>1. CASE StopAsks \/ StopLocks \/ StopRefused
  BY <1>1 DEF StopAsks, StopLocks, StopRefused, config, database, locks, ghosts,
     ResInv, ResTyped, Serving, PinsAsAsked, Stands, ResStep, NoLoadUnderWay
<1>2. CASE Stopped
  BY <1>2 DEF Stopped, config, ResInv, ResTyped, Serving, PinsAsAsked, Stands, ResStep, NoLoadUnderWay
<1>3. CASE \E m \in Model : UnloadOne(m)
  BY <1>3 DEF UnloadOne, config, ghosts, locks,
     ResInv, ResTyped, Serving, PinsAsAsked, Stands, ResStep, NoLoadUnderWay
<1> QED BY <1>1, <1>2, <1>3

(* The preload and its retries.                                            *)
LEMMA PreKeeps ==
  ASSUME ResInv,
         \/ PreLocks \/ PrePassed \/ PreWakes
         \/ \E m \in Model : PreDrops(m) \/ PreLoads(m)
         \/ \E ok, again \in BOOLEAN : PreLoaded(ok, again)
  PROVE  ResInv' /\ ResStep
<1>1. pre \in Pres /\ (pre.pc \in {"off", "lock", "sleep"} => pre.now = Absent)
  BY DEF ResInv, ResTyped, Stands
<1>2. /\ pre' \in Pres /\ (pre'.pc \in {"off", "lock", "sleep"} => pre'.now = Absent)
      /\ gate = TRUE /\ pre.pc \in {"off", "sleep"} => pre'.pc \in {"off", "sleep"}
  <2>1. CASE PreLocks BY <1>1, <2>1 DEF PreLocks, Pres
  <2>2. CASE PrePassed
    <3> DEFINE next == [Off EXCEPT !.pc = "sleep", !.failed = pre.failed, !.round = pre.round + 1]
    <3>1. pre.round + 1 \in Nat /\ pre.failed \in SUBSET Model BY <1>1 DEF Pres
    <3>2. Off \in Pres /\ Off.pc = "off" /\ Off.now = Absent BY DEF Pres, Off
    <3>3. next \in Pres /\ next.pc = "sleep" /\ next.now = Absent BY <3>1, <3>2 DEF Pres
    <3>4. pre' = Off \/ pre' = next BY <2>2 DEF PrePassed
    <3> QED BY <3>2, <3>3, <3>4
  <2>3. CASE PreWakes BY <1>1, <2>3 DEF PreWakes, Pres, Off
  <2>4. CASE \E m \in Model : PreDrops(m) BY <1>1, <2>4 DEF PreDrops, Pres
  <2>5. CASE \E m \in Model : PreLoads(m)
    <3>1. PICK m \in Model : pre' = [pre EXCEPT !.now = m, !.todo = @ \ {m}]
                            /\ pre.pc \in {"pass", "retry"}
      BY <2>5 DEF PreLoads
    <3>2. pre.todo \ {m} \in SUBSET Model BY <1>1 DEF Pres
    <3>3. pre'.pc = pre.pc /\ pre' \in Pres BY <1>1, <3>1, <3>2 DEF Pres
    <3> QED BY <3>1, <3>3
  <2>6. CASE \E ok, again \in BOOLEAN : PreLoaded(ok, again)
    <3>1. PICK again \in BOOLEAN :
            /\ pre.now # Absent
            /\ pre' = [pre EXCEPT !.now = Absent, !.failed = IF again THEN @ \cup {pre.now} ELSE @]
      BY <2>6 DEF PreLoaded
    <3> QED BY <1>1, <3>1 DEF Pres
  <2> QED BY <2>1, <2>2, <2>3, <2>4, <2>5, <2>6
<1>3. /\ UNCHANGED <<config, database, server, patch, put, user, api, ghosts>>
      /\ resident' = resident \/ (pre.now # Absent /\ resident' = resident \cup {pre.now})
  BY DEF PreLocks, PrePassed, PreWakes, PreDrops, PreLoads, PreLoaded
<1>4. resident' \in SUBSET Model BY <1>1, <1>3 DEF Pres, ResInv, ResTyped
<1>5. ResTyped' BY <1>2, <1>3, <1>4 DEF config, database, ghosts, ResInv, ResTyped
<1>6. Serving' /\ PinsAsAsked' BY <1>3 DEF config, ghosts, ResInv, Serving, PinsAsAsked
<1>7. Stands' BY <1>2, <1>3 DEF ResInv, Stands, NoLoadUnderWay, database, ghosts
<1>8. ResStep BY <1>1, <1>3 DEF ResInv, Stands, NoLoadUnderWay, config, ghosts, ResStep
<1> QED BY <1>5, <1>6, <1>7, <1>8 DEF ResInv

(* The coordinator starts again on what is stored.                         *)
LEMMA ResRestartKeeps == ASSUME ResInv, ResRestart PROVE ResInv' /\ ResStep
<1>1. /\ pre' = Preload /\ put' = NoPut /\ user' = AtRest /\ api' = AtRest
      /\ server' \in {ep, Absent} /\ imported' = FALSE /\ resident' = {}
      /\ UNCHANGED <<config, database, asked, late, quiet>>
  BY DEF ResRestart
<1>2. pre' \in Pres /\ pre'.now = Absent /\ (gate = TRUE => pre'.pc = "off")
  BY <1>1 DEF Preload, Off, Pres, ResInv, ResTyped
<1>3. patch' \in Patches0 BY DEF ResRestart, ResInv, ResTyped, Patches0
<1>4. put'.pc = "rest" /\ user' \in Asks /\ user'.pc = "rest" /\ api' \in Asks /\ api'.pc = "rest"
  BY <1>1 DEF NoPut, AtRest, Asks
<1>5. ResTyped' BY <1>1, <1>2, <1>3, <1>4 DEF config, database, ResInv, ResTyped
<1>6. Serving' /\ PinsAsAsked' BY <1>1, <1>4 DEF config, ResInv, Serving, PinsAsAsked
<1>7. Stands' BY <1>1, <1>2, <1>4 DEF ResInv, Stands, NoLoadUnderWay, database
<1>8. ResStep BY <1>1 DEF config, ResStep
<1> QED BY <1>5, <1>6, <1>7, <1>8 DEF ResInv

(* Every step of this component, or of another one.                        *)
LEMMA ResNextHolds == ResInv /\ [ResNext]_resVars => ResInv' /\ (ResStep \/ UNCHANGED resVars)
<1> SUFFICES ASSUME ResInv, [ResNext]_resVars PROVE ResInv' /\ (ResStep \/ UNCHANGED resVars)
  OBVIOUS
<1>1. CASE UNCHANGED resVars
  BY <1>1 DEF resVars, config, database, ghosts, ResInv, ResTyped, Serving, PinsAsAsked, Stands,
              NoLoadUnderWay
<1>2. CASE \E ok, again \in BOOLEAN : PreLoaded(ok, again) BY <1>2, PreKeeps
<1>3. TRUE \in BOOLEAN /\ FALSE \in BOOLEAN OBVIOUS
<1> QED BY <1>1, <1>2, <1>3, PatchKeeps, PutKeeps, SwitchKeeps, BesideKeeps, UserKeeps, ApiKeeps,
           StopKeeps, PreKeeps, ResRestartKeeps DEF ResNext
(* A step of the services is one of each of them, or leaves it alone.      *)
LEMMA OneServiceSteps ==
  [Next]_vars => /\ [ProcNext]_procVars /\ [GateNext]_gateVars /\ [LifeNext]_lifeVars
                 /\ [FileNext]_fileVars /\ [RagNext]_ragVars /\ [ResNext]_resVars
BY DEF Next, vars

(* The invariant of the residents, on every behaviour.                     *)
LEMMA ResInvariant == Spec => []ResInv /\ [][ResNext]_resVars
<1>1. Init => ResInv BY ResInitHolds DEF Init
<1>2. ResInv /\ [Next]_vars => ResInv' BY ResNextHolds, OneServiceSteps
<1>3. [Next]_vars => [ResNext]_resVars BY OneServiceSteps
<1> QED BY <1>1, <1>2, <1>3, PTL DEF Spec

(* Whatever settings writes, patches, imports and restarts do together,    *)
(* outside a write the listener serves the stored endpoint, or nothing,    *)
(* and the pins are those the writers asked for unless a copy was stale.   *)
THEOREM ResidentsServed == Spec => []ResidentsServe
<1>1. ResInv => ResidentsServe BY DEF ResInv, Serving, ResidentsServe, ListenerServes
<1> QED BY <1>1, ResInvariant, PTL

(* A rollback leaves the settings written beside it, and what the user     *)
(* unloaded stays unloaded, over requests, retries and restarts.           *)
THEOREM ResidentsKept == Spec => ResidentsKeep
<1>1. ResInv /\ [ResNext]_resVars =>
        /\ [tuned' # tuned => Preset]_resVars
        /\ [quiet = "clean" /\ quiet' = "clean" => resident' \subseteq resident]_resVars
  BY ResNextHolds DEF ResStep
<1> QED BY <1>1, ResInvariant, PTL DEF ResidentsKeep, OthersKept, StopSurvives
-----------------------------------------------------------------------------
(* The gate of a supervisor without the pool.                              *)
GateInv == GateTypeOK /\ GateNotStranded

(* A request without its place in the queue.                               *)
LEMMA DequeuedIsRest ==
  ASSUME queue \in Seq(Caller), IsInjective(queue), NEW r \in ToSet(queue)
  PROVE  /\ Dequeued(r) \in Seq(Caller)
         /\ ToSet(Dequeued(r)) = ToSet(queue) \ {r}
         /\ IsInjective(Dequeued(r))
<1> DEFINE k == CHOOSE k \in DOMAIN queue : queue[k] = r
           n == Len(queue)
           rest == SubSeq(queue, 1, k - 1) \o SubSeq(queue, k + 1, n)
<1>1. n \in Nat /\ DOMAIN queue = 1..n /\ \A i \in 1..n : queue[i] \in Caller
  BY LenProperties, ElementOfSeq
<1>2. \E i \in DOMAIN queue : queue[i] = r BY DEF ToSet
<1>3. k \in 1..n /\ queue[k] = r BY <1>1, <1>2
<1>4. Dequeued(r) = rest BY <1>1 DEF Dequeued, RemoveAt
<1> HIDE DEF k
<1> DEFINE a == SubSeq(queue, 1, k - 1)
           b == SubSeq(queue, k + 1, n)
<1>5. a \in Seq(Caller) /\ Len(a) = k - 1 /\ \A i \in 1..(k - 1) : a[i] = queue[i]
  <2>1. k - 1 \in Int /\ 1 \in Int /\ \A i \in 1..(k - 1) : queue[i] \in Caller BY <1>1, <1>3
  <2>2. /\ a \in Seq(Caller) /\ Len(a) = (IF 1 <= k - 1 THEN (k - 1) - 1 + 1 ELSE 0)
        /\ \A i \in 1 .. (k - 1) - 1 + 1 : a[i] = queue[1 + i - 1]
    BY <2>1, SubSeqProperties
  <2>3. /\ (k - 1) - 1 + 1 = k - 1 /\ \A i \in 1..(k - 1) : 1 + i - 1 = i
        /\ \A l : l = (IF 1 <= k - 1 THEN (k - 1) - 1 + 1 ELSE 0) => l = k - 1
    <3>1. k \in Nat /\ 1 <= k BY <1>1, <1>3
    <3> QED BY <3>1
  <2> HIDE DEF a
  <2> QED BY <2>2, <2>3, Zenon
<1>6. b \in Seq(Caller) /\ Len(b) = n - k /\ \A i \in 1..(n - k) : b[i] = queue[k + i]
  <2>1. k + 1 \in Int /\ n \in Int /\ \A i \in (k + 1)..n : queue[i] \in Caller BY <1>1, <1>3
  <2>2. /\ b \in Seq(Caller) /\ Len(b) = (IF k + 1 <= n THEN n - (k + 1) + 1 ELSE 0)
        /\ \A i \in 1 .. n - (k + 1) + 1 : b[i] = queue[(k + 1) + i - 1]
    BY <2>1, SubSeqProperties
  <2>3. \A l : l = (IF k + 1 <= n THEN n - (k + 1) + 1 ELSE 0) => l = n - k
    <3>1. n \in Nat /\ k \in Nat /\ k <= n BY <1>1, <1>3
    <3>2. n - (k + 1) + 1 = n - k BY <3>1
    <3>3. ASSUME ~(k + 1 <= n) PROVE 0 = n - k BY <3>1, <3>3
    <3> QED BY <3>2, <3>3, Zenon
  <2> HIDE DEF b
  <2>4. Len(b) = n - k BY <2>2, <2>3, Zenon
  <2>5. ASSUME NEW i \in 1..(n - k) PROVE b[i] = queue[k + i]
    <3>1. i \in 1 .. n - (k + 1) + 1 /\ (k + 1) + i - 1 = k + i BY <1>1, <1>3
    <3>2. b[i] = queue[(k + 1) + i - 1] BY <2>2, <3>1
    <3> QED BY <3>1, <3>2
  <2> QED BY <2>2, <2>4, <2>5
<1>7. /\ rest \in Seq(Caller) /\ Len(rest) = n - 1
      /\ \A i \in 1..(n - 1) : rest[i] = IF i <= k - 1 THEN queue[i] ELSE queue[i + 1]
  <2>1. rest = a \o b OBVIOUS
  <2> HIDE DEF a, b, rest
  <2>2. /\ rest \in Seq(Caller) /\ Len(rest) = Len(a) + Len(b)
        /\ \A i \in 1 .. Len(a) + Len(b) : rest[i] = IF i <= Len(a) THEN a[i] ELSE b[i - Len(a)]
    BY <1>5, <1>6, <2>1, ConcatProperties
  <2>3. ASSUME NEW i \in 1..(n - 1)
        PROVE  rest[i] = IF i <= k - 1 THEN queue[i] ELSE queue[i + 1]
    <3> DEFINE la == Len(a)
    <3>0. /\ la = k - 1 /\ i \in 1 .. Len(a) + Len(b)
          /\ rest[i] = IF i <= la THEN a[i] ELSE b[i - la]
      <4>1. la = k - 1 /\ Len(b) = n - k BY <1>5, <1>6
      <4>2. i \in 1 .. Len(a) + Len(b) BY <1>1, <1>3, <4>1
      <4> QED BY <2>2, <4>1, <4>2
    <3> HIDE DEF la
    <3>1. CASE i <= k - 1 BY <1>1, <1>3, <1>5, <3>0, <3>1
    <3>2. CASE ~(i <= k - 1)
      <4>1. i - (k - 1) \in 1..(n - k) /\ k + (i - (k - 1)) = i + 1 BY <1>1, <1>3, <3>2
      <4>2. rest[i] = b[i - (k - 1)] BY <3>0, <3>2
      <4>3. b[i - (k - 1)] = queue[k + (i - (k - 1))] BY <1>6, <4>1
      <4> QED BY <3>2, <4>1, <4>2, <4>3
    <3> QED BY <3>1, <3>2
  <2>4. Len(a) + Len(b) = n - 1 BY <1>1, <1>3, <1>5, <1>6
  <2> QED BY <2>2, <2>3, <2>4
<1> HIDE DEF a, b
<1>8. DOMAIN rest = 1..(n - 1) BY <1>7, LenProperties
<1> HIDE DEF rest
<1>9. IsInjective(rest)
  <2> SUFFICES ASSUME NEW i \in 1..(n - 1), NEW j \in 1..(n - 1), rest[i] = rest[j] PROVE i = j
    BY <1>8 DEF IsInjective
  <2>1. \A x, y \in 1..n : queue[x] = queue[y] => x = y BY <1>1 DEF IsInjective
  <2> QED BY <1>1, <1>3, <1>7, <2>1
<1>10. ToSet(rest) \subseteq ToSet(queue) \ {r}
  <2> SUFFICES ASSUME NEW i \in 1..(n - 1) PROVE rest[i] \in ToSet(queue) /\ rest[i] # r
    BY <1>8 DEF ToSet
  <2>1. \A x, y \in 1..n : queue[x] = queue[y] => x = y BY <1>1 DEF IsInjective
  <2>2. PICK j \in 1..n : j # k /\ rest[i] = queue[j]
    <3>1. CASE i <= k - 1 BY <1>1, <1>3, <1>7, <3>1
    <3>2. CASE ~(i <= k - 1) BY <1>1, <1>3, <1>7, <3>2
    <3> QED BY <3>1, <3>2
  <2> QED BY <1>1, <1>3, <2>1, <2>2 DEF ToSet
<1>11. ToSet(queue) \ {r} \subseteq ToSet(rest)
  <2> SUFFICES ASSUME NEW i \in 1..n, queue[i] # r PROVE queue[i] \in ToSet(rest)
    BY <1>1 DEF ToSet
  <2>1. CASE i < k BY <1>1, <1>3, <1>7, <1>8, <2>1 DEF ToSet
  <2>2. CASE i > k
    <3>1. i - 1 \in 1..(n - 1) /\ ~(i - 1 <= k - 1) /\ (i - 1) + 1 = i BY <1>1, <1>3, <2>2
    <3>2. rest[i - 1] = queue[i] BY <1>7, <3>1
    <3> QED BY <1>8, <3>1, <3>2 DEF ToSet
  <2> QED BY <1>1, <1>3, <2>1, <2>2
<1> QED BY <1>4, <1>7, <1>9, <1>10, <1>11 DEF rest

(* A request at the end of the queue.                                      *)
LEMMA QueuedIsLast ==
  ASSUME queue \in Seq(Caller), IsInjective(queue), NEW r \in Caller \ ToSet(queue)
  PROVE  /\ Append(queue, r) \in Seq(Caller)
         /\ ToSet(Append(queue, r)) = ToSet(queue) \cup {r}
         /\ IsInjective(Append(queue, r))
<1> DEFINE n == Len(queue)
           t == Append(queue, r)
<1>1. /\ n \in Nat /\ DOMAIN queue = 1..n
      /\ t \in Seq(Caller) /\ Len(t) = n + 1 /\ t[n + 1] = r
      /\ \A i \in 1..n : t[i] = queue[i]
  BY LenProperties, AppendProperties
<1>2. DOMAIN t = 1..(n + 1) BY <1>1, LenProperties
<1> HIDE DEF t
<1>3. \A i \in 1..n : queue[i] # r /\ t[i] # r BY <1>1 DEF ToSet
<1>4. IsInjective(t)
  <2>1. \A x, y \in 1..n : queue[x] = queue[y] => x = y BY <1>1 DEF IsInjective
  <2> SUFFICES ASSUME NEW i \in 1..(n + 1), NEW j \in 1..(n + 1), t[i] = t[j] PROVE i = j
    BY <1>2 DEF IsInjective
  <2> QED BY <1>1, <1>3, <2>1
<1>5. ToSet(t) = ToSet(queue) \cup {r}
  <2>1. \A i \in 1..(n + 1) : t[i] \in ToSet(queue) \cup {r}
    BY <1>1 DEF ToSet
  <2>2. \A i \in 1..n : queue[i] \in ToSet(t) BY <1>1, <1>2 DEF ToSet
  <2>3. r \in ToSet(t) BY <1>1, <1>2 DEF ToSet
  <2>4. ToSet(t) \subseteq ToSet(queue) \cup {r} BY <1>2, <2>1 DEF ToSet
  <2>5. ToSet(queue) \subseteq ToSet(t) BY <1>1, <2>2 DEF ToSet
  <2> QED BY <2>3, <2>4, <2>5
<1> QED BY <1>1, <1>4, <1>5 DEF t
(* The queue is the requests that wait, each once.                         *)
Queued(q, w) == q \in Seq(Caller) /\ ToSet(q) = {r \in Caller : w[r] = "wait"} /\ IsInjective(q)
(* The slot is free, or has an owner that will return it.                  *)
Owned(l, o, w) ==
  l \in BOOLEAN /\ o \in Caller \cup {None} /\ l = (o # None)
  /\ (l => w[o] \in {"wait", "helpers", "run"})
Places == {"new", "wait", "helpers", "run", "over"}

(* The invariant of the gate in its three parts.                           *)
LEMMA GateParts ==
  GateInv <=> at \in [Caller -> Places] /\ Queued(queue, at) /\ Owned(locked, owner, at)
BY DEF GateInv, GateTypeOK, GateNotStranded, Queued, Owned, Places

(* A request that does not wait, before or after, leaves the queue true.   *)
LEMMA QueueStays ==
  ASSUME at \in [Caller -> Places], Queued(queue, at), NEW r \in Caller, NEW p \in Places,
         at[r] # "wait", p # "wait", At(r, p), UNCHANGED queue
  PROVE  at' \in [Caller -> Places] /\ Queued(queue', at')
<1>1. at' \in [Caller -> Places] BY DEF At
<1>2. \A x \in Caller : (at'[x] = "wait") <=> (at[x] = "wait") BY DEF At
<1> QED BY <1>1, <1>2 DEF Queued

(* One that waited leaves it.                                              *)
LEMMA QueueLeaves ==
  ASSUME at \in [Caller -> Places], Queued(queue, at), NEW r \in Caller, NEW p \in Places,
         at[r] = "wait", p # "wait", At(r, p), queue' = Dequeued(r)
  PROVE  at' \in [Caller -> Places] /\ Queued(queue', at')
<1>1. at' \in [Caller -> Places] BY DEF At
<1>2. r \in ToSet(queue) BY DEF Queued
<1>3. /\ queue' \in Seq(Caller) /\ ToSet(queue') = ToSet(queue) \ {r} /\ IsInjective(queue')
  BY <1>2, DequeuedIsRest DEF Queued
<1>4. \A x \in Caller : (at'[x] = "wait") <=> (at[x] = "wait" /\ x # r) BY DEF At
<1> QED BY <1>1, <1>3, <1>4 DEF Queued

(* The slot of somebody else is not touched by a request that leaves.      *)
LEMMA SlotReturned ==
  ASSUME at \in [Caller -> Places], Owned(locked, owner, at), NEW r \in Caller, NEW p \in Places,
         At(r, p), Released(r)
  PROVE  Owned(locked', owner', at')
<1>1. \A x \in Caller : x # r => at'[x] = at[x] BY DEF At
<1> QED BY <1>1, NoneIsNobody DEF Released, Owned

(* The gate starts with nobody in it.                                      *)
LEMMA GateInitHolds == GateInit => GateInv
<1> SUFFICES ASSUME GateInit PROVE GateInv
  OBVIOUS
<1>1. ToSet(queue) = {} /\ queue \in Seq(Caller) /\ IsInjective(queue)
  BY EmptySeq DEF GateInit, ToSet, IsInjective
<1> QED BY <1>1, GateParts DEF GateInit, Queued, Owned, Places

(* Every step of the gate.                                                 *)
LEMMA GateNextHolds == GateInv /\ [GateNext]_gateVars => GateInv'
<1> SUFFICES ASSUME GateInv, [GateNext]_gateVars
             PROVE  at' \in [Caller -> Places] /\ Queued(queue', at') /\ Owned(locked', owner', at')
  BY DEF GateInv, GateTypeOK, GateNotStranded, Queued, Owned, Places
<1> USE NoneIsNobody
<1>1. at \in [Caller -> Places] /\ Queued(queue, at) /\ Owned(locked, owner, at) BY GateParts
<1>2. CASE UNCHANGED gateVars BY <1>1, <1>2 DEF gateVars
<1>3. CASE Recover BY <1>1, <1>3 DEF Recover, Owned
<1>4. ASSUME NEW r \in Caller, Arrive(r)
      PROVE  at' \in [Caller -> Places] /\ Queued(queue', at') /\ Owned(locked', owner', at')
  <2>1. LockedNow \in BOOLEAN /\ OwnerNow \in Caller \cup {None} /\ (LockedNow <=> OwnerNow # None)
        /\ (LockedNow => OwnerNow = owner /\ locked) /\ at[r] = "new"
    BY <1>1, <1>4 DEF LockedNow, OwnerNow, Owned, Orphaned, Arrive
  <2>2. CASE At(r, "run") /\ locked' = TRUE /\ owner' = r /\ UNCHANGED queue
    <3>1. at' \in [Caller -> Places] /\ Queued(queue', at')
      BY <1>1, <2>1, <2>2, QueueStays DEF Places
    <3> QED BY <1>1, <2>2, <3>1 DEF Owned, At
  <2>3. CASE locked' = LockedNow /\ owner' = OwnerNow /\ At(r, "over") /\ UNCHANGED queue
    <3>1. at' \in [Caller -> Places] /\ Queued(queue', at')
      BY <1>1, <2>1, <2>3, QueueStays DEF Places
    <3> QED BY <1>1, <2>1, <2>3, <3>1 DEF Owned, At
  <2>4. CASE locked' = LockedNow /\ owner' = OwnerNow /\ At(r, "wait") /\ queue' = Append(queue, r)
    <3>1. r \notin ToSet(queue) BY <1>1, <2>1 DEF Queued
    <3>2. /\ queue' \in Seq(Caller) /\ ToSet(queue') = ToSet(queue) \cup {r} /\ IsInjective(queue')
      BY <1>1, <2>4, <3>1, QueuedIsLast DEF Queued
    <3>3. at' \in [Caller -> Places] BY <1>1, <2>4 DEF At, Places
    <3>4. \A x \in Caller : (at'[x] = "wait") <=> (at[x] = "wait" \/ x = r) BY <1>1, <2>4 DEF At
    <3>5. Queued(queue', at') BY <1>1, <3>2, <3>3, <3>4 DEF Queued
    <3> QED BY <1>1, <2>1, <2>4, <3>3, <3>5 DEF Owned, At
  <2> QED BY <1>4, <2>2, <2>3, <2>4 DEF Arrive
<1>5. ASSUME NEW r \in Caller, Acquired(r)
      PROVE  at' \in [Caller -> Places] /\ Queued(queue', at') /\ Owned(locked', owner', at')
  <2>1. DOMAIN queue = 1..Len(queue) /\ Len(queue) \in Nat \ {0}
    BY <1>1, <1>5, LenProperties, EmptySeq DEF Acquired, Queued
  <2>4. r = Head(queue) BY <1>5 DEF Acquired
  <2>5. Head(queue) = queue[1] OBVIOUS
  <2>2. r = queue[1] /\ 1 \in DOMAIN queue BY <2>1, <2>4, <2>5
  <2>3. at[r] = "wait" BY <1>1, <2>2 DEF Queued, ToSet
  <2> QED BY <1>1, <1>5, <2>3 DEF Acquired, Owned
<1>6. ASSUME NEW r \in Caller, Take(r)
      PROVE  at' \in [Caller -> Places] /\ Queued(queue', at') /\ Owned(locked', owner', at')
  <2>1. at' \in [Caller -> Places] /\ Queued(queue', at')
    BY <1>1, <1>6, QueueLeaves DEF Take, Places
  <2> QED BY <1>1, <1>6, <2>1 DEF Take, Owned, At
<1>7. ASSUME NEW r \in Caller, Engage(r)
      PROVE  at' \in [Caller -> Places] /\ Queued(queue', at') /\ Owned(locked', owner', at')
  <2>1. at' \in [Caller -> Places] /\ Queued(queue', at')
    BY <1>1, <1>7, QueueStays DEF Engage, Places
  <2> QED BY <1>1, <1>7, <2>1 DEF Engage, Owned, At
<1>8. ASSUME NEW r \in Caller, NotLoaded(r) \/ GiveUp(r) \/ Done(r)
      PROVE  at' \in [Caller -> Places] /\ Queued(queue', at') /\ Owned(locked', owner', at')
  <2>1. At(r, "over") /\ Released(r) BY <1>8 DEF NotLoaded, GiveUp, Done
  <2>2. \/ (at[r] = "wait" /\ queue' = Dequeued(r))
        \/ (at[r] # "wait" /\ UNCHANGED queue)
    BY <1>8 DEF NotLoaded, GiveUp, Done
  <2>3. at' \in [Caller -> Places] /\ Queued(queue', at')
    BY <1>1, <2>1, <2>2, QueueStays, QueueLeaves DEF Places
  <2>4. Owned(locked', owner', at') BY <1>1, <2>1, SlotReturned DEF Places
  <2> QED BY <2>3, <2>4
<1> QED BY <1>2, <1>3, <1>4, <1>5, <1>6, <1>7, <1>8 DEF GateNext

(* The invariant of the gate, on every behaviour.                          *)
LEMMA GateInvariant == Spec => []GateInv
<1>1. Init => GateInv BY GateInitHolds DEF Init
<1>2. GateInv /\ [Next]_vars => GateInv' BY GateNextHolds, OneServiceSteps
<1> QED BY <1>1, <1>2, PTL DEF Spec
-----------------------------------------------------------------------------
(* The supervisor of one process.  What a task keeps, and what its place   *)
(* says of it.                                                             *)
Pcs == {"rest", "lock", "unload", "spawn", "health", "ready", "halt", "stream", "loaded",
        "failed", "refused"}
Thens == {"none", "start", "fresh", "fail", "forget"}
Shapes == [pc : Pcs, m : ProcModel \cup {Nothing}, todo : Seq(Engine), pid : Pid \cup {Nothing},
           then : Thens]
Shaped(t, r) ==
  /\ r \in Shapes
  /\ r.pc \in {"lock", "spawn", "health", "ready"} => r.todo # <<>>
  /\ r.pc = "unload" => t \in Unloader \/ (t \in Loader /\ r.todo # <<>>)
  /\ r.pc = "halt" => r.pid \in Pid /\ (r.then \in Starts => r.todo # <<>>)
  /\ t \in Loader /\ r.pc # "rest" => r.m \in ProcModel
Bounds == [pid : Nat, loads : Nat, deaths : Nat, restarts : Nat, probed : BOOLEAN]
ProcTyped ==
  /\ alive \in SUBSET Pid /\ holds \in [Pid -> ProcModel \cup {Nothing}]
  /\ proc \in Pid \cup {Nothing} /\ socket \in BOOLEAN /\ eng \in Engine \cup {Nothing}
  /\ manifest = proc /\ loaded \in [m : ProcModel, e : Engine] \cup {Nothing}
  /\ lock \in Loader \cup {Nothing} /\ orphans \in SUBSET Pid /\ used \in Bounds
  /\ DOMAIN task = Task
  /\ \A t \in Task : Shaped(t, task[t])

(* Without a probe: only the loader that has the lock starts processes,    *)
(* everybody who stops one stops the supervisor's, and nothing is called   *)
(* loaded from the start of a load to its end.                             *)
Busy == {"unload", "halt", "spawn", "health", "ready"}
Calm(t) ==
  LET r == task[t] IN
  /\ t \in Loader => /\ r.pc \in Busy => lock = t
                     /\ r.pc # "stream" /\ (r.pc = "halt" => r.then \in {"start", "fresh", "fail"})
  /\ t \notin Loader => /\ r.pc \in {"rest", "unload", "stream", "halt"}
                        /\ r.pc = "halt" => r.then = "forget"
  /\ r.pc = "halt" => r.pid = proc \/ (proc = Nothing /\ ~Lives(r.pid))
  /\ r.pc = "spawn" => proc = Nothing
  /\ r.pc = "ready" /\ Lives(r.pid) => proc = r.pid
  /\ r.pc \in {"spawn", "health", "ready"} => loaded = Nothing
  /\ r.pc = "halt" /\ r.then \in {"start", "fail"} => loaded = Nothing
Steady ==
  /\ alive \ orphans \subseteq {proc}
  /\ loaded # Nothing => proc # Nothing /\ holds[proc] = loaded.m
ProcInv == ProcTyped /\ (used.probed \/ (Steady /\ \A t \in Task : Calm(t)))

(* One task is at another place.                                           *)
Changes(t) ==
  /\ DOMAIN task' = Task /\ Shaped(t, task'[t])
  /\ \A u \in Task \ {t} : task'[u] = task[u]

(* What a task's own step does to the tasks.                               *)
LEMMA PutChanges ==
  ASSUME ProcTyped, NEW t \in Task, NEW r, Shaped(t, r), PutTask(t, r)
  PROVE  Changes(t) /\ task'[t] = r
BY DEF ProcTyped, PutTask, Changes

(* A task at rest has the shape of one.                                    *)
LEMMA RestingShape == Resting \in Shapes /\ \A t \in Task : Shaped(t, Resting)
<1>1. <<>> \in Seq(Engine) BY EmptySeq
<1>2. Resting \in Shapes BY <1>1 DEF Resting, Shapes, Pcs, Thens
<1> QED BY <1>2 DEF Resting, Shaped

(* The process is stopped; its task starts another one or is done.         *)
Landed(t, then) ==
  /\ Changes(t) /\ proc' = Nothing /\ manifest' = Nothing /\ eng' = Nothing /\ socket' \in BOOLEAN
  /\ task'[t].pc = IF then \in Starts THEN "spawn" ELSE IF t \in Loader THEN "failed" ELSE "rest"
(* The task waits for its end.                                             *)
Halting(t, then) ==
  /\ Changes(t) /\ UNCHANGED <<proc, socket, eng, manifest>>
  /\ task'[t].pc = "halt" /\ task'[t].pid = proc /\ task'[t].then = then

(* A task that is over, with what it reports.                              *)
LEMMA FinishChanges ==
  ASSUME ProcTyped, NEW t \in Task, NEW p \in {"failed", "refused", "loaded"}, Finish(t, p),
         t \in Loader => task[t].m \in ProcModel
  PROVE  Changes(t) /\ task'[t].pc = (IF t \in Loader THEN p ELSE "rest")
<1>1. Resting \in Shapes /\ Shaped(t, Resting) BY RestingShape
<1>2. CASE t \in Loader
  <2> DEFINE r == [Resting EXCEPT !.pc = p, !.m = task[t].m]
  <2>1. r \in Shapes /\ r.pc = p /\ r.m = task[t].m
    BY <1>1, <1>2 DEF Shapes, Pcs
  <2>2. PutTask(t, r) BY <1>2 DEF Finish
  <2> HIDE DEF r
  <2>3. Shaped(t, r) BY <1>2, <2>1 DEF Shaped
  <2> QED BY <1>2, <2>1, <2>2, <2>3, PutChanges
<1>3. CASE t \notin Loader
  <2>1. PutTask(t, Resting) /\ Resting.pc = "rest" BY <1>3 DEF Finish, Resting
  <2> QED BY <1>1, <1>3, <2>1, PutChanges
<1> QED BY <1>2, <1>3

(* The process is gone: what the task goes on with.                        *)
LEMMA LandLands ==
  ASSUME ProcTyped, NEW t \in Task, NEW then \in Thens, NEW list \in Seq(Engine),
         then \in Starts => list # <<>>, t \in Loader => task[t].m \in ProcModel,
         Land(t, then, list)
  PROVE  Landed(t, then)
<1>1. CASE then \in Starts
  <2> DEFINE r == [task[t] EXCEPT !.pc = "spawn", !.pid = Nothing, !.todo = list]
  <2>1. task[t] \in Shapes BY DEF ProcTyped, Shaped
  <2>2. r \in Shapes /\ r.pc = "spawn" /\ r.todo = list /\ r.m = task[t].m
    BY <2>1 DEF Shapes, Pcs
  <2>3. PutTask(t, r) /\ proc' = Nothing /\ manifest' = Nothing /\ eng' = Nothing /\ socket' = TRUE
    BY <1>1 DEF Land, Spawning
  <2> HIDE DEF r
  <2>4. Shaped(t, r) BY <1>1, <2>2 DEF Shaped
  <2> QED BY <1>1, <2>2, <2>3, <2>4, PutChanges DEF Landed
<1>2. CASE then \notin Starts
  BY <1>2, FinishChanges DEF Land, Gone, Landed
<1> QED BY <1>1, <1>2

(* A task that stops the process waits for its end, or lands at once.      *)
LEMMA StopStops ==
  ASSUME ProcTyped, NEW t \in Task, NEW then \in Thens, NEW list \in Seq(Engine),
         then \in Starts => list # <<>>, t \in Loader => task[t].m \in ProcModel,
         Stop(t, then, list)
  PROVE  IF Running THEN Halting(t, then) ELSE Landed(t, then)
<1>1. CASE Running
  <2> DEFINE r == [task[t] EXCEPT !.pc = "halt", !.pid = proc, !.then = then, !.todo = list]
  <2>1. task[t] \in Shapes BY DEF ProcTyped, Shaped
  <2>2. proc \in Pid BY <1>1 DEF Running, ProcTyped
  <2>3. r \in Shapes /\ r.pc = "halt" /\ r.todo = list /\ r.m = task[t].m /\ r.pid = proc /\ r.then = then
    BY <2>1, <2>2 DEF Shapes, Pcs
  <2>4. PutTask(t, r) /\ UNCHANGED <<proc, socket, eng, manifest>> BY <1>1 DEF Stop
  <2> HIDE DEF r
  <2>5. Shaped(t, r) BY <2>2, <2>3 DEF Shaped
  <2> QED BY <1>1, <2>3, <2>4, <2>5, PutChanges DEF Halting
<1>2. CASE ~Running BY <1>2, LandLands DEF Stop
<1> QED BY <1>1, <1>2

(* A worker of the same engine is taken as it is.                          *)
Taken(t) ==
  /\ Running /\ Changes(t) /\ UNCHANGED <<proc, socket, eng, manifest>>
  /\ task'[t].pc = "ready" /\ task'[t].pid = proc

(* A start takes the process that runs the engine, or stops another first. *)
LEMMA BeginBegins ==
  ASSUME ProcTyped, NEW t \in Task, NEW list \in Seq(Engine), list # <<>>,
         t \in Loader => task[t].m \in ProcModel, Begin(t, list)
  PROVE  Taken(t) \/ IF Running THEN Halting(t, "start") ELSE Landed(t, "start")
<1>1. CASE Running /\ eng = Head(list)
  <2> DEFINE r == [task[t] EXCEPT !.pc = "ready", !.pid = proc, !.todo = list]
  <2>1. task[t] \in Shapes BY DEF ProcTyped, Shaped
  <2>2. proc \in Pid BY <1>1 DEF Running, ProcTyped
  <2>3. r \in Shapes /\ r.pc = "ready" /\ r.todo = list /\ r.m = task[t].m /\ r.pid = proc
    BY <2>1, <2>2 DEF Shapes, Pcs
  <2>4. PutTask(t, r) /\ UNCHANGED <<proc, socket, eng, manifest>> BY <1>1 DEF Begin
  <2> HIDE DEF r
  <2>5. Shaped(t, r) BY <2>3 DEF Shaped
  <2> QED BY <1>1, <2>3, <2>4, <2>5, PutChanges DEF Taken
<1>2. CASE ~(Running /\ eng = Head(list))
  BY <1>2, StopStops DEF Begin, Thens
<1> QED BY <1>1, <1>2

(* What the steps of others leave of a task's calm.                        *)
LEMMA OthersCalm ==
  ASSUME ProcTyped, \A t \in Task : Calm(t), NEW S \in SUBSET Task,
         \A u \in S : task'[u] = task[u] /\ (lock = u => lock' = u),
         alive' \subseteq alive, loaded' \in {loaded, Nothing},
         proc' = proc \/ (proc' = Nothing /\ proc \notin alive)
  PROVE  \A u \in S : Calm(u)'
<1> SUFFICES ASSUME NEW u \in S PROVE Calm(u)'
  OBVIOUS
<1>1. Calm(u) /\ Shaped(u, task[u]) /\ u \in Task BY DEF ProcTyped
<1>2. task'[u] = task[u] /\ (lock = u => lock' = u) OBVIOUS
<1> DEFINE r == task[u]
<1>3. r.pc = "halt" => r.pid = proc' \/ (proc' = Nothing /\ r.pid \notin alive')
  BY <1>1 DEF Calm, Lives
<1>4. r.pc = "ready" /\ r.pid \in alive' => proc' = r.pid
  BY <1>1 DEF Calm, Lives
<1>5. r.pc = "spawn" => proc' = Nothing BY <1>1 DEF Calm
<1> QED BY <1>1, <1>2, <1>3, <1>4, <1>5 DEF Calm, Lives

(* Ends of processes, and models that are forgotten, disturb nobody.       *)
LEMMA StillSteady ==
  ASSUME ProcTyped, Steady, alive' \ orphans' \subseteq alive \ orphans,
         proc' = proc \/ (proc' = Nothing /\ proc \notin alive),
         loaded' = Nothing \/ (loaded' = loaded /\ proc' = proc /\ holds' = holds)
  PROVE  Steady'
BY DEF ProcTyped, Steady
(* A task that stops the supervisor's worker.                              *)
LEMMA HaltKeeps ==
  ASSUME ProcInv, NEW t \in Task, NEW then \in Thens, NEW list \in Seq(Engine),
         then \in Starts => list # <<>>, t \in Loader => task[t].m \in ProcModel,
         Halt(t, then, list), UNCHANGED <<alive, holds, orphans>>,
         used' \in Bounds, used.probed => used'.probed,
         ~used.probed => IF t \in Loader
                           THEN /\ lock = t /\ then \in {"start", "fresh", "fail"}
                                /\ then \in {"start", "fail"} => loaded = Nothing
                           ELSE then = "forget"
  PROVE  ProcInv'
<1> USE DEF ProcInv
<1>1. IF Running THEN Halting(t, then) ELSE Landed(t, then) BY StopStops DEF Halt
<1>2. IF Running THEN UNCHANGED <<loaded, lock>> ELSE Settled(t, then) BY DEF Halt
<1>3. Changes(t) /\ manifest' = proc' /\ proc' \in {proc, Nothing} /\ socket' \in BOOLEAN
      /\ eng' \in {eng, Nothing} /\ loaded' \in {loaded, Nothing} /\ lock' \in {lock, Nothing}
  BY <1>1, <1>2 DEF Halting, Landed, Settled, ProcTyped
<1>4. ProcTyped' BY <1>3 DEF ProcTyped, Changes
<1>5. ASSUME ~used.probed PROVE Steady' /\ \A u \in Task : Calm(u)'
  <2>1. Steady /\ (\A u \in Task : Calm(u)) BY <1>5
  <2>2. proc' = proc \/ (proc' = Nothing /\ proc \notin alive)
    BY <1>1, NothingApart DEF Halting, Landed, Running, ProcTyped, Lives
  <2>3. \A u \in Task \ {t} : task'[u] = task[u] /\ (lock = u => lock' = u)
    BY <1>1, <1>2, <1>3 DEF Changes, Settled
  <2>4. \A u \in Task \ {t} : Calm(u)'
    BY <1>3, <2>1, <2>2, <2>3, OthersCalm DEF ProcInv
  <2>5. loaded' = Nothing \/ (loaded' = loaded /\ proc' = proc /\ holds' = holds)
    BY <1>1, <1>2, <1>5 DEF Halting, Settled, Forgets, Thens
  <2>6. Steady' BY <2>1, <2>2, <2>5, StillSteady
  <2>7. Calm(t)'
    <3>1. CASE Running
      <4>1. Halting(t, then) /\ UNCHANGED <<loaded, lock>> BY <1>1, <1>2, <3>1
      <4> QED BY <1>5, <4>1 DEF Halting, Calm, Busy
    <3>2. CASE ~Running
      <4>1. Landed(t, then) /\ Settled(t, then) BY <1>1, <1>2, <3>2
      <4>2. then \in Starts => loaded' = Nothing /\ lock' = lock
        BY <1>5, <4>1, LoadersApart DEF Settled, Forgets, Starts
      <4>3. t \notin Loader => then \notin Starts BY <1>5 DEF Starts
      <4> QED BY <1>5, <4>1, <4>2, <4>3 DEF Landed, Calm, Busy
    <3> QED BY <3>1, <3>2
  <2> QED BY <2>4, <2>6, <2>7
<1> QED BY <1>4, <1>5 DEF ProcTyped

(* The process has ended.                                                  *)
LEMMA HaltedKeeps == ASSUME ProcInv, NEW t \in Task, Halted(t) PROVE ProcInv'
<1> USE DEF ProcInv
<1> DEFINE then == task[t].then
           list == task[t].todo
<1>1. /\ task[t].pc = "halt" /\ task[t].pid \notin alive /\ Land(t, then, list) /\ Settled(t, then)
      /\ UNCHANGED <<alive, holds, orphans, used>>
  BY DEF Halted, Lives, Pc
<1>2. /\ then \in Thens /\ list \in Seq(Engine) /\ (then \in Starts => list # <<>>)
      /\ (t \in Loader => task[t].m \in ProcModel)
  BY <1>1 DEF ProcTyped, Shaped, Shapes
<1> HIDE DEF then, list
<1>3. Landed(t, then) BY <1>1, <1>2, LandLands
<1>4. Changes(t) /\ manifest' = proc' /\ proc' = Nothing /\ socket' \in BOOLEAN
      /\ eng' = Nothing /\ loaded' \in {loaded, Nothing} /\ lock' \in {lock, Nothing}
  BY <1>1, <1>3 DEF Landed, Settled
<1>5. ProcTyped' BY <1>1, <1>4 DEF ProcTyped, Changes
<1>6. ASSUME ~used.probed PROVE Steady' /\ \A u \in Task : Calm(u)'
  <2>1. Steady /\ (\A u \in Task : Calm(u)) BY <1>6
  <2>2. IF t \in Loader THEN /\ lock = t /\ then \in {"start", "fresh", "fail"}
                             /\ then \in {"start", "fail"} => loaded = Nothing
        ELSE then = "forget"
    BY <1>1, <2>1 DEF Calm, Busy, then
  <2>3. proc \notin alive
    <3>1. task[t].pid = proc \/ proc = Nothing BY <1>1, <2>1 DEF Calm
    <3> QED BY <1>1, <3>1, NothingApart DEF ProcTyped
  <2>4. \A u \in Task \ {t} : task'[u] = task[u] /\ (lock = u => lock' = u)
    BY <1>1, <1>4 DEF Changes, Settled
  <2>5. \A u \in Task \ {t} : Calm(u)'
    BY <1>1, <1>4, <2>1, <2>3, <2>4, OthersCalm DEF ProcInv
  <2>6. loaded' = Nothing BY <1>1, <2>2 DEF Settled, Forgets
  <2>7. Steady' BY <1>1, <1>4, <2>1, <2>3, <2>6, StillSteady
  <2>8. Calm(t)'
    <3>1. then \in Starts => lock' = lock /\ t \in Loader BY <1>1, <2>2 DEF Settled, Starts
    <3> QED BY <1>3, <2>2, <2>6, <3>1 DEF Landed, Calm, Busy
  <2> QED BY <2>5, <2>7, <2>8
<1> QED BY <1>1, <1>5, <1>6 DEF ProcTyped

(* A load takes or starts a worker, with the lock.                         *)
LEMMA BeginKeeps ==
  ASSUME ProcInv, NEW t \in Loader, NEW list \in Seq(Engine), list # <<>>, task[t].m \in ProcModel,
         Begin(t, list), UNCHANGED <<alive, orphans, used>>,
         holds' \in [Pid -> ProcModel \cup {Nothing}], loaded' = Nothing,
         IF used.probed THEN lock' \in Loader \cup {Nothing} ELSE lock' = t /\ lock \in {t, Nothing}
  PROVE  ProcInv'
<1> USE DEF ProcInv
<1>0. t \in Task BY DEF Task
<1>1. Taken(t) \/ IF Running THEN Halting(t, "start") ELSE Landed(t, "start")
  BY <1>0, BeginBegins
<1>2. Changes(t) /\ manifest' = proc' /\ proc' \in {proc, Nothing} /\ socket' \in BOOLEAN
      /\ eng' \in {eng, Nothing}
  BY <1>1 DEF Taken, Halting, Landed, ProcTyped
<1>3. ProcTyped' BY <1>2 DEF ProcTyped, Changes
<1>4. ASSUME ~used.probed PROVE Steady' /\ \A u \in Task : Calm(u)'
  <2>1. Steady /\ (\A u \in Task : Calm(u)) BY <1>4
  <2>2. proc' = proc \/ (proc' = Nothing /\ proc \notin alive)
    BY <1>1, NothingApart DEF Taken, Halting, Landed, Running, ProcTyped, Lives
  <2>3. \A u \in Task \ {t} : task'[u] = task[u] /\ (lock = u => lock' = u)
    BY <1>2, <1>4, NothingApart DEF Changes
  <2>4. \A u \in Task \ {t} : Calm(u)' BY <2>1, <2>2, <2>3, OthersCalm
  <2>5. Steady' BY <2>1, <2>2, StillSteady
  <2>6. Calm(t)' BY <1>1, <1>4 DEF Taken, Halting, Landed, Calm, Busy, Starts
  <2> QED BY <2>4, <2>5, <2>6
<1> QED BY <1>3, <1>4 DEF ProcTyped
(* A task moves and the worker stays.                                      *)
LEMMA MoveKeeps ==
  ASSUME ProcInv, NEW t \in Task, Changes(t), UNCHANGED <<alive, proc, socket, eng, manifest, orphans>>,
         \/ UNCHANGED <<loaded, holds>>
         \/ (loaded' = Nothing /\ holds' \in [Pid -> ProcModel \cup {Nothing}]),
         lock' \in {lock, Nothing} \/ (t \in Loader /\ lock' = t),
         used' \in Bounds, used.probed => used'.probed,
         ~used.probed => lock' = lock \/ lock \in {t, Nothing},
         ~used.probed /\ Calm(t) /\ Steady => Calm(t)'
  PROVE  ProcInv'
<1> USE DEF ProcInv
<1>1. ProcTyped' BY DEF ProcTyped, Changes
<1>2. ASSUME ~used.probed PROVE Steady' /\ \A u \in Task : Calm(u)'
  <2>1. Steady /\ (\A u \in Task : Calm(u)) BY <1>2
  <2>2. \A u \in Task \ {t} : task'[u] = task[u] /\ (lock = u => lock' = u)
    BY <1>2, NothingApart DEF Changes
  <2>3. \A u \in Task \ {t} : Calm(u)' BY <2>1, <2>2, OthersCalm
  <2>4. Steady' BY <2>1, StillSteady
  <2> QED BY <1>2, <2>1, <2>3, <2>4
<1> QED BY <1>1, <1>2 DEF ProcTyped

(* The worker started is the only one.                                     *)
LEMMA SpawnKeeps == ASSUME ProcInv, NEW t \in Task, Spawned(t) PROVE ProcInv'
<1> USE DEF ProcInv
<1> DEFINE p == used.pid + 1
           r == [task[t] EXCEPT !.pc = "health", !.pid = p]
<1>1. /\ task[t].pc = "spawn" /\ Delivered /\ used.pid < MaxPid
      /\ alive' = alive \cup {p} /\ proc' = p /\ manifest' = p /\ eng' = Head(task[t].todo)
      /\ PutTask(t, r) /\ used' = [used EXCEPT !.pid = p]
      /\ UNCHANGED <<holds, socket, loaded, lock, crashes, orphans>>
  BY DEF Spawned, Pc, Record
<1>2. task[t] \in Shapes /\ task[t].todo # <<>> /\ (t \in Loader => task[t].m \in ProcModel)
  BY <1>1 DEF ProcTyped, Shaped
<1>3. p \in Pid /\ used' \in Bounds /\ used'.probed = used.probed
  BY <1>1, PidsCounted DEF ProcTyped, Bounds, Pid
<1>4. Head(task[t].todo) \in Engine BY <1>2, HeadTailProperties DEF Shapes
<1> HIDE DEF p
<1>5. r \in Shapes /\ r.pc = "health" /\ r.m = task[t].m /\ r.todo = task[t].todo
  BY <1>2, <1>3 DEF Shapes, Pcs
<1> HIDE DEF r
<1>6. Shaped(t, r) BY <1>2, <1>5 DEF Shaped
<1>7. Changes(t) /\ task'[t] = r BY <1>1, <1>6, PutChanges
<1>8. ProcTyped' BY <1>1, <1>3, <1>4, <1>7 DEF ProcTyped, Changes
<1>9. ASSUME ~used.probed PROVE Steady' /\ \A u \in Task : Calm(u)'
  <2>1. Steady /\ (\A u \in Task : Calm(u)) BY <1>9
  <2>2. t \in Loader /\ lock = t /\ proc = Nothing /\ loaded = Nothing
    BY <1>1, <2>1 DEF Calm, Busy
  <2>3. \A u \in Task : task[u].pc # "halt"
    <3> SUFFICES ASSUME NEW u \in Task, task[u].pc = "halt" PROVE FALSE
      OBVIOUS
    <3>1. task[u].pid \in alive /\ task[u].pid \in Pid
      BY <1>1 DEF Delivered, Pc, Lives, ProcTyped, Shaped
    <3> QED BY <2>1, <2>2, <3>1, NothingApart DEF Calm, Lives
  <2>4. Steady' BY <1>1, <2>1, <2>2, NothingApart DEF Steady, ProcTyped
  <2>5. ASSUME NEW u \in Task \ {t} PROVE Calm(u)'
    <3>1. task'[u] = task[u] BY <1>7 DEF Changes
    <3>2. task[u].pc \notin {"spawn", "ready", "halt"}
      BY <2>1, <2>2, <2>3, NothingApart DEF Calm, Busy
    <3> QED BY <1>1, <2>1, <2>2, <3>1, <3>2 DEF Calm
  <2>6. Calm(t)' BY <1>1, <1>5, <1>7, <2>2 DEF Calm
  <2> QED BY <2>4, <2>5, <2>6
<1> QED BY <1>3, <1>8, <1>9 DEF ProcTyped

(* The worker has the model.                                               *)
LEMMA LoadOkKeeps == ASSUME ProcInv, NEW t \in Task, LoadOk(t) PROVE ProcInv'
<1> USE DEF ProcInv
<1> DEFINE x == [m |-> task[t].m, e |-> Head(task[t].todo)]
<1>1. /\ t \in Loader /\ task[t].pc = "ready" /\ task[t].pid \in alive /\ loaded' = x
      /\ holds' = [holds EXCEPT ![task[t].pid] = task[t].m] /\ Finish(t, "loaded")
      /\ lock' = Nothing /\ UNCHANGED <<alive, proc, socket, eng, manifest, crashes, orphans, used>>
  BY DEF LoadOk, Pc, Answers, Lives
<1>2. task[t] \in Shapes /\ task[t].todo # <<>> /\ task[t].m \in ProcModel
  BY <1>1 DEF ProcTyped, Shaped
<1>3. x \in [m : ProcModel, e : Engine] /\ x.m = task[t].m
  BY <1>2, HeadTailProperties DEF Shapes
<1> HIDE DEF x
<1>4. Changes(t) /\ task'[t].pc = "loaded" BY <1>1, <1>2, FinishChanges
<1>5. ProcTyped' BY <1>1, <1>2, <1>3, <1>4 DEF ProcTyped, Changes
<1>6. ASSUME ~used.probed PROVE Steady' /\ \A u \in Task : Calm(u)'
  <2>1. Steady /\ (\A u \in Task : Calm(u)) BY <1>6
  <2>2. lock = t /\ proc = task[t].pid /\ proc \in Pid BY <1>1, <2>1 DEF Calm, Busy, Lives, ProcTyped
  <2>3. Steady' BY <1>1, <1>3, <2>1, <2>2, NothingApart DEF Steady, ProcTyped
  <2>4. ASSUME NEW u \in Task \ {t} PROVE Calm(u)'
    <3>1. task'[u] = task[u] BY <1>4 DEF Changes
    <3>2. u \in Loader => task[u].pc \notin Busy BY <2>1, <2>2 DEF Calm
    <3> QED BY <1>1, <2>1, <3>1, <3>2 DEF Calm, Busy, Lives
  <2>5. Calm(t)' BY <1>1, <1>4 DEF Calm, Busy
  <2> QED BY <2>3, <2>4, <2>5
<1> QED BY <1>1, <1>5, <1>6 DEF ProcTyped

(* Processes end, by themselves or as they were told.                      *)
LEMMA EndKeeps ==
  ASSUME ProcInv, NEW p \in Pid, alive' = alive \ {p}, orphans' \in {orphans, orphans \ {p}},
         used' \in Bounds, used'.probed = used.probed,
         UNCHANGED <<holds, proc, socket, eng, manifest, loaded, lock, task>>
  PROVE  ProcInv'
<1> USE DEF ProcInv
<1>1. ProcTyped' BY DEF ProcTyped
<1>2. ASSUME ~used.probed PROVE Steady' /\ \A u \in Task : Calm(u)'
  <2>1. Steady /\ (\A u \in Task : Calm(u)) BY <1>2
  <2>2. \A u \in Task : Calm(u)' BY <2>1, OthersCalm
  <2>3. Steady' BY <2>1, StillSteady
  <2> QED BY <2>2, <2>3
<1> QED BY <1>1, <1>2

(* The coordinator starts again with no task.                              *)
LEMMA RestStarts ==
  ASSUME task = [t \in Task |-> Resting], manifest = proc, proc = Nothing, loaded = Nothing,
         lock = Nothing, eng = Nothing, socket \in BOOLEAN, alive \in SUBSET Pid, orphans \in SUBSET Pid,
         holds \in [Pid -> ProcModel \cup {Nothing}], used \in Bounds, alive \ orphans = {}
  PROVE  ProcInv
<1>1. Resting.pc = "rest" BY DEF Resting
<1>2. \A t \in Task : Shaped(t, task[t]) BY RestingShape
<1>3. ProcTyped BY <1>2 DEF ProcTyped
<1>4. \A t \in Task : Calm(t) BY <1>1 DEF Calm, Busy
<1> QED BY <1>3, <1>4 DEF ProcInv, Steady

(* No process at the start.                                                *)
LEMMA ProcInitHolds == ProcInit => ProcInv
<1> SUFFICES ASSUME ProcInit PROVE ProcInv
  OBVIOUS
<1>1. used \in Bounds BY DEF ProcInit, Bounds
<1> QED BY <1>1, RestStarts DEF ProcInit

(* A restart of the coordinator leaves orphans that are known.             *)
LEMMA ProcRestartKeeps == ASSUME ProcInv, ProcRestart PROVE ProcInv'
<1>1. used' \in Bounds /\ alive' \in SUBSET Pid /\ orphans' \in SUBSET Pid /\ alive' \ orphans' = {}
  BY DEF ProcRestart, ProcInv, ProcTyped, Bounds, OurWorker
<1>2. /\ task' = [t \in Task |-> Resting] /\ manifest' = proc' /\ proc' = Nothing /\ loaded' = Nothing
      /\ lock' = Nothing /\ eng' = Nothing /\ socket' \in BOOLEAN
      /\ holds' \in [Pid -> ProcModel \cup {Nothing}]
  BY DEF ProcRestart, Gone, ProcInv, ProcTyped
<1>3. \A t \in Task : Shaped(t, task'[t]) BY <1>2, RestingShape
<1>4. ProcTyped' BY <1>1, <1>2, <1>3 DEF ProcTyped
<1>5. \A t \in Task : Calm(t)' BY <1>2 DEF Calm, Busy, Resting
<1>6. Steady' BY <1>1, <1>2 DEF Steady
<1> QED BY <1>4, <1>5, <1>6 DEF ProcInv
(* What a task keeps is what its shape says.                               *)
LEMMA TaskFacts ==
  ASSUME ProcInv, NEW t \in Task
  PROVE  /\ task[t] \in Shapes /\ Shaped(t, task[t]) /\ used \in Bounds /\ DOMAIN task = Task
         /\ task[t].todo \in Seq(Engine) /\ <<>> \in Seq(Engine)
         /\ (~used.probed => Calm(t) /\ Steady)
BY EmptySeq DEF ProcInv, ProcTyped, Shaped, Shapes

(* The bounds only count.                                                  *)
LEMMA BoundsCount ==
  ASSUME used \in Bounds
  PROVE  /\ [used EXCEPT !.deaths = @ + 1] \in Bounds
         /\ [used EXCEPT !.deaths = @ + 1].probed = used.probed
         /\ [used EXCEPT !.loads = @ + 1] \in Bounds
         /\ [used EXCEPT !.loads = @ + 1].probed = used.probed
         /\ \A b \in BOOLEAN : /\ [used EXCEPT !.deaths = IF b THEN @ + 1 ELSE @] \in Bounds
                               /\ [used EXCEPT !.deaths = IF b THEN @ + 1 ELSE @].probed = used.probed
BY DEF Bounds

(* A worker that does not come up, and one that was stopped meanwhile.     *)
LEMMA HealthKeeps ==
  ASSUME ProcInv, NEW t \in Task, Robbed(t) \/ StartupDeath(t) \/ StartupTimeout(t)
  PROVE  ProcInv'
<1>1. /\ task[t].pc = "health" /\ Halt(t, "fail", <<>>) /\ UNCHANGED <<alive, holds, orphans>>
      /\ (used' = used \/ used' = [used EXCEPT !.deaths = @ + 1])
  BY DEF Robbed, StartupDeath, StartupTimeout, Pc
<1>2. used' \in Bounds /\ used'.probed = used.probed BY <1>1, TaskFacts, BoundsCount
<1>3. t \in Loader => task[t].m \in ProcModel BY <1>1, TaskFacts DEF Shaped
<1>4. ~used.probed => t \in Loader /\ lock = t /\ loaded = Nothing
  BY <1>1, TaskFacts DEF Calm, Busy
<1>5. <<>> \in Seq(Engine) /\ "fail" \in Thens /\ "fail" \notin Starts BY TaskFacts DEF Thens, Starts
<1> QED BY <1>1, <1>2, <1>3, <1>4, <1>5, HaltKeeps

(* An unload.                                                              *)
LEMMA UnloadKeeps ==
  ASSUME ProcInv, NEW t \in Task, UnloadOk(t) \/ UnloadFails(t)
  PROVE  ProcInv'
<1>1. task[t].pc = "unload" BY DEF UnloadOk, UnloadFails, Pc
<1>2. /\ task[t].todo \in Seq(Engine) /\ (t \in Loader => task[t].m \in ProcModel)
      /\ (t \notin Unloader => task[t].todo # <<>>)
      /\ (~used.probed /\ t \in Loader => lock = t)
  BY <1>1, TaskFacts DEF Shaped, Calm, Busy
<1>3. t \in Loader => t \notin Unloader BY LoadersApart
<1>4. CASE UnloadOk(t)
  <2>1. /\ holds' = [holds EXCEPT ![task[t].pid] = Nothing] /\ loaded' = Nothing
        /\ UNCHANGED <<alive, lock, crashes, orphans, used>>
    BY <1>4 DEF UnloadOk
  <2>2. holds' \in [Pid -> ProcModel \cup {Nothing}] BY <2>1 DEF ProcInv, ProcTyped
  <2>3. used \in Bounds BY TaskFacts
  <2>4. CASE t \in Unloader
    <3>1. PutTask(t, Resting) /\ UNCHANGED <<proc, socket, eng, manifest>>
      BY <1>4, <2>4 DEF UnloadOk
    <3>2. Changes(t) /\ task'[t] = Resting /\ Resting.pc = "rest"
      BY <3>1, RestingShape, PutChanges DEF ProcInv, Resting
    <3>3. Calm(t) /\ Steady => Calm(t)' BY <2>1, <2>4, <3>2, <1>3 DEF Calm, Busy
    <3> QED BY <2>1, <2>2, <2>3, <3>1, <3>2, <3>3, MoveKeeps
  <2>5. CASE t \notin Unloader /\ t \in Loader
    <3>1. Begin(t, task[t].todo) BY <1>4, <2>5 DEF UnloadOk
    <3>2. IF used.probed THEN lock' \in Loader \cup {Nothing} ELSE lock' = t /\ lock \in {t, Nothing}
      BY <1>2, <2>1, <2>5 DEF ProcInv, ProcTyped
    <3> QED BY <1>2, <2>1, <2>2, <2>5, <3>1, <3>2, BeginKeeps
  <2>6. t \in Loader \cup Unloader BY <1>1, TaskFacts DEF Shaped
  <2> QED BY <2>4, <2>5, <2>6
<1>5. CASE UnloadFails(t)
  <2> DEFINE then == IF t \in Unloader THEN "forget" ELSE "fresh"
             dead == ~(task[t].pid # Nothing /\ Lives(task[t].pid))
  <2>1. /\ Halt(t, then, task[t].todo) /\ UNCHANGED <<alive, holds, crashes, orphans>>
        /\ used' = [used EXCEPT !.deaths = IF task[t].pid # Nothing /\ Lives(task[t].pid) THEN @ + 1 ELSE @]
    BY <1>5 DEF UnloadFails
  <2>2. used' \in Bounds /\ used'.probed = used.probed
    <3> DEFINE b == task[t].pid # Nothing /\ Lives(task[t].pid)
    <3>1. b \in BOOLEAN OBVIOUS
    <3>2. used' = [used EXCEPT !.deaths = IF b THEN @ + 1 ELSE @] BY <2>1
    <3> HIDE DEF b
    <3> QED BY <3>1, <3>2, TaskFacts, BoundsCount
  <2>3. then \in Thens /\ (then \in Starts => task[t].todo # <<>>) BY <1>2 DEF Thens, Starts
  <2>4. t \in Loader => then = "fresh" BY <1>3
  <2>5. t \notin Loader => then = "forget" BY <1>1, TaskFacts DEF Shaped
  <2> HIDE DEF then
  <2> QED BY <1>2, <2>1, <2>2, <2>3, <2>4, <2>5, HaltKeeps
<1> QED BY <1>4, <1>5

(* The worker answers.                                                     *)
LEMMA HealthyKeeps == ASSUME ProcInv, NEW t \in Task, Healthy(t) PROVE ProcInv'
<1> DEFINE r == [task[t] EXCEPT !.pc = "ready", !.pid = proc]
<1>1. /\ task[t].pc = "health" /\ PutTask(t, r) /\ Running
      /\ UNCHANGED <<worker, loaded, lock, crashes, orphans, used>>
  BY DEF Healthy, Pc
<1>2. task[t] \in Shapes /\ used \in Bounds /\ task[t].todo # <<>> /\ proc \in Pid \cup {Nothing}
      /\ (t \in Loader => task[t].m \in ProcModel)
  BY <1>1, TaskFacts DEF Shaped, ProcInv, ProcTyped
<1>3. r \in Shapes /\ r.pc = "ready" /\ r.pid = proc /\ r.m = task[t].m /\ r.todo = task[t].todo
  BY <1>2 DEF Shapes, Pcs
<1> HIDE DEF r
<1>4. Shaped(t, r) BY <1>2, <1>3 DEF Shaped
<1>5. Changes(t) /\ task'[t] = r BY <1>1, <1>4, PutChanges DEF ProcInv
<1>6. Calm(t) => Calm(t)' BY <1>1, <1>3, <1>5 DEF Calm, Busy, worker
<1> QED BY <1>1, <1>2, <1>5, <1>6, MoveKeeps DEF worker

(* The steps of a load.                                                    *)
LEMMA LoadKeeps ==
  ASSUME ProcInv, NEW t \in Loader,
         LoadStep(t) \/ \E m \in ProcModel, c \in Candidates : Ask(t, m, c)
  PROVE  ProcInv'
<1>0. t \in Task BY DEF Task
<1>1. CASE Refuse(t) \/ AlreadyLoaded(t)
  <2>1. /\ task[t].pc = "lock" /\ lock = Nothing
        /\ UNCHANGED <<worker, loaded, lock, crashes, orphans, used>>
        /\ \E p \in {"refused", "loaded"} : Finish(t, p)
    BY <1>1 DEF Refuse, AlreadyLoaded, Entering, Pc
  <2>2. task[t].m \in ProcModel /\ used \in Bounds BY <1>0, <2>1, TaskFacts DEF Shaped
  <2>3. PICK p \in {"refused", "loaded"} : Finish(t, p) BY <2>1
  <2>4. Changes(t) /\ task'[t].pc = p BY <1>0, <2>2, <2>3, FinishChanges DEF ProcInv
  <2>5. Calm(t) => Calm(t)' BY <2>1, <2>4 DEF Calm, Busy
  <2> QED BY <1>0, <2>1, <2>2, <2>4, <2>5, MoveKeeps DEF worker
<1>2. CASE Switch(t)
  <2> DEFINE r == [task[t] EXCEPT !.pc = "unload", !.pid = proc]
  <2>1. /\ task[t].pc = "lock" /\ lock = Nothing /\ lock' = t /\ PutTask(t, r)
        /\ UNCHANGED <<worker, loaded, crashes, orphans, used>>
    BY <1>2 DEF Switch, Entering, Pc
  <2>2. task[t] \in Shapes /\ task[t].m \in ProcModel /\ used \in Bounds /\ task[t].todo # <<>>
        /\ proc \in Pid \cup {Nothing}
    BY <1>0, <2>1, TaskFacts DEF Shaped, ProcInv, ProcTyped
  <2>3. r \in Shapes /\ r.pc = "unload" /\ r.m = task[t].m /\ r.todo = task[t].todo
    BY <2>2 DEF Shapes, Pcs
  <2> HIDE DEF r
  <2>4. Shaped(t, r) BY <2>2, <2>3 DEF Shaped
  <2>5. Changes(t) /\ task'[t].pc = "unload" BY <1>0, <2>1, <2>3, <2>4, PutChanges DEF ProcInv
  <2>6. Calm(t) => Calm(t)' BY <2>1, <2>5 DEF Calm, Busy
  <2> QED BY <1>0, <2>1, <2>2, <2>5, <2>6, MoveKeeps DEF worker
<1>3. CASE FirstLoad(t)
  <2>1. /\ task[t].pc = "lock" /\ lock = Nothing /\ lock' = t /\ loaded = Nothing
        /\ Begin(t, task[t].todo) /\ UNCHANGED <<alive, holds, loaded, crashes, orphans, used>>
    BY <1>3 DEF FirstLoad, Entering, Pc
  <2>2. task[t].m \in ProcModel /\ task[t].todo \in Seq(Engine) /\ task[t].todo # <<>>
    BY <1>0, <2>1, TaskFacts DEF Shaped
  <2>3. holds' \in [Pid -> ProcModel \cup {Nothing}] BY <2>1 DEF ProcInv, ProcTyped
  <2> QED BY <2>1, <2>2, <2>3, BeginKeeps
<1>4. CASE Incompatible(t) \/ LoadError(t)
  <2>1. task[t].pc = "ready" /\ UNCHANGED <<alive, holds, crashes, orphans>>
    BY <1>4 DEF Incompatible, LoadError, Pc
  <2>2. /\ task[t].m \in ProcModel /\ task[t].todo \in Seq(Engine) /\ task[t].todo # <<>>
        /\ (~used.probed => lock = t /\ loaded = Nothing)
    BY <1>0, <2>1, TaskFacts DEF Shaped, Calm, Busy
  <2>3. used' \in Bounds /\ used'.probed = used.probed
    <3>1. CASE Incompatible(t) BY <1>0, <3>1, TaskFacts DEF Incompatible
    <3>2. CASE LoadError(t)
      <4> DEFINE b == Lives(task[t].pid)
      <4>1. b \in BOOLEAN BY DEF Lives
      <4>2. used' = [used EXCEPT !.deaths = IF b THEN @ + 1 ELSE @] BY <3>2 DEF LoadError
      <4> HIDE DEF b
      <4> QED BY <1>0, <4>1, <4>2, TaskFacts, BoundsCount
    <3> QED BY <1>4, <3>1, <3>2
  <2>4. \/ Halt(t, "fail", <<>>)
        \/ (Halt(t, "start", Tail(task[t].todo)) /\ Len(task[t].todo) # 1)
    BY <1>4 DEF Incompatible, LoadError
  <2>5. CASE Halt(t, "fail", <<>>)
    <3>1. <<>> \in Seq(Engine) /\ "fail" \in Thens /\ "fail" \notin Starts
      BY EmptySeq DEF Thens, Starts
    <3> QED BY <1>0, <2>1, <2>2, <2>3, <2>5, <3>1, HaltKeeps
  <2>6. CASE Halt(t, "start", Tail(task[t].todo)) /\ Len(task[t].todo) # 1
    <3>1. Tail(task[t].todo) \in Seq(Engine) /\ Len(Tail(task[t].todo)) = Len(task[t].todo) - 1
      BY <2>2, HeadTailProperties
    <3>2. Len(task[t].todo) \in Nat \ {0} BY <2>2, EmptySeq
    <3>5. Len(Tail(task[t].todo)) # 0 BY <2>6, <3>1, <3>2
    <3>3. Tail(task[t].todo) # <<>> BY <3>5, EmptySeq
    <3>4. "start" \in Thens BY DEF Thens
    <3> QED BY <1>0, <2>1, <2>2, <2>3, <2>6, <3>1, <3>3, <3>4, HaltKeeps
  <2> QED BY <2>4, <2>5, <2>6
<1>5. CASE LoadOk(t) BY <1>0, <1>5, LoadOkKeeps
<1>6. CASE \E m \in ProcModel, c \in Candidates : Ask(t, m, c)
  <2>1. PICK m \in ProcModel, c \in Candidates : Ask(t, m, c) BY <1>6
  <2> DEFINE r == [Resting EXCEPT !.pc = "lock", !.m = m, !.todo = c]
  <2>2. /\ task[t].pc \in {"rest", "loaded", "failed", "refused"} /\ PutTask(t, r)
        /\ used' = [used EXCEPT !.loads = @ + 1]
        /\ UNCHANGED <<worker, loaded, lock, crashes, orphans>>
    BY <2>1 DEF Ask, Pc
  <2>3. c \in Seq(Engine) /\ c # <<>> BY CandidatesSeq
  <2>4. r \in Shapes /\ r.pc = "lock" /\ r.m = m /\ r.todo = c
    BY <2>3, RestingShape DEF Shapes, Pcs
  <2> HIDE DEF r
  <2>5. Shaped(t, r) BY <2>3, <2>4 DEF Shaped
  <2>6. Changes(t) /\ task'[t].pc = "lock" BY <1>0, <2>2, <2>4, <2>5, PutChanges DEF ProcInv
  <2>7. used' \in Bounds /\ used'.probed = used.probed BY <1>0, <2>2, TaskFacts, BoundsCount
  <2>8. Calm(t) => Calm(t)' BY <2>2, <2>6 DEF Calm, Busy
  <2> QED BY <1>0, <2>2, <2>6, <2>7, <2>8, MoveKeeps DEF worker
<1> QED BY <1>1, <1>2, <1>3, <1>4, <1>5, <1>6 DEF LoadStep
(* Generations and unloads begin and end.                                  *)
LEMMA BesidesKeep ==
  ASSUME ProcInv, NEW t \in Task \ Loader, NEW r \in Shapes,
         r.pc \in {"rest", "stream"} \/ (r.pc = "unload" /\ t \in Unloader),
         PutTask(t, r), UNCHANGED <<worker, loaded, lock, crashes, orphans, used>>
  PROVE  ProcInv'
<1>1. Shaped(t, r) BY DEF Shaped
<1>2. Changes(t) /\ task'[t] = r BY <1>1, PutChanges DEF ProcInv
<1>3. used \in Bounds BY TaskFacts
<1>4. Calm(t) => Calm(t)' BY <1>2 DEF Calm
<1> QED BY <1>2, <1>3, <1>4, MoveKeeps DEF worker

(* A generation and the ways it ends.                                      *)
LEMMA GenKeeps ==
  ASSUME ProcInv, NEW g \in Gen, Generate(g) \/ Replied(g) \/ StreamBreaks(g)
  PROVE  ProcInv'
<1>0. g \in Task \ Loader BY LoadersApart DEF Task
<1>1. CASE Generate(g)
  <2> DEFINE r == [Resting EXCEPT !.pc = "stream", !.m = loaded.m, !.pid = proc]
  <2>1. /\ loaded # Nothing /\ PutTask(g, r)
        /\ UNCHANGED <<worker, loaded, lock, crashes, orphans, used>>
    BY <1>1 DEF Generate
  <2>2. loaded.m \in ProcModel /\ proc \in Pid \cup {Nothing} BY <2>1 DEF ProcInv, ProcTyped
  <2>3. r \in Shapes /\ r.pc = "stream" BY <2>2, RestingShape DEF Shapes, Pcs
  <2> HIDE DEF r
  <2> QED BY <1>0, <2>1, <2>3, BesidesKeep
<1>2. CASE Replied(g)
  <2>1. Resting \in Shapes /\ Resting.pc = "rest" BY RestingShape DEF Resting
  <2> QED BY <1>0, <1>2, <2>1, BesidesKeep DEF Replied
<1>3. CASE StreamBreaks(g)
  <2> DEFINE b == task[g].pid # Nothing /\ Lives(task[g].pid)
  <2>1. /\ Halt(g, "forget", <<>>) /\ UNCHANGED <<alive, holds, orphans>>
        /\ used' = [used EXCEPT !.deaths = IF b THEN @ + 1 ELSE @] /\ b \in BOOLEAN
    BY <1>3 DEF StreamBreaks
  <2> HIDE DEF b
  <2>2. used' \in Bounds /\ used'.probed = used.probed BY <1>0, <2>1, TaskFacts, BoundsCount
  <2>3. <<>> \in Seq(Engine) /\ "forget" \in Thens /\ "forget" \notin Starts
    BY EmptySeq DEF Thens, Starts
  <2> QED BY <1>0, <2>1, <2>2, <2>3, HaltKeeps
<1> QED BY <1>1, <1>2, <1>3

(* A caller that gives up on the lock, and an unload.                      *)
LEMMA ForceKeeps ==
  ASSUME ProcInv,
         (\E f \in Forcer : GivesUp(f)) \/ (\E u \in Unloader : UnloadBegin(u))
  PROVE  ProcInv'
<1>1. ASSUME NEW f \in Forcer, GivesUp(f) PROVE ProcInv'
  <2>0. f \in Task \ Loader BY LoadersApart DEF Task
  <2>1. /\ Halt(f, "forget", <<>>) /\ UNCHANGED <<alive, holds, orphans>>
        /\ used' = [used EXCEPT !.deaths = @ + 1]
    BY <1>1 DEF GivesUp
  <2>2. used' \in Bounds /\ used'.probed = used.probed BY <2>0, <2>1, TaskFacts, BoundsCount
  <2>3. <<>> \in Seq(Engine) /\ "forget" \in Thens /\ "forget" \notin Starts
    BY EmptySeq DEF Thens, Starts
  <2> QED BY <2>0, <2>1, <2>2, <2>3, HaltKeeps
<1>2. ASSUME NEW u \in Unloader, UnloadBegin(u) PROVE ProcInv'
  <2>0. u \in Task \ Loader BY LoadersApart DEF Task
  <2> DEFINE r == [Resting EXCEPT !.pc = "unload", !.pid = proc]
  <2>1. PutTask(u, r) /\ UNCHANGED <<worker, loaded, lock, crashes, orphans, used>>
    BY <1>2 DEF UnloadBegin
  <2>2. proc \in Pid \cup {Nothing} BY DEF ProcInv, ProcTyped
  <2>3. r \in Shapes /\ r.pc = "unload" BY <2>2, RestingShape DEF Shapes, Pcs
  <2> HIDE DEF r
  <2> QED BY <2>0, <2>1, <2>3, BesidesKeep
<1> QED BY <1>1, <1>2

(* A probe starts and stops a worker beside everything.                    *)
LEMMA ProbeKeeps ==
  ASSUME ProcInv, NEW p \in Prober, Probed(p) \/ \E e \in Engine : Probe(p, e)
  PROVE  ProcInv'
<1>0. p \in Task \ Loader BY LoadersApart DEF Task
<1>1. CASE Probed(p)
  <2>1. /\ task[p].pc = "ready" /\ Halt(p, "fail", <<>>)
        /\ UNCHANGED <<alive, holds, crashes, orphans, used>>
    BY <1>1 DEF Probed, Pc
  <2>2. used.probed /\ used' \in Bounds BY <1>0, <2>1, TaskFacts DEF Calm
  <2>3. <<>> \in Seq(Engine) /\ "fail" \in Thens /\ "fail" \notin Starts BY EmptySeq DEF Thens, Starts
  <2> QED BY <1>0, <2>1, <2>2, <2>3, HaltKeeps
<1>2. CASE \E e \in Engine : Probe(p, e)
  <2>1. PICK e \in Engine : Probe(p, e) BY <1>2
  <2>2. /\ used' = [used EXCEPT !.probed = TRUE] /\ Begin(p, <<e>>)
        /\ UNCHANGED <<alive, holds, loaded, lock, crashes, orphans>>
    BY <2>1 DEF Probe
  <2>3. <<e>> \in Seq(Engine) /\ <<e>> # <<>> OBVIOUS
  <2>4. Taken(p) \/ IF Running THEN Halting(p, "start") ELSE Landed(p, "start")
    BY <1>0, <2>2, <2>3, BeginBegins DEF ProcInv
  <2>5. /\ Changes(p) /\ manifest' = proc' /\ proc' \in {proc, Nothing} /\ socket' \in BOOLEAN
        /\ eng' \in {eng, Nothing}
    BY <2>4 DEF Taken, Halting, Landed, ProcInv, ProcTyped
  <2>6. used' \in Bounds /\ used'.probed BY <2>2 DEF ProcInv, ProcTyped, Bounds
  <2> QED BY <2>2, <2>5, <2>6 DEF ProcInv, ProcTyped, Changes
<1> QED BY <1>1, <1>2

(* Every step of the supervisor.                                           *)
LEMMA ProcNextHolds == ProcInv /\ [ProcNext]_procVars => ProcInv'
<1> SUFFICES ASSUME ProcInv, [ProcNext]_procVars PROVE ProcInv'
  OBVIOUS
<1>1. CASE UNCHANGED procVars
  BY <1>1 DEF procVars, worker, ProcInv, ProcTyped, Steady, Calm, Lives
<1>2. ASSUME NEW t \in Task, Progress(t) \/ StartupTimeout(t) PROVE ProcInv'
  BY <1>2, HaltedKeeps, SpawnKeeps, HealthyKeeps, HealthKeeps, UnloadKeeps DEF Progress
<1>3. ASSUME NEW p \in Pid, Terminated(p) \/ Dies(p) \/ OrphanExits(p) PROVE ProcInv'
  <2>1. used \in Bounds BY DEF ProcInv, ProcTyped
  <2>2. used' \in Bounds /\ used'.probed = used.probed
    BY <1>3, <2>1, BoundsCount DEF Terminated, Dies, OrphanExits
  <2> QED BY <1>3, <2>2, EndKeeps DEF Terminated, Dies, OrphanExits
<1>4. CASE ForgetDead \/ WindowPasses
  <2>1. /\ UNCHANGED <<worker, lock, orphans, task, used>> /\ loaded' \in {loaded, Nothing}
    BY <1>4 DEF ForgetDead, WindowPasses
  <2>2. ProcTyped' BY <2>1 DEF ProcInv, ProcTyped, worker
  <2>3. ASSUME ~used.probed PROVE Steady' /\ \A u \in Task : Calm(u)'
    <3>1. Steady /\ (\A u \in Task : Calm(u)) BY <2>3 DEF ProcInv
    <3>2. Steady' BY <2>1, <3>1 DEF Steady, worker
    <3> QED BY <2>1, <3>1, <3>2 DEF Calm, worker, Lives
  <2> QED BY <2>1, <2>2, <2>3 DEF ProcInv
<1>5. CASE ProcRestart BY <1>5, ProcRestartKeeps
<1> QED BY <1>1, <1>2, <1>3, <1>4, <1>5, LoadKeeps, GenKeeps, ForceKeeps, ProbeKeeps DEF ProcNext

(* The invariant of the supervisor, and what it promises.                  *)
LEMMA ProcInvariant == Spec => []ProcInv
<1>1. Init => ProcInv BY ProcInitHolds DEF Init
<1>2. ProcInv /\ [Next]_vars => ProcInv' BY ProcNextHolds, OneServiceSteps
<1> QED BY <1>1, <1>2, PTL DEF Spec

(* What the invariant says of the properties.                              *)
LEMMA SupervisorPromises == ProcInv => ProcTypeOK /\ WorkersAccounted /\ LoadedIsHeld
<1> SUFFICES ASSUME ProcInv PROVE ProcTypeOK /\ WorkersAccounted /\ LoadedIsHeld
  OBVIOUS
<1>1. ProcTypeOK BY DEF ProcInv, ProcTyped, ProcTypeOK, Shaped, Shapes
<1>2. WorkersAccounted BY DEF ProcInv, ProcTyped, Steady, WorkersAccounted
<1>3. LoadedIsHeld BY DEF ProcInv, Steady, LoadedIsHeld
<1> QED BY <1>1, <1>2, <1>3
-----------------------------------------------------------------------------
(* The end of the coordinator.  Slots and calls.                           *)
Slots == [key : PoolKey \cup {NoSlot}, state : {"none", "loading", "ready", "evicting"},
          fut : {"none", "pending", "failed", "cancelled"}, proc : {"none", "runs", "ended"},
          known : BOOLEAN, socket : BOOLEAN]
Calls == [pc : {"rest", "wait", "queue", "admit", "published", "spawn", "load", "close"},
          key : PoolKey \cup {NoSlot}, w : Worker \cup {NoSlot}]
Mains == {"up", "drain", "unload", "closing", "stop", "cleared", "gone", "killed"}
LifeTyped ==
  /\ main \in Mains /\ table \in [PoolKey -> Worker \cup {NoSlot}] /\ made \in [Worker -> Slots]
  /\ named \in [PoolKey -> Worker \cup {NoSlot}] /\ latch \in Call \cup {"nobody", "main"}
  /\ call \in [Call -> Calls] /\ sweep \in Worker \cup {NoSlot} /\ ends \in 0..MaxEnds
  /\ todo \in SUBSET Worker /\ passed \in SUBSET Worker /\ crossed \in SUBSET Worker
  /\ strays \in SUBSET Worker

(* A call that has a slot of its own, and a slot without a process yet.    *)
Leads == {"published", "spawn", "load", "close"}
Fresh(w) == made[w].proc = "none" /\ ~made[w].known
Clean(w) == Runs(w) /\ w \notin crossed /\ w \notin strays

(* Slots have the key they are found by.                                   *)
Keyed ==
  /\ \A w \in Worker : made[w].state # "none" \/ made[w].proc # "none" => KeyOf(w) \in PoolKey
  /\ \A w \in Worker : made[w] # Unmade => KeyOf(w) \in PoolKey
  /\ \A w \in Worker : made[w].state = "ready" => made[w].fut = "none"
  /\ \A k \in PoolKey : table[k] # NoSlot => KeyOf(table[k]) = k /\ made[table[k]].state # "none"
(* A call and what it leads: the lock, its slot, its process.              *)
Led(c) ==
  /\ call[c].pc \in {"wait", "queue", "admit"} \cup Leads => call[c].key \in PoolKey
  /\ call[c].pc \in {"admit"} \cup Leads => latch = c
  /\ call[c].pc = "wait" => call[c].w \in Worker
  /\ call[c].pc \in Leads =>
       /\ call[c].w \in Worker /\ KeyOf(call[c].w) = call[c].key
       /\ made[call[c].w].fut # "none" /\ made[call[c].w].state # "none"
       /\ table[call[c].key] = call[c].w \/ main = "cleared"
  /\ call[c].pc = "published" => Fresh(call[c].w)
  /\ call[c].pc = "spawn" => ~made[call[c].w].known
(* The eviction of the reaper, and of the last lines.                      *)
Leaves ==
  /\ sweep # NoSlot =>
       /\ made[sweep].fut = "none" /\ made[sweep].state # "none"
       /\ table[KeyOf(sweep)] \in {sweep, NoSlot} \cup crossed
       /\ main \notin {"stop", "cleared", "gone", "killed"}
  /\ main \in {"unload", "stop"} =>
       \A v \in todo : made[v].state # "none" /\ table[KeyOf(v)] \in {v, NoSlot}
  /\ (main = "unload") <=> (latch = "main")
(* Nothing is left in the pool.                                            *)
Emptied ==
  /\ main \in {"cleared", "gone", "killed"} => \A k \in PoolKey : table[k] = NoSlot
  /\ main \in {"gone", "killed"} => \A c \in Call : call[c].pc = "rest"
(* A process that runs is in the table, known, and named by its manifest.  *)
Found ==
  /\ \A w \in Worker : Clean(w) /\ main \notin {"cleared", "gone", "killed"} => table[KeyOf(w)] = w
  /\ \A w \in Worker : Clean(w) => named[KeyOf(w)] = w \/ w \in Unrecorded
  /\ \A w \in Worker : Runs(w) => made[w].known \/ w \in Unrecorded \/ w \in strays
  /\ main = "cleared" => \A c \in Call, w \in Worker :
       call[c].pc \in Leads /\ Clean(w) /\ KeyOf(w) = call[c].key => w = call[c].w
(* What shutdown() stops or passes over.                                   *)
Passing(w) == w \in passed \/ (w \in todo /\ main = "stop")
Stopping ==
  /\ main \in {"stop", "cleared", "gone"} => \A w \in Worker : Clean(w) => Passing(w)
  /\ main \in {"stop", "cleared"} =>
       \A c \in Call : call[c].pc \in {"published", "spawn"} => Passing(call[c].w)
  /\ main = "stop" => \A k \in PoolKey : table[k] # NoSlot /\ Fresh(table[k]) => Passing(table[k])
(* A load nobody leads any more has no process.                            *)
Unled ==
  \A k \in PoolKey : table[k] # NoSlot /\ made[table[k]].fut # "none" =>
    Fresh(table[k]) \/ \E c \in Call : call[c].pc \in Leads /\ call[c].w = table[k]
LifeInv ==
  /\ LifeTyped /\ Keyed /\ (\A c \in Call : Led(c)) /\ Leaves /\ Emptied /\ Found /\ Stopping
  /\ Unled

(* A worker that is told to end.                                           *)
LEMMA EndsFacts ==
  ASSUME LifeTyped, NEW v \in Worker, EndsWorker(v)
  PROVE  /\ made' \in [Worker -> Slots] /\ named' \in [PoolKey -> Worker \cup {NoSlot}]
         /\ \A w \in Worker \ {v} : made'[w] = made[w]
         /\ made'[v].key = made[v].key /\ made'[v].state = made[v].state
         /\ made'[v].fut = made[v].fut /\ made'[v].known = FALSE
         /\ made'[v].proc = (IF made[v].known THEN "ended" ELSE made[v].proc)
         /\ \A k \in PoolKey : named'[k] = IF k = KeyOf(v) THEN NoSlot ELSE named[k]
<1> DEFINE p == IF made[v].known THEN "ended" ELSE made[v].proc
           r == [made[v] EXCEPT !.known = FALSE, !.socket = FALSE, !.proc = p]
<1>3. made' = [made EXCEPT ![v] = r]
  BY DEF EndsWorker, LifeTyped
<1>1. made[v] \in Slots /\ p \in {"none", "runs", "ended"} BY DEF LifeTyped, Slots
<1> HIDE DEF p
<1>2. /\ r \in Slots /\ r.key = made[v].key /\ r.state = made[v].state /\ r.fut = made[v].fut
      /\ r.known = FALSE /\ r.proc = p
  BY <1>1 DEF Slots
<1> HIDE DEF r
<1>4. made' \in [Worker -> Slots] /\ made'[v] = r /\ \A w \in Worker \ {v} : made'[w] = made[w]
  BY <1>2, <1>3 DEF LifeTyped
<1>5. /\ named' \in [PoolKey -> Worker \cup {NoSlot}]
      /\ \A k \in PoolKey : named'[k] = IF k = KeyOf(v) THEN NoSlot ELSE named[k]
  BY DEF EndsWorker, LifeTyped
<1> QED BY <1>2, <1>4, <1>5 DEF p

(* A worker that leaves the table of the pool.                             *)
LEMMA PoppedFacts ==
  ASSUME LifeTyped, NEW v \in Worker, Popped(v)
  PROVE  /\ table' \in [PoolKey -> Worker \cup {NoSlot}]
         /\ \A k \in PoolKey : table'[k] = IF k = KeyOf(v) /\ table[k] = v THEN NoSlot ELSE table[k]
BY DEF Popped, LifeTyped

(* A call that comes in, or comes back.                                    *)
LEMMA EntersFacts ==
  ASSUME LifeTyped, NEW c \in Call, NEW k \in PoolKey, Enters(c, k)
  PROVE  /\ call' \in [Call -> Calls] /\ \A e \in Call \ {c} : call'[e] = call[e]
         /\ call'[c].pc \in {"rest", "wait", "queue"}
         /\ call'[c].pc # "rest" => call'[c].key = k
         /\ call'[c].pc = "wait" => call'[c].w \in Worker
<1> DEFINE x == [pc |-> "wait", key |-> k, w |-> table[k]]
           y == [pc |-> "queue", key |-> k, w |-> NoSlot]
<1>1. table[k] \in Worker \cup {NoSlot} BY DEF LifeTyped
<1>2. NoCall \in Calls /\ x \in Calls /\ y \in Calls BY <1>1 DEF NoCall, Calls
<1>3. \/ call' = [call EXCEPT ![c] = NoCall]
      \/ (table[k] # NoSlot /\ call' = [call EXCEPT ![c] = x])
      \/ call' = [call EXCEPT ![c] = y]
  BY DEF Enters, Loading
<1>4. CASE call' = [call EXCEPT ![c] = NoCall] BY <1>2, <1>4 DEF LifeTyped, NoCall
<1>5. CASE table[k] # NoSlot /\ call' = [call EXCEPT ![c] = x] BY <1>1, <1>2, <1>5 DEF LifeTyped
<1>6. CASE call' = [call EXCEPT ![c] = y] BY <1>2, <1>6 DEF LifeTyped
<1> QED BY <1>3, <1>4, <1>5, <1>6

(* A call of load().                                                       *)
LEMMA CallsKeeps == ASSUME LifeInv, NEW c \in Call, Load(c) PROVE LifeInv'
<1> USE SlotsNamed, CallersNamed DEF LifeInv, Leads, Up, Down, Closing
<1>1. PICK k \in PoolKey : Enters(c, k) BY DEF Load
<1>2. /\ call' \in [Call -> Calls] /\ \A e \in Call \ {c} : call'[e] = call[e]
      /\ call'[c].pc \in {"rest", "wait", "queue"}
      /\ call'[c].pc # "rest" => call'[c].key = k /\ (call'[c].pc = "wait" => call'[c].w \in Worker)
  BY <1>1, EntersFacts
<1>3. LifeTyped' BY <1>1, <1>2 DEF Load, LifeTyped, Mains
<1>4. Keyed' BY <1>1, <1>2 DEF Load, Keyed, Led, KeyOf, LifeTyped
<1>5. \A e \in Call : Led(e)' BY <1>1, <1>2 DEF Load, Keyed, Led, Fresh, KeyOf, LifeTyped, Leaves, Unled, Emptied
<1>6. Leaves' BY <1>1, <1>2 DEF Load, Leaves, Keyed, Led, KeyOf, LifeTyped
<1>7. Emptied' BY <1>1, <1>2 DEF Load, Emptied, LifeTyped, Led
<1>8. Found' BY <1>1, <1>2 DEF Load, Found, Clean, Runs, Unrecorded, Led, Keyed, Leaves, Emptied, KeyOf, LifeTyped
<1>9. Stopping' BY <1>1, <1>2 DEF Load, Stopping, Passing, Clean, Runs, Fresh, Led, Found, Emptied, Keyed, KeyOf, LifeTyped
<1>10. Unled' BY <1>1, <1>2 DEF Load, Unled, Fresh, Led, Emptied, Keyed, LifeTyped
<1> QED BY <1>3, <1>4, <1>5, <1>6, <1>7, <1>8, <1>9, <1>10

(* Its leader is through.                                                  *)
LEMMA ResolvedKeeps == ASSUME LifeInv, NEW c \in Call, Resolved(c) PROVE LifeInv'
<1> USE SlotsNamed, CallersNamed DEF LifeInv, Leads, Up, Down, Closing
<1>1. call[c].pc = "wait" /\ call[c].key \in PoolKey BY DEF Resolved, Led
<1>2. Enters(c, call[c].key) \/ call' = [call EXCEPT ![c] = NoCall] BY DEF Resolved
<1>3. /\ call' \in [Call -> Calls] /\ \A e \in Call \ {c} : call'[e] = call[e]
      /\ call'[c].pc \in {"rest", "wait", "queue"}
      /\ call'[c].pc # "rest" => call'[c].key \in PoolKey /\ (call'[c].pc = "wait" => call'[c].w \in Worker)
  <2>1. CASE Enters(c, call[c].key) BY <1>1, <2>1, EntersFacts
  <2>2. CASE call' = [call EXCEPT ![c] = NoCall] BY <2>2 DEF LifeTyped, Calls, NoCall
  <2> QED BY <1>2, <2>1, <2>2
<1>4. LifeTyped' BY <1>1, <1>2, <1>3 DEF Resolved, LifeTyped, Mains
<1>5. Keyed' BY <1>1, <1>2, <1>3 DEF Resolved, Keyed, Led, KeyOf, LifeTyped
<1>6. \A e \in Call : Led(e)' BY <1>1, <1>2, <1>3 DEF Resolved, Keyed, Led, Fresh, KeyOf, LifeTyped, Leaves, Unled, Emptied
<1>7. Leaves' BY <1>1, <1>2, <1>3 DEF Resolved, Leaves, Keyed, Led, KeyOf, LifeTyped
<1>8. Emptied' BY <1>1, <1>2, <1>3 DEF Resolved, Emptied, LifeTyped, Led
<1>9. Found' BY <1>1, <1>2, <1>3 DEF Resolved, Found, Clean, Runs, Unrecorded, Led, Keyed, Leaves, Emptied, KeyOf, LifeTyped
<1>10. Stopping' BY <1>1, <1>2, <1>3 DEF Resolved, Stopping, Passing, Clean, Runs, Fresh, Led, Found, Emptied, Keyed, KeyOf, LifeTyped
<1>11. Unled' BY <1>1, <1>2, <1>3 DEF Resolved, Unled, Fresh, Led, Emptied, Keyed, LifeTyped
<1> QED BY <1>4, <1>5, <1>6, <1>7, <1>8, <1>9, <1>10, <1>11

(* The load lock.                                                          *)
LEMMA TakesLockKeeps == ASSUME LifeInv, NEW c \in Call, TakesLock(c) PROVE LifeInv'
<1> USE SlotsNamed, CallersNamed DEF LifeInv, Leads, Up, Down, Closing
<1>1. call[c].pc = "queue" /\ latch = "nobody" /\ call[c].key \in PoolKey BY DEF TakesLock, Led, Nobody
<1>2. \A e \in Call : call[e].pc \notin {"admit"} \cup Leads BY <1>1 DEF Led
<1>3. /\ call' \in [Call -> Calls] /\ \A e \in Call \ {c} : call'[e] = call[e]
      /\ \/ call'[c].pc = "rest" /\ latch' = latch
         \/ latch' = c /\ call'[c].pc = "admit" /\ call'[c].key = call[c].key
         \/ /\ latch' = c /\ call'[c].pc = "published" /\ call'[c].key = call[c].key
            /\ table[call[c].key] # NoSlot /\ call'[c].w = table[call[c].key]
            /\ made[table[call[c].key]].fut # "none"
  <2> DEFINE o == table[call[c].key]
             x == [call[c] EXCEPT !.pc = "published", !.w = o]
             y == [call[c] EXCEPT !.pc = "admit"]
  <2>1. o \in Worker \cup {NoSlot} /\ call[c] \in Calls BY <1>1 DEF LifeTyped
  <2>2. /\ NoCall \in Calls /\ NoCall.pc = "rest" /\ x \in Calls /\ y \in Calls
        /\ x.pc = "published" /\ x.key = call[c].key /\ x.w = o
        /\ y.pc = "admit" /\ y.key = call[c].key
    BY <2>1 DEF NoCall, Calls
  <2>3. \/ call' = [call EXCEPT ![c] = NoCall] /\ latch' = latch
        \/ call' = [call EXCEPT ![c] = x] /\ latch' = c /\ Loading(o)
        \/ call' = [call EXCEPT ![c] = y] /\ latch' = c
    BY DEF TakesLock
  <2> HIDE DEF x, y
  <2> QED BY <2>2, <2>3 DEF LifeTyped, Loading
<1>4. call'[c].pc = "published" => Fresh(call'[c].w)
  BY <1>1, <1>2, <1>3 DEF Unled
<1>5. LifeTyped' BY <1>1, <1>2, <1>3, <1>4 DEF TakesLock, LifeTyped, Mains
<1>6. Keyed' BY <1>1, <1>2, <1>3, <1>4 DEF TakesLock, Keyed, Led, KeyOf, LifeTyped
<1>7. \A e \in Call : Led(e)' BY <1>1, <1>2, <1>3, <1>4 DEF TakesLock, Keyed, Led, Fresh, KeyOf, LifeTyped, Leaves, Unled, Emptied
<1>8. Leaves' BY <1>1, <1>2, <1>3, <1>4 DEF TakesLock, Leaves, Keyed, Led, KeyOf, LifeTyped
<1>9. Emptied' BY <1>1, <1>2, <1>3, <1>4 DEF TakesLock, Emptied, LifeTyped, Led
<1>10. Found' BY <1>1, <1>2, <1>3, <1>4 DEF TakesLock, Found, Clean, Runs, Unrecorded, Led, Keyed, Leaves, Emptied, KeyOf, LifeTyped
<1>11. Stopping' BY <1>1, <1>2, <1>3, <1>4 DEF TakesLock, Stopping, Passing, Clean, Runs, Fresh, Led, Found, Emptied, Keyed, KeyOf, LifeTyped
<1>12. Unled' BY <1>1, <1>2, <1>3, <1>4 DEF TakesLock, Unled, Fresh, Led, Emptied, Keyed, LifeTyped
<1> QED BY <1>5, <1>6, <1>7, <1>8, <1>9, <1>10, <1>11, <1>12

(* A load refused at the end.                                              *)
LEMMA RefusedKeeps == ASSUME LifeInv, NEW c \in Call, RefusedAtEnd(c) PROVE LifeInv'
<1> USE SlotsNamed, CallersNamed DEF LifeInv, Leads, Up, Down, Closing
<1>1. LifeTyped' BY DEF RefusedAtEnd, NoCall, Freed, Nobody, Calls, LifeTyped, Mains
<1>2. Keyed' BY DEF RefusedAtEnd, NoCall, Freed, Nobody, Keyed, Led, KeyOf, LifeTyped
<1>3. \A e \in Call : Led(e)' BY DEF RefusedAtEnd, NoCall, Freed, Nobody, Keyed, Led, Fresh, KeyOf, LifeTyped, Leaves, Unled, Emptied
<1>4. Leaves' BY DEF RefusedAtEnd, NoCall, Freed, Nobody, Leaves, Keyed, Led, KeyOf, LifeTyped
<1>5. Emptied' BY DEF RefusedAtEnd, NoCall, Freed, Nobody, Emptied, LifeTyped, Led
<1>6. Found' BY DEF RefusedAtEnd, NoCall, Freed, Nobody, Found, Clean, Runs, Unrecorded, Led, Keyed, Leaves, Emptied, KeyOf, LifeTyped
<1>7. Stopping' BY DEF RefusedAtEnd, NoCall, Freed, Nobody, Stopping, Passing, Clean, Runs, Fresh, Led, Found, Emptied, Keyed, KeyOf, LifeTyped
<1>8. Unled' BY DEF RefusedAtEnd, NoCall, Freed, Nobody, Unled, Fresh, Led, Emptied, Keyed, LifeTyped
<1> QED BY <1>1, <1>2, <1>3, <1>4, <1>5, <1>6, <1>7, <1>8

(* The slot of a load.                                                     *)
LEMMA PublishKeeps == ASSUME LifeInv, NEW c \in Call, Publish(c) PROVE LifeInv'
<1> USE SlotsNamed, CallersNamed DEF LifeInv, Leads, Up, Down, Closing
<1>1. call[c].pc = "admit" /\ call[c].key \in PoolKey /\ latch = c BY DEF Publish, Led
<1>2. PICK w \in Worker :
        /\ made[w] = Unmade
        /\ made' = [made EXCEPT ![w] = [Unmade EXCEPT !.key = call[c].key, !.state = "loading", !.fut = "pending"]]
        /\ table' = [table EXCEPT ![call[c].key] = w]
        /\ call' = [call EXCEPT ![c].pc = "published", ![c].w = w]
        /\ crossed' = IF Leaving(call[c].key) = {} THEN crossed ELSE crossed \cup Leaving(call[c].key) \cup {w}
  BY DEF Publish
<1>3. /\ made' \in [Worker -> Slots] /\ \A v \in Worker \ {w} : made'[v] = made[v]
      /\ made'[w].key = call[c].key /\ made'[w].state = "loading" /\ made'[w].fut = "pending"
      /\ made'[w].proc = "none" /\ made'[w].known = FALSE
  <2> DEFINE r == [Unmade EXCEPT !.key = call[c].key, !.state = "loading", !.fut = "pending"]
  <2>1. Unmade \in Slots /\ Unmade.proc = "none" /\ Unmade.known = FALSE BY DEF Unmade, Slots
  <2>2. /\ r \in Slots /\ r.key = call[c].key /\ r.state = "loading" /\ r.fut = "pending"
        /\ r.proc = "none" /\ r.known = FALSE
    BY <1>1, <2>1 DEF Slots
  <2> HIDE DEF r
  <2> QED BY <1>2, <2>2 DEF LifeTyped, r
<1>4. /\ call' \in [Call -> Calls] /\ \A e \in Call \ {c} : call'[e] = call[e]
      /\ call'[c].pc = "published" /\ call'[c].w = w /\ call'[c].key = call[c].key
  BY <1>1, <1>2 DEF LifeTyped, Calls
<1>5. /\ made[w].state = "none" /\ made[w].proc = "none" /\ made[w].fut = "none"
      /\ \A k \in PoolKey : table[k] # w /\ table'[k] = (IF k = call[c].key THEN w ELSE table[k])
      /\ sweep # w /\ \A e \in Call : call[e].pc \notin Leads
  BY <1>1, <1>2 DEF LifeTyped, Keyed, Leaves, Led, Unmade
<1>6. LifeTyped' BY <1>1, <1>2, <1>3, <1>4, <1>5 DEF Publish, Leaving, LifeTyped, Mains
<1>7. Keyed'
  BY <1>1, <1>2, <1>3, <1>5 DEF Keyed, KeyOf, LifeTyped
<1>8. \A e \in Call : Led(e)' BY <1>1, <1>2, <1>3, <1>4, <1>5 DEF Publish, Leaving, Unmade, Keyed, Led, Fresh, KeyOf, LifeTyped, Leaves, Unled, Emptied
<1>9. Leaves' BY <1>1, <1>2, <1>3, <1>4, <1>5 DEF Publish, Leaving, Unmade, Leaves, Keyed, Led, KeyOf, LifeTyped
<1>10. Emptied' BY <1>1, <1>2, <1>3, <1>4, <1>5 DEF Publish, Leaving, Unmade, Emptied, LifeTyped, Led
<1>11. Found' BY <1>1, <1>2, <1>3, <1>4, <1>5 DEF Publish, Leaving, Unmade, Found, Clean, Runs, Unrecorded, Led, Keyed, Leaves, Emptied, KeyOf, LifeTyped
<1>12. Stopping' BY <1>1, <1>2, <1>3, <1>4, <1>5 DEF Publish, Leaving, Unmade, Stopping, Passing, Clean, Runs, Fresh, Led, Found, Emptied, Keyed, KeyOf, LifeTyped
<1>13. Unled' BY <1>1, <1>2, <1>3, <1>4, <1>5 DEF Publish, Leaving, Unmade, Unled, Fresh, Led, Emptied, Keyed, LifeTyped
<1> QED BY <1>6, <1>7, <1>8, <1>9, <1>10, <1>11, <1>12, <1>13

(* Its process.                                                            *)
LEMMA SpawnsKeeps == ASSUME LifeInv, NEW c \in Call, Spawns(c) PROVE LifeInv'
<1> USE SlotsNamed, CallersNamed DEF LifeInv, Leads, Up, Down, Closing
<1>1. /\ call[c].pc = "published" /\ call[c].w \in Worker /\ latch = c /\ KeyOf(call[c].w) \in PoolKey
      /\ Fresh(call[c].w)
  BY DEF Spawns, Led
<1>2. /\ made' \in [Worker -> Slots] /\ \A v \in Worker \ {call[c].w} : made'[v] = made[v]
      /\ made'[call[c].w].key = made[call[c].w].key /\ made'[call[c].w].state = made[call[c].w].state
      /\ made'[call[c].w].fut = made[call[c].w].fut /\ made'[call[c].w].known = made[call[c].w].known
      /\ made'[call[c].w].proc = "runs"
  <2> DEFINE x == made[call[c].w]
             r == [x EXCEPT !.proc = "runs", !.socket = TRUE]
  <2>1. x \in Slots BY <1>1 DEF LifeTyped
  <2>2. /\ r \in Slots /\ r.key = x.key /\ r.state = x.state /\ r.fut = x.fut /\ r.known = x.known
        /\ r.proc = "runs"
    BY <2>1 DEF Slots
  <2>3. made' = [made EXCEPT ![call[c].w] = r] BY DEF Spawns
  <2> HIDE DEF r
  <2> QED BY <1>1, <2>2, <2>3 DEF LifeTyped
<1>3. /\ call' \in [Call -> Calls] /\ \A e \in Call \ {c} : call'[e] = call[e]
      /\ call'[c].pc = "spawn" /\ call'[c].w = call[c].w /\ call'[c].key = call[c].key
  BY DEF Spawns, Goes, LifeTyped, Calls
<1>4. \A e \in Call \ {c} : call[e].pc \notin {"admit"} \cup Leads BY <1>1 DEF Led
<1>5. LifeTyped' BY <1>1, <1>2, <1>3, <1>4 DEF Spawns, LifeTyped, Mains
<1>6. Keyed' BY <1>1, <1>2, <1>3, <1>4 DEF Spawns, Goes, Keyed, Led, KeyOf, LifeTyped
<1>7. \A e \in Call : Led(e)' BY <1>1, <1>2, <1>3, <1>4 DEF Spawns, Goes, Keyed, Led, Fresh, KeyOf, LifeTyped, Leaves, Unled, Emptied
<1>8. Leaves' BY <1>1, <1>2, <1>3, <1>4 DEF Spawns, Goes, Leaves, Keyed, Led, KeyOf, LifeTyped
<1>9. Emptied' BY <1>1, <1>2, <1>3, <1>4 DEF Spawns, Goes, Emptied, LifeTyped, Led
<1>10. Found' BY <1>1, <1>2, <1>3, <1>4 DEF Spawns, Goes, Found, Clean, Runs, Unrecorded, Led, Keyed, Leaves, Emptied, KeyOf, LifeTyped
<1>11. Stopping' BY <1>1, <1>2, <1>3, <1>4 DEF Spawns, Goes, Stopping, Passing, Clean, Runs, Fresh, Led, Found, Emptied, Keyed, KeyOf, LifeTyped
<1>12. Unled' BY <1>1, <1>2, <1>3, <1>4 DEF Spawns, Goes, Unled, Fresh, Led, Emptied, Keyed, LifeTyped
<1> QED BY <1>5, <1>6, <1>7, <1>8, <1>9, <1>10, <1>11, <1>12

(* Its manifest.                                                           *)
LEMMA RecordedKeeps == ASSUME LifeInv, NEW c \in Call, Recorded(c) PROVE LifeInv'
<1> USE SlotsNamed, CallersNamed DEF LifeInv, Leads, Up, Down, Closing
<1>1. /\ call[c].pc = "spawn" /\ call[c].w \in Worker /\ latch = c /\ call[c].key \in PoolKey
      /\ KeyOf(call[c].w) = call[c].key
  BY DEF Recorded, Led
<1>2. /\ made' \in [Worker -> Slots] /\ \A v \in Worker \ {call[c].w} : made'[v] = made[v]
      /\ made'[call[c].w].key = made[call[c].w].key /\ made'[call[c].w].state = made[call[c].w].state
      /\ made'[call[c].w].fut \in {made[call[c].w].fut, "failed"} /\ made'[call[c].w].known = TRUE
      /\ made'[call[c].w].proc = made[call[c].w].proc
  <2> DEFINE x == made[call[c].w]
             f == IF x.socket THEN x.fut ELSE "failed"
             r == [x EXCEPT !.known = TRUE, !.fut = f]
  <2>1. x \in Slots /\ f \in {x.fut, "failed"} BY <1>1 DEF LifeTyped
  <2>3. made' = [made EXCEPT ![call[c].w] = r] BY DEF Recorded
  <2> HIDE DEF f
  <2>2. /\ r \in Slots /\ r.key = x.key /\ r.state = x.state /\ r.fut = f /\ r.known = TRUE
        /\ r.proc = x.proc
    BY <2>1 DEF Slots
  <2> HIDE DEF r
  <2> QED BY <1>1, <2>1, <2>2, <2>3 DEF LifeTyped
<1>3. /\ call' \in [Call -> Calls] /\ \A e \in Call \ {c} : call'[e] = call[e]
      /\ call'[c].pc \in {"load", "close"} /\ call'[c].w = call[c].w /\ call'[c].key = call[c].key
  BY DEF Recorded, Goes, LifeTyped, Calls
<1>4. \A e \in Call \ {c} : call[e].pc \notin {"admit"} \cup Leads BY <1>1 DEF Led
<1>5. \A k \in PoolKey : named'[k] = IF k = call[c].key THEN call[c].w ELSE named[k]
  BY DEF Recorded, LifeTyped
<1>6. LifeTyped' BY <1>1, <1>2, <1>3, <1>4, <1>5 DEF Recorded, LifeTyped, Mains
<1>7. Keyed' BY <1>1, <1>2, <1>3, <1>4, <1>5 DEF Recorded, Keyed, Led, KeyOf, LifeTyped
<1>8. \A e \in Call : Led(e)' BY <1>1, <1>2, <1>3, <1>4, <1>5 DEF Recorded, Keyed, Led, Fresh, KeyOf, LifeTyped, Leaves, Unled, Emptied
<1>9. Leaves' BY <1>1, <1>2, <1>3, <1>4, <1>5 DEF Recorded, Leaves, Keyed, Led, KeyOf, LifeTyped
<1>10. Emptied' BY <1>1, <1>2, <1>3, <1>4, <1>5 DEF Recorded, Emptied, LifeTyped, Led
<1>11. Found' BY <1>1, <1>2, <1>3, <1>4, <1>5 DEF Recorded, Found, Clean, Runs, Unrecorded, Led, Keyed, Leaves, Emptied, KeyOf, LifeTyped
<1>12. Stopping' BY <1>1, <1>2, <1>3, <1>4, <1>5 DEF Recorded, Stopping, Passing, Clean, Runs, Fresh, Led, Found, Emptied, Keyed, KeyOf, LifeTyped
<1>13. Unled' BY <1>1, <1>2, <1>3, <1>4, <1>5 DEF Recorded, Unled, Fresh, Led, Emptied, Keyed, LifeTyped
<1> QED BY <1>6, <1>7, <1>8, <1>9, <1>10, <1>11, <1>12, <1>13

(* The model is loaded.                                                    *)
LEMMA AnsweredKeeps == ASSUME LifeInv, NEW c \in Call, Answered(c) PROVE LifeInv'
<1> USE SlotsNamed, CallersNamed DEF LifeInv, Leads, Up, Down, Closing
<1>1. call[c].pc = "load" /\ call[c].w \in Worker /\ latch = c BY DEF Answered, Led
<1>2. /\ made' \in [Worker -> Slots] /\ \A v \in Worker \ {call[c].w} : made'[v] = made[v]
      /\ made'[call[c].w].key = made[call[c].w].key /\ made'[call[c].w].state = "ready"
      /\ made'[call[c].w].fut = "none" /\ made'[call[c].w].known = made[call[c].w].known
      /\ made'[call[c].w].proc = made[call[c].w].proc
  <2> DEFINE x == made[call[c].w]
             r == [x EXCEPT !.state = "ready", !.fut = "none"]
  <2>1. x \in Slots BY <1>1 DEF LifeTyped
  <2>2. /\ r \in Slots /\ r.key = x.key /\ r.state = "ready" /\ r.fut = "none" /\ r.known = x.known
        /\ r.proc = x.proc
    BY <2>1 DEF Slots
  <2>3. made' = [made EXCEPT ![call[c].w] = r] BY DEF Answered
  <2> HIDE DEF r
  <2> QED BY <1>1, <2>2, <2>3 DEF LifeTyped
<1>3. /\ call' \in [Call -> Calls] /\ \A e \in Call \ {c} : call'[e] = call[e]
      /\ call'[c].pc = "rest"
  BY DEF Answered, NoCall, LifeTyped, Calls
<1>4. \A e \in Call \ {c} : call[e].pc \notin {"admit"} \cup Leads BY <1>1 DEF Led
<1>5. LifeTyped' BY <1>1, <1>2, <1>3, <1>4 DEF Answered, Freed, Nobody, LifeTyped, Mains
<1>6. Keyed' BY <1>1, <1>2, <1>3, <1>4 DEF Answered, Freed, Nobody, Keyed, Led, KeyOf, LifeTyped
<1>7. \A e \in Call : Led(e)' BY <1>1, <1>2, <1>3, <1>4 DEF Answered, Freed, Nobody, Keyed, Led, Fresh, KeyOf, LifeTyped, Leaves, Unled, Emptied
<1>8. Leaves' BY <1>1, <1>2, <1>3, <1>4 DEF Answered, Freed, Nobody, Leaves, Keyed, Led, KeyOf, LifeTyped
<1>9. Emptied' BY <1>1, <1>2, <1>3, <1>4 DEF Answered, Freed, Nobody, Emptied, LifeTyped, Led
<1>10. Found' BY <1>1, <1>2, <1>3, <1>4 DEF Answered, Freed, Nobody, Found, Clean, Runs, Unrecorded, Led, Keyed, Leaves, Emptied, KeyOf, LifeTyped
<1>11. Stopping' BY <1>1, <1>2, <1>3, <1>4 DEF Answered, Freed, Nobody, Stopping, Passing, Clean, Runs, Fresh, Led, Found, Emptied, Keyed, KeyOf, LifeTyped
<1>12. Unled' BY <1>1, <1>2, <1>3, <1>4 DEF Answered, Freed, Nobody, Unled, Fresh, Led, Emptied, Keyed, LifeTyped
<1> QED BY <1>5, <1>6, <1>7, <1>8, <1>9, <1>10, <1>11, <1>12

(* The load fails.                                                         *)
LEMMA LoadBreaksKeeps == ASSUME LifeInv, NEW c \in Call, LoadBreaks(c) PROVE LifeInv'
<1> USE SlotsNamed, CallersNamed DEF LifeInv, Leads, Up, Down, Closing
<1>1. call[c].pc = "load" /\ call[c].w \in Worker /\ latch = c /\ call[c].key \in PoolKey BY DEF LoadBreaks, Led
<1>2. /\ made' \in [Worker -> Slots] /\ \A v \in Worker \ {call[c].w} : made'[v] = made[v]
      /\ made'[call[c].w].key = made[call[c].w].key /\ made'[call[c].w].state = made[call[c].w].state
      /\ made'[call[c].w].fut = "failed" /\ made'[call[c].w].known = made[call[c].w].known
      /\ made'[call[c].w].proc = made[call[c].w].proc
  <2> DEFINE x == made[call[c].w]
             r == [x EXCEPT !.fut = "failed"]
  <2>1. x \in Slots BY <1>1 DEF LifeTyped
  <2>2. /\ r \in Slots /\ r.key = x.key /\ r.state = x.state /\ r.fut = "failed" /\ r.known = x.known
        /\ r.proc = x.proc
    BY <2>1 DEF Slots
  <2>3. made' = [made EXCEPT ![call[c].w] = r] BY DEF LoadBreaks
  <2> HIDE DEF r
  <2> QED BY <1>1, <2>2, <2>3 DEF LifeTyped
<1>3. /\ call' \in [Call -> Calls] /\ \A e \in Call \ {c} : call'[e] = call[e]
      /\ call'[c].pc = "close" /\ call'[c].w = call[c].w /\ call'[c].key = call[c].key
  BY DEF LoadBreaks, Goes, LifeTyped, Calls
<1>4. \A e \in Call \ {c} : call[e].pc \notin {"admit"} \cup Leads BY <1>1 DEF Led
<1>5. LifeTyped' BY <1>1, <1>2, <1>3, <1>4 DEF LoadBreaks, LifeTyped, Mains
<1>6. Keyed' BY <1>1, <1>2, <1>3, <1>4 DEF LoadBreaks, Keyed, Led, KeyOf, LifeTyped
<1>7. \A e \in Call : Led(e)' BY <1>1, <1>2, <1>3, <1>4 DEF LoadBreaks, Keyed, Led, Fresh, KeyOf, LifeTyped, Leaves, Unled, Emptied
<1>8. Leaves' BY <1>1, <1>2, <1>3, <1>4 DEF LoadBreaks, Leaves, Keyed, Led, KeyOf, LifeTyped
<1>9. Emptied' BY <1>1, <1>2, <1>3, <1>4 DEF LoadBreaks, Emptied, LifeTyped, Led
<1>10. Found' BY <1>1, <1>2, <1>3, <1>4 DEF LoadBreaks, Found, Clean, Runs, Unrecorded, Led, Keyed, Leaves, Emptied, KeyOf, LifeTyped
<1>11. Stopping' BY <1>1, <1>2, <1>3, <1>4 DEF LoadBreaks, Stopping, Passing, Clean, Runs, Fresh, Led, Found, Emptied, Keyed, KeyOf, LifeTyped
<1>12. Unled' BY <1>1, <1>2, <1>3, <1>4 DEF LoadBreaks, Unled, Fresh, Led, Emptied, Keyed, LifeTyped
<1> QED BY <1>5, <1>6, <1>7, <1>8, <1>9, <1>10, <1>11, <1>12

(* A failed load takes its slot away.                                      *)
LEMMA ClosesKeeps == ASSUME LifeInv, NEW c \in Call, Closes(c) PROVE LifeInv'
<1> USE SlotsNamed, CallersNamed DEF LifeInv, Leads, Up, Down, Closing
<1>1. /\ call[c].pc = "close" /\ call[c].w \in Worker /\ latch = c /\ call[c].key \in PoolKey
      /\ KeyOf(call[c].w) = call[c].key
  BY DEF Closes, Led
<1>2. /\ made' \in [Worker -> Slots] /\ named' \in [PoolKey -> Worker \cup {NoSlot}]
      /\ \A w \in Worker \ {call[c].w} : made'[w] = made[w]
      /\ made'[call[c].w].key = made[call[c].w].key /\ made'[call[c].w].state = made[call[c].w].state
      /\ made'[call[c].w].fut = made[call[c].w].fut /\ made'[call[c].w].known = FALSE
      /\ made'[call[c].w].proc = (IF made[call[c].w].known THEN "ended" ELSE made[call[c].w].proc)
      /\ \A k \in PoolKey : named'[k] = IF k = KeyOf(call[c].w) THEN NoSlot ELSE named[k]
  BY <1>1, EndsFacts DEF Closes
<1>3. /\ table' \in [PoolKey -> Worker \cup {NoSlot}]
      /\ \A k \in PoolKey : table'[k] = IF k = call[c].key /\ table[k] = call[c].w THEN NoSlot ELSE table[k]
  BY <1>1, PoppedFacts DEF Closes
<1>4. /\ call' \in [Call -> Calls] /\ \A e \in Call \ {c} : call'[e] = call[e]
      /\ call'[c].pc = "rest"
  BY DEF Closes, NoCall, LifeTyped, Calls
<1>5. \A e \in Call \ {c} : call[e].pc \notin {"admit"} \cup Leads BY <1>1 DEF Led
<1>6. made'[call[c].w].proc = "runs" => call[c].w \in strays
  BY <1>1, <1>2, <1>5 DEF Found, Runs, Unrecorded
<1>7. LifeTyped' BY <1>1, <1>2, <1>3, <1>4, <1>5, <1>6 DEF Closes, Freed, Nobody, LifeTyped, Mains
<1>8. Keyed' BY <1>1, <1>2, <1>3, <1>4, <1>5, <1>6 DEF Closes, Freed, Nobody, Keyed, Led, KeyOf, LifeTyped
<1>9. \A e \in Call : Led(e)' BY <1>1, <1>2, <1>3, <1>4, <1>5, <1>6 DEF Closes, Freed, Nobody, Keyed, Led, Fresh, KeyOf, LifeTyped, Leaves, Unled, Emptied
<1>10. Leaves' BY <1>1, <1>2, <1>3, <1>4, <1>5, <1>6 DEF Closes, Freed, Nobody, Leaves, Keyed, Led, KeyOf, LifeTyped
<1>11. Emptied' BY <1>1, <1>2, <1>3, <1>4, <1>5, <1>6 DEF Closes, Freed, Nobody, Emptied, LifeTyped, Led
<1>12. Found' BY <1>1, <1>2, <1>3, <1>4, <1>5, <1>6 DEF Closes, Freed, Nobody, Found, Clean, Runs, Unrecorded, Led, Keyed, Leaves, Emptied, KeyOf, LifeTyped
<1>13. Stopping' BY <1>1, <1>2, <1>3, <1>4, <1>5, <1>6 DEF Closes, Freed, Nobody, Stopping, Passing, Clean, Runs, Fresh, Led, Found, Emptied, Keyed, KeyOf, LifeTyped
<1>14. Unled' BY <1>1, <1>2, <1>3, <1>4, <1>5, <1>6 DEF Closes, Freed, Nobody, Unled, Fresh, Led, Emptied, Keyed, LifeTyped
<1> QED BY <1>7, <1>8, <1>9, <1>10, <1>11, <1>12, <1>13, <1>14

(* A call cancelled before it has a process.                               *)
LEMMA WithdrawnKeeps == ASSUME LifeInv, NEW c \in Call, call[c].pc \in {"wait", "queue", "admit", "published"},
         call' = [call EXCEPT ![c] = NoCall], Freed(c),
         UNCHANGED <<made, main, table, named, sweep, todo, passed, crossed, strays, ends>>
  PROVE LifeInv'
<1> USE SlotsNamed, CallersNamed DEF LifeInv, Leads, Up, Down, Closing
<1>1. /\ call' \in [Call -> Calls] /\ \A e \in Call \ {c} : call'[e] = call[e]
      /\ call'[c].pc = "rest"
  BY DEF NoCall, LifeTyped, Calls
<1>2. \A e \in Call \ {c} : latch = c => call[e].pc \notin {"admit"} \cup Leads BY DEF Led
<1>3. \A e \in Call \ {c} : call[e].pc \in {"admit"} \cup Leads => latch' = latch BY DEF Led, Freed
<1>4. UNCHANGED <<made, main, table, named, sweep, todo, passed, crossed, strays, ends>> OBVIOUS
<1>5. LifeTyped' BY <1>1, <1>2, <1>3, <1>4 DEF Freed, Nobody, LifeTyped, Mains
<1>6. Keyed' BY <1>1, <1>2, <1>3, <1>4 DEF Freed, Nobody, Keyed, Led, KeyOf, LifeTyped
<1>7. \A e \in Call : Led(e)' BY <1>1, <1>2, <1>3, <1>4 DEF Freed, Nobody, Keyed, Led, Fresh, KeyOf, LifeTyped, Leaves, Unled, Emptied
<1>8. Leaves' BY <1>1, <1>2, <1>3, <1>4 DEF Freed, Nobody, Leaves, Keyed, Led, KeyOf, LifeTyped
<1>9. Emptied' BY <1>1, <1>2, <1>3, <1>4 DEF Freed, Nobody, Emptied, LifeTyped, Led
<1>10. Found' BY <1>1, <1>2, <1>3, <1>4 DEF Freed, Nobody, Found, Clean, Runs, Unrecorded, Led, Keyed, Leaves, Emptied, KeyOf, LifeTyped
<1>11. Stopping' BY <1>1, <1>2, <1>3, <1>4 DEF Freed, Nobody, Stopping, Passing, Clean, Runs, Fresh, Led, Found, Emptied, Keyed, KeyOf, LifeTyped
<1>12. Unled' BY <1>1, <1>2, <1>3, <1>4 DEF Freed, Nobody, Unled, Fresh, Led, Emptied, Keyed, LifeTyped
<1> QED BY <1>5, <1>6, <1>7, <1>8, <1>9, <1>10, <1>11, <1>12

(* A call cancelled with a slot of its own.                                *)
LEMMA BrokenOffKeeps == ASSUME LifeInv, NEW c \in Call, call[c].pc \in {"published", "spawn", "load"},
         made' = [made EXCEPT ![call[c].w] =
           [@ EXCEPT !.fut = "cancelled",
                     !.proc = IF call[c].pc = "spawn" THEN "ended" ELSE made[call[c].w].proc]],
         Goes(c, "close"),
         UNCHANGED <<latch, main, table, named, sweep, todo, passed, crossed, strays, ends>>
  PROVE LifeInv'
<1> USE SlotsNamed, CallersNamed DEF LifeInv, Leads, Up, Down, Closing
<1>1. call[c].w \in Worker /\ latch = c /\ call[c].key \in PoolKey BY DEF Led
<1>2. /\ made' \in [Worker -> Slots] /\ \A v \in Worker \ {call[c].w} : made'[v] = made[v]
      /\ made'[call[c].w].key = made[call[c].w].key /\ made'[call[c].w].state = made[call[c].w].state
      /\ made'[call[c].w].fut = "cancelled" /\ made'[call[c].w].known = made[call[c].w].known
      /\ made'[call[c].w].proc = (IF call[c].pc = "spawn" THEN "ended" ELSE made[call[c].w].proc)
  <2> DEFINE x == made[call[c].w]
             p == IF call[c].pc = "spawn" THEN "ended" ELSE x.proc
             r == [x EXCEPT !.fut = "cancelled", !.proc = p]
  <2>1. x \in Slots /\ p \in {"none", "runs", "ended"} BY <1>1 DEF LifeTyped, Slots
  <2>3. made' = [made EXCEPT ![call[c].w] = r] OBVIOUS
  <2> HIDE DEF p
  <2>2. /\ r \in Slots /\ r.key = x.key /\ r.state = x.state /\ r.fut = "cancelled"
        /\ r.known = x.known /\ r.proc = p
    BY <2>1 DEF Slots
  <2> HIDE DEF r
  <2> QED BY <1>1, <2>2, <2>3 DEF LifeTyped, p
<1>3. /\ call' \in [Call -> Calls] /\ \A e \in Call \ {c} : call'[e] = call[e]
      /\ call'[c].pc = "close" /\ call'[c].w = call[c].w /\ call'[c].key = call[c].key
  BY DEF Goes, LifeTyped, Calls
<1>4. \A e \in Call \ {c} : call[e].pc \notin {"admit"} \cup Leads BY <1>1 DEF Led
<1>5. UNCHANGED <<latch, main, table, named, sweep, todo, passed, crossed, strays, ends>> OBVIOUS
<1>6. LifeTyped' BY <1>1, <1>2, <1>3, <1>4, <1>5 DEF Goes, LifeTyped, Mains
<1>7. Keyed' BY <1>1, <1>2, <1>3, <1>4, <1>5 DEF Goes, Keyed, Led, KeyOf, LifeTyped
<1>8. \A e \in Call : Led(e)' BY <1>1, <1>2, <1>3, <1>4, <1>5 DEF Goes, Keyed, Led, Fresh, KeyOf, LifeTyped, Leaves, Unled, Emptied
<1>9. Leaves' BY <1>1, <1>2, <1>3, <1>4, <1>5 DEF Goes, Leaves, Keyed, Led, KeyOf, LifeTyped
<1>10. Emptied' BY <1>1, <1>2, <1>3, <1>4, <1>5 DEF Goes, Emptied, LifeTyped, Led
<1>11. Found' BY <1>1, <1>2, <1>3, <1>4, <1>5 DEF Goes, Found, Clean, Runs, Unrecorded, Led, Keyed, Leaves, Emptied, KeyOf, LifeTyped
<1>12. Stopping' BY <1>1, <1>2, <1>3, <1>4, <1>5 DEF Goes, Stopping, Passing, Clean, Runs, Fresh, Led, Found, Emptied, Keyed, KeyOf, LifeTyped
<1>13. Unled' BY <1>1, <1>2, <1>3, <1>4, <1>5 DEF Goes, Unled, Fresh, Led, Emptied, Keyed, LifeTyped
<1> QED BY <1>6, <1>7, <1>8, <1>9, <1>10, <1>11, <1>12, <1>13

(* The reaper.                                                             *)
LEMMA SweepsKeeps == ASSUME LifeInv, Sweeps PROVE LifeInv'
<1> USE SlotsNamed, CallersNamed DEF LifeInv, Leads, Up, Down, Closing
<1>1. LifeTyped' BY DEF Sweeps, IsReady, Slots, LifeTyped, Mains
<1>2. Keyed' BY DEF Sweeps, IsReady, Keyed, Led, KeyOf, LifeTyped
<1>3. \A e \in Call : Led(e)' BY DEF Sweeps, IsReady, Keyed, Led, Fresh, KeyOf, LifeTyped, Leaves, Unled, Emptied
<1>4. Leaves' BY DEF Sweeps, IsReady, Leaves, Keyed, Led, KeyOf, LifeTyped
<1>5. Emptied' BY DEF Sweeps, IsReady, Emptied, LifeTyped, Led
<1>6. Found' BY DEF Sweeps, IsReady, Found, Clean, Runs, Unrecorded, Led, Keyed, Leaves, Emptied, KeyOf, LifeTyped
<1>7. Stopping' BY DEF Sweeps, IsReady, Stopping, Passing, Clean, Runs, Fresh, Led, Found, Emptied, Keyed, KeyOf, LifeTyped
<1>8. Unled' BY DEF Sweeps, IsReady, Unled, Fresh, Led, Emptied, Keyed, LifeTyped
<1> QED BY <1>1, <1>2, <1>3, <1>4, <1>5, <1>6, <1>7, <1>8

(* An eviction ends.                                                       *)
LEMMA SweptKeeps == ASSUME LifeInv, Swept PROVE LifeInv'
<1> USE SlotsNamed, CallersNamed DEF LifeInv, Leads, Up, Down, Closing
<1>1. sweep # NoSlot /\ sweep \in Worker BY DEF Swept, LifeTyped
<1>2. /\ made' \in [Worker -> Slots] /\ named' \in [PoolKey -> Worker \cup {NoSlot}]
      /\ \A w \in Worker \ {sweep} : made'[w] = made[w]
      /\ made'[sweep].key = made[sweep].key /\ made'[sweep].state = made[sweep].state
      /\ made'[sweep].fut = made[sweep].fut /\ made'[sweep].known = FALSE
      /\ made'[sweep].proc = (IF made[sweep].known THEN "ended" ELSE made[sweep].proc)
      /\ \A k \in PoolKey : named'[k] = IF k = KeyOf(sweep) THEN NoSlot ELSE named[k]
  BY <1>1, EndsFacts DEF Swept
<1>3. /\ table' \in [PoolKey -> Worker \cup {NoSlot}]
      /\ \A k \in PoolKey : table'[k] = IF k = KeyOf(sweep) /\ table[k] = sweep THEN NoSlot ELSE table[k]
  BY <1>1, PoppedFacts DEF Swept
<1>4. KeyOf(sweep) \in PoolKey /\ made[sweep].state # "none" BY <1>1 DEF Leaves, Keyed
<1>5. sweep' = NoSlot /\ UNCHANGED <<main, latch, call, todo, passed, crossed, strays, ends>> BY DEF Swept
<1>6. made'[sweep].proc = "runs" => sweep \in strays
  BY <1>1, <1>2 DEF Found, Runs, Unrecorded, Leaves, Led
<1>7. LifeTyped' BY <1>1, <1>2, <1>3, <1>4, <1>5, <1>6 DEF Swept, LifeTyped, Mains
<1>8. Keyed'
 BY <1>1, <1>2, <1>3, <1>4 DEF Keyed, KeyOf, LifeTyped
<1>9. \A e \in Call : Led(e)' BY <1>1, <1>2, <1>3, <1>4, <1>5, <1>6 DEF Swept, Keyed, Led, Fresh, KeyOf, LifeTyped, Leaves, Unled, Emptied
<1>10. Leaves' BY <1>1, <1>2, <1>3, <1>4, <1>5, <1>6 DEF Swept, Leaves, Keyed, Led, KeyOf, LifeTyped
<1>11. Emptied' BY <1>1, <1>2, <1>3, <1>4, <1>5, <1>6 DEF Swept, Emptied, LifeTyped, Led
<1>12. Found' BY <1>1, <1>2, <1>3, <1>4, <1>5, <1>6 DEF Swept, Found, Clean, Runs, Unrecorded, Led, Keyed, Leaves, Emptied, KeyOf, LifeTyped
<1>13. Stopping' BY <1>1, <1>2, <1>3, <1>4, <1>5, <1>6 DEF Swept, Stopping, Passing, Clean, Runs, Fresh, Led, Found, Emptied, Keyed, KeyOf, LifeTyped
<1>14. Unled' BY <1>1, <1>2, <1>3, <1>4, <1>5, <1>6 DEF Swept, Unled, Fresh, Led, Emptied, Keyed, LifeTyped
<1> QED BY <1>7, <1>8, <1>9, <1>10, <1>11, <1>12, <1>13, <1>14

(* The last lines begin.                                                   *)
LEMMA QuitsKeeps == ASSUME LifeInv, Quits PROVE LifeInv'
<1> USE SlotsNamed, CallersNamed DEF LifeInv, Leads, Up, Down, Closing
<1>1. ends + 1 \in 0..MaxEnds BY EndsCounted DEF Quits, LifeTyped
<1>2. LifeTyped' BY <1>1 DEF Quits, LifeTyped, Mains
<1>3. Keyed' BY <1>1 DEF Quits, Keyed, Led, KeyOf, LifeTyped
<1>4. \A e \in Call : Led(e)' BY <1>1 DEF Quits, Keyed, Led, Fresh, KeyOf, LifeTyped, Leaves, Unled, Emptied
<1>5. Leaves' BY <1>1 DEF Quits, Leaves, Keyed, Led, KeyOf, LifeTyped
<1>6. Emptied' BY <1>1 DEF Quits, Emptied, LifeTyped, Led
<1>7. Found' BY <1>1 DEF Quits, Found, Clean, Runs, Unrecorded, Led, Keyed, Leaves, Emptied, KeyOf, LifeTyped
<1>8. Stopping' BY <1>1 DEF Quits, Stopping, Passing, Clean, Runs, Fresh, Led, Found, Emptied, Keyed, KeyOf, LifeTyped
<1>9. Unled' BY <1>1 DEF Quits, Unled, Fresh, Led, Emptied, Keyed, LifeTyped
<1> QED BY <1>2, <1>3, <1>4, <1>5, <1>6, <1>7, <1>8, <1>9

(* unload() has the load lock.                                             *)
LEMMA DrainsKeeps == ASSUME LifeInv, Drains PROVE LifeInv'
<1> USE SlotsNamed, CallersNamed DEF LifeInv, Leads, Up, Down, Closing
<1>1. /\ main = "drain" /\ latch = "nobody" /\ main' = "unload" /\ latch' = "main" /\ todo' = InTable
      /\ UNCHANGED <<table, named, call, sweep, passed, crossed, strays, ends>>
  BY DEF Drains, Nobody
<1>2. /\ made' \in [Worker -> Slots] /\ \A w \in Worker :
           /\ made'[w].key = made[w].key /\ made'[w].fut = made[w].fut /\ made'[w].proc = made[w].proc
           /\ made'[w].known = made[w].known
           /\ made'[w].state = (IF w \in InTable THEN "evicting" ELSE made[w].state)
  <2> DEFINE e(w) == [made[w] EXCEPT !.state = "evicting"]
  <2>1. \A w \in Worker : made[w] \in Slots BY DEF LifeTyped
  <2>2. \A w \in Worker : /\ e(w) \in Slots /\ e(w).key = made[w].key /\ e(w).fut = made[w].fut
                          /\ e(w).proc = made[w].proc /\ e(w).known = made[w].known
                          /\ e(w).state = "evicting"
    BY <2>1 DEF Slots
  <2>3. made' = [w \in Worker |-> IF w \in InTable THEN e(w) ELSE made[w]] BY DEF Drains
  <2> HIDE DEF e
  <2> QED BY <2>1, <2>2, <2>3
<1>3. \A w \in InTable : KeyOf(w) \in PoolKey /\ table[KeyOf(w)] = w BY DEF InTable, Keyed, LifeTyped
<1>4. \A e \in Call : call[e].pc \notin {"admit"} \cup Leads BY <1>1 DEF Led
<1>5. InTable \in SUBSET Worker BY DEF InTable
<1>6. LifeTyped' BY <1>1, <1>2, <1>3, <1>4, <1>5 DEF Drains, LifeTyped, Mains
<1>7. Keyed' BY <1>1, <1>2, <1>3, <1>4, <1>5 DEF Drains, Keyed, Led, KeyOf, LifeTyped
<1>8. \A e \in Call : Led(e)' BY <1>1, <1>2, <1>3, <1>4, <1>5 DEF Drains, Keyed, Led, Fresh, KeyOf, LifeTyped, Leaves, Unled, Emptied
<1>9. Leaves' BY <1>1, <1>2, <1>3, <1>4, <1>5 DEF Drains, Leaves, Keyed, Led, KeyOf, LifeTyped
<1>10. Emptied' BY <1>1, <1>2, <1>3, <1>4, <1>5 DEF Drains, Emptied, LifeTyped, Led
<1>11. Found' BY <1>1, <1>2, <1>3, <1>4, <1>5 DEF Drains, Found, Clean, Runs, Unrecorded, Led, Keyed, Leaves, Emptied, KeyOf, LifeTyped
<1>12. Stopping' BY <1>1, <1>2, <1>3, <1>4, <1>5 DEF Drains, Stopping, Passing, Clean, Runs, Fresh, Led, Found, Emptied, Keyed, KeyOf, LifeTyped
<1>13. Unled' BY <1>1, <1>2, <1>3, <1>4, <1>5 DEF Drains, Unled, Fresh, Led, Emptied, Keyed, LifeTyped
<1> QED BY <1>6, <1>7, <1>8, <1>9, <1>10, <1>11, <1>12, <1>13

(* It stops a slot.                                                        *)
LEMMA UnloadsKeeps == ASSUME LifeInv, UnloadsSlot PROVE LifeInv'
<1> USE SlotsNamed, CallersNamed DEF LifeInv, Leads, Up, Down, Closing
<1>1. PICK v \in todo : EndsWorker(v) /\ Popped(v) /\ todo' = todo \ {v} BY DEF UnloadsSlot
<1>2. main = "unload" /\ v \in Worker /\ \A e \in Call : call[e].pc \notin {"admit"} \cup Leads
  BY DEF UnloadsSlot, LifeTyped, Leaves, Led
<1>3. /\ made' \in [Worker -> Slots] /\ named' \in [PoolKey -> Worker \cup {NoSlot}]
      /\ \A w \in Worker \ {v} : made'[w] = made[w]
      /\ made'[v].key = made[v].key /\ made'[v].state = made[v].state
      /\ made'[v].fut = made[v].fut /\ made'[v].known = FALSE
      /\ made'[v].proc = (IF made[v].known THEN "ended" ELSE made[v].proc)
      /\ \A k \in PoolKey : named'[k] = IF k = KeyOf(v) THEN NoSlot ELSE named[k]
  BY <1>1, <1>2, EndsFacts
<1>4. /\ table' \in [PoolKey -> Worker \cup {NoSlot}]
      /\ \A k \in PoolKey : table'[k] = IF k = KeyOf(v) /\ table[k] = v THEN NoSlot ELSE table[k]
  BY <1>1, <1>2, PoppedFacts
<1>5. KeyOf(v) \in PoolKey /\ table[KeyOf(v)] \in {v, NoSlot} BY <1>1, <1>2 DEF Leaves, Keyed
<1>6. made'[v].proc = "runs" => v \in strays
  BY <1>2, <1>3 DEF Found, Runs, Unrecorded
<1>7. todo' = todo \ {v} BY <1>1
<1>8. LifeTyped' BY <1>1, <1>2, <1>3, <1>4, <1>5, <1>6, <1>7 DEF UnloadsSlot, LifeTyped, Mains
<1>9. Keyed' BY <1>1, <1>2, <1>3, <1>4, <1>5, <1>6, <1>7 DEF UnloadsSlot, Keyed, Led, KeyOf, LifeTyped
<1>10. \A e \in Call : Led(e)' BY <1>1, <1>2, <1>3, <1>4, <1>5, <1>6, <1>7 DEF UnloadsSlot, Keyed, Led, Fresh, KeyOf, LifeTyped, Leaves, Unled, Emptied
<1>11. Leaves' BY <1>1, <1>2, <1>3, <1>4, <1>5, <1>6, <1>7 DEF UnloadsSlot, Leaves, Keyed, Led, KeyOf, LifeTyped
<1>12. Emptied' BY <1>1, <1>2, <1>3, <1>4, <1>5, <1>6, <1>7 DEF UnloadsSlot, Emptied, LifeTyped, Led
<1>13. Found' BY <1>1, <1>2, <1>3, <1>4, <1>5, <1>6, <1>7 DEF UnloadsSlot, Found, Clean, Runs, Unrecorded, Led, Keyed, Leaves, Emptied, KeyOf, LifeTyped
<1>14. Stopping' BY <1>1, <1>2, <1>3, <1>4, <1>5, <1>6, <1>7 DEF UnloadsSlot, Stopping, Passing, Clean, Runs, Fresh, Led, Found, Emptied, Keyed, KeyOf, LifeTyped
<1>15. Unled' BY <1>1, <1>2, <1>3, <1>4, <1>5, <1>6, <1>7 DEF UnloadsSlot, Unled, Fresh, Led, Emptied, Keyed, LifeTyped
<1> QED BY <1>8, <1>9, <1>10, <1>11, <1>12, <1>13, <1>14, <1>15

(* shutdown() refuses loads.                                               *)
LEMMA ShutsDownKeeps == ASSUME LifeInv, ShutsDown PROVE LifeInv'
<1> USE SlotsNamed, CallersNamed DEF LifeInv, Leads, Up, Down, Closing
<1>1. LifeTyped' BY DEF ShutsDown, Nobody, LifeTyped, Mains
<1>2. Keyed' BY DEF ShutsDown, Nobody, Keyed, Led, KeyOf, LifeTyped
<1>3. \A e \in Call : Led(e)' BY DEF ShutsDown, Nobody, Keyed, Led, Fresh, KeyOf, LifeTyped, Leaves, Unled, Emptied
<1>4. Leaves' BY DEF ShutsDown, Nobody, Leaves, Keyed, Led, KeyOf, LifeTyped
<1>5. Emptied' BY DEF ShutsDown, Nobody, Emptied, LifeTyped, Led
<1>6. Found' BY DEF ShutsDown, Nobody, Found, Clean, Runs, Unrecorded, Led, Keyed, Leaves, Emptied, KeyOf, LifeTyped
<1>7. Stopping' BY DEF ShutsDown, Nobody, Stopping, Passing, Clean, Runs, Fresh, Led, Found, Emptied, Keyed, KeyOf, LifeTyped
<1>8. Unled' BY DEF ShutsDown, Nobody, Unled, Fresh, Led, Emptied, Keyed, LifeTyped
<1> QED BY <1>1, <1>2, <1>3, <1>4, <1>5, <1>6, <1>7, <1>8

(* It takes a snapshot.                                                    *)
LEMMA SnapshotKeeps == ASSUME LifeInv, Snapshot PROVE LifeInv'
<1> USE SlotsNamed, CallersNamed DEF LifeInv, Leads, Up, Down, Closing
<1>1. \A w \in InTable : KeyOf(w) \in PoolKey /\ table[KeyOf(w)] = w /\ made[w].state # "none" BY DEF InTable, Keyed, LifeTyped
<1>2. \A k \in PoolKey : table[k] # NoSlot => table[k] \in InTable BY DEF InTable, LifeTyped
<1>3. InTable \in SUBSET Worker BY DEF InTable
<1>4. LifeTyped' BY <1>1, <1>2, <1>3 DEF Snapshot, LifeTyped, Mains
<1>5. Keyed' BY <1>1, <1>2, <1>3 DEF Snapshot, Keyed, Led, KeyOf, LifeTyped
<1>6. \A e \in Call : Led(e)' BY <1>1, <1>2, <1>3 DEF Snapshot, Keyed, Led, Fresh, KeyOf, LifeTyped, Leaves, Unled, Emptied
<1>7. Leaves' BY <1>1, <1>2, <1>3 DEF Snapshot, Leaves, Keyed, Led, KeyOf, LifeTyped
<1>8. Emptied' BY <1>1, <1>2, <1>3 DEF Snapshot, Emptied, LifeTyped, Led
<1>9. Found' BY <1>1, <1>2, <1>3 DEF Snapshot, Found, Clean, Runs, Unrecorded, Led, Keyed, Leaves, Emptied, KeyOf, LifeTyped
<1>10. Stopping' BY <1>1, <1>2, <1>3 DEF Snapshot, Stopping, Passing, Clean, Runs, Fresh, Led, Found, Emptied, Keyed, KeyOf, LifeTyped
<1>11. Unled' BY <1>1, <1>2, <1>3 DEF Snapshot, Unled, Fresh, Led, Emptied, Keyed, LifeTyped
<1> QED BY <1>4, <1>5, <1>6, <1>7, <1>8, <1>9, <1>10, <1>11

(* It stops what is in it.                                                 *)
LEMMA StopsKeeps == ASSUME LifeInv, Stops PROVE LifeInv'
<1> USE SlotsNamed, CallersNamed DEF LifeInv, Leads, Up, Down, Closing
<1>1. PICK v \in todo : /\ EndsWorker(v) /\ todo' = todo \ {v}
                      /\ passed' = IF made[v].known THEN passed ELSE passed \cup {v}
  BY DEF Stops
<1>2. main = "stop" /\ v \in Worker BY DEF Stops, LifeTyped
<1>3. /\ made' \in [Worker -> Slots] /\ named' \in [PoolKey -> Worker \cup {NoSlot}]
      /\ \A w \in Worker \ {v} : made'[w] = made[w]
      /\ made'[v].key = made[v].key /\ made'[v].state = made[v].state
      /\ made'[v].fut = made[v].fut /\ made'[v].known = FALSE
      /\ made'[v].proc = (IF made[v].known THEN "ended" ELSE made[v].proc)
      /\ \A k \in PoolKey : named'[k] = IF k = KeyOf(v) THEN NoSlot ELSE named[k]
  BY <1>1, <1>2, EndsFacts
<1>4. KeyOf(v) \in PoolKey /\ table[KeyOf(v)] \in {v, NoSlot} BY <1>1, <1>2 DEF Leaves, Keyed
<1>5. todo' = todo \ {v} /\ passed' = IF made[v].known THEN passed ELSE passed \cup {v} BY <1>1
<1>6. LifeTyped' BY <1>1, <1>2, <1>3, <1>4, <1>5 DEF Stops, LifeTyped, Mains
<1>7. Keyed' BY <1>1, <1>2, <1>3, <1>4, <1>5 DEF Stops, Keyed, Led, KeyOf, LifeTyped
<1>8. \A e \in Call : Led(e)' BY <1>1, <1>2, <1>3, <1>4, <1>5 DEF Stops, Keyed, Led, Fresh, KeyOf, LifeTyped, Leaves, Unled, Emptied
<1>9. Leaves' BY <1>1, <1>2, <1>3, <1>4, <1>5 DEF Stops, Leaves, Keyed, Led, KeyOf, LifeTyped
<1>10. Emptied' BY <1>1, <1>2, <1>3, <1>4, <1>5 DEF Stops, Emptied, LifeTyped, Led
<1>11. Found' BY <1>1, <1>2, <1>3, <1>4, <1>5 DEF Stops, Found, Clean, Runs, Unrecorded, Led, Keyed, Leaves, Emptied, KeyOf, LifeTyped
<1>12. Stopping' BY <1>1, <1>2, <1>3, <1>4, <1>5 DEF Stops, Stopping, Passing, Clean, Runs, Fresh, Led, Found, Emptied, Keyed, KeyOf, LifeTyped
<1>13. Unled' BY <1>1, <1>2, <1>3, <1>4, <1>5 DEF Stops, Unled, Fresh, Led, Emptied, Keyed, LifeTyped
<1> QED BY <1>6, <1>7, <1>8, <1>9, <1>10, <1>11, <1>12, <1>13

(* The table is cleared.                                                   *)
LEMMA ClearsKeeps == ASSUME LifeInv, Clears PROVE LifeInv'
<1> USE SlotsNamed, CallersNamed DEF LifeInv, Leads, Up, Down, Closing
<1>1. LifeTyped' BY DEF Clears, LifeTyped, Mains
<1>2. Keyed' BY DEF Clears, Keyed, Led, KeyOf, LifeTyped
<1>3. \A e \in Call : Led(e)' BY DEF Clears, Keyed, Led, Fresh, KeyOf, LifeTyped, Leaves, Unled, Emptied
<1>4. Leaves' BY DEF Clears, Leaves, Keyed, Led, KeyOf, LifeTyped
<1>5. Emptied' BY DEF Clears, Emptied, LifeTyped, Led
<1>6. Found' BY DEF Clears, Found, Clean, Runs, Unrecorded, Led, Keyed, Leaves, Emptied, KeyOf, LifeTyped
<1>7. Stopping' BY DEF Clears, Stopping, Passing, Clean, Runs, Fresh, Led, Found, Emptied, Keyed, KeyOf, LifeTyped
<1>8. Unled' BY DEF Clears, Unled, Fresh, Led, Emptied, Keyed, LifeTyped
<1> QED BY <1>1, <1>2, <1>3, <1>4, <1>5, <1>6, <1>7, <1>8

(* The coordinator ends.                                                   *)
LEMMA ExitsKeeps == ASSUME LifeInv, Exits PROVE LifeInv'
<1> USE SlotsNamed, CallersNamed DEF LifeInv, Leads, Up, Down, Closing
<1>1. LifeTyped' BY DEF Exits, LifeTyped, Mains
<1>2. Keyed' BY DEF Exits, Keyed, Led, KeyOf, LifeTyped
<1>3. \A e \in Call : Led(e)' BY DEF Exits, Keyed, Led, Fresh, KeyOf, LifeTyped, Leaves, Unled, Emptied
<1>4. Leaves' BY DEF Exits, Leaves, Keyed, Led, KeyOf, LifeTyped
<1>5. Emptied' BY DEF Exits, Emptied, LifeTyped, Led
<1>6. Found' BY DEF Exits, Found, Clean, Runs, Unrecorded, Led, Keyed, Leaves, Emptied, KeyOf, LifeTyped
<1>7. Stopping' BY DEF Exits, Stopping, Passing, Clean, Runs, Fresh, Led, Found, Emptied, Keyed, KeyOf, LifeTyped
<1>8. Unled' BY DEF Exits, Unled, Fresh, Led, Emptied, Keyed, LifeTyped
<1> QED BY <1>1, <1>2, <1>3, <1>4, <1>5, <1>6, <1>7, <1>8

(* It is killed.                                                           *)
LEMMA KilledKeeps == ASSUME LifeInv, Killed PROVE LifeInv'
<1> USE SlotsNamed, CallersNamed DEF LifeInv, Leads, Up, Down, Closing
<1>1. ends + 1 \in 0..MaxEnds BY EndsCounted DEF Killed, LifeTyped
<1>2. Unrecorded \in SUBSET Worker BY DEF Unrecorded, Led
<1>3. call' \in [Call -> Calls] /\ \A e \in Call : call'[e].pc = "rest" BY DEF Killed, NoCall, Calls
<1>4. LifeTyped' BY <1>1, <1>2, <1>3 DEF Killed, Nobody, LifeTyped, Mains
<1>5. Keyed' BY <1>1, <1>2, <1>3 DEF Killed, NoCall, Nobody, Keyed, Led, KeyOf, LifeTyped
<1>6. \A e \in Call : Led(e)' BY <1>1, <1>2, <1>3 DEF Killed, NoCall, Nobody, Keyed, Led, Fresh, KeyOf, LifeTyped, Leaves, Unled, Emptied
<1>7. Leaves' BY <1>1, <1>2, <1>3 DEF Killed, NoCall, Nobody, Leaves, Keyed, Led, KeyOf, LifeTyped
<1>8. Emptied' BY <1>1, <1>2, <1>3 DEF Killed, NoCall, Nobody, Emptied, LifeTyped, Led
<1>9. Found' BY <1>1, <1>2, <1>3 DEF Killed, NoCall, Nobody, Found, Clean, Runs, Unrecorded, Led, Keyed, Leaves, Emptied, KeyOf, LifeTyped
<1>10. Stopping' BY <1>1, <1>2, <1>3 DEF Killed, NoCall, Nobody, Stopping, Passing, Clean, Runs, Fresh, Led, Found, Emptied, Keyed, KeyOf, LifeTyped
<1>11. Unled' BY <1>1, <1>2, <1>3 DEF Killed, NoCall, Nobody, Unled, Fresh, Led, Emptied, Keyed, LifeTyped
<1> QED BY <1>4, <1>5, <1>6, <1>7, <1>8, <1>9, <1>10, <1>11

(* A worker without a parent.                                              *)
LEMMA WatchdogKeeps == ASSUME LifeInv, NEW w \in Worker, WatchdogFires(w) PROVE LifeInv'
<1> USE SlotsNamed, CallersNamed DEF LifeInv, Leads, Up, Down, Closing
<1>1. /\ made' \in [Worker -> Slots] /\ \A v \in Worker \ {w} : made'[v] = made[v]
      /\ made'[w].key = made[w].key /\ made'[w].state = made[w].state
      /\ made'[w].fut = made[w].fut /\ made'[w].known = made[w].known
      /\ made'[w].proc = "ended" /\ made[w].proc = "runs"
  BY DEF WatchdogFires, Runs, LifeTyped, Slots
<1>2. LifeTyped' BY <1>1 DEF WatchdogFires, LifeTyped, Mains
<1>3. Keyed' BY <1>1 DEF WatchdogFires, Keyed, Led, KeyOf, LifeTyped
<1>4. \A e \in Call : Led(e)' BY <1>1 DEF WatchdogFires, Keyed, Led, Fresh, KeyOf, LifeTyped, Leaves, Unled, Emptied
<1>5. Leaves' BY <1>1 DEF WatchdogFires, Leaves, Keyed, Led, KeyOf, LifeTyped
<1>6. Emptied' BY <1>1 DEF WatchdogFires, Emptied, LifeTyped, Led
<1>7. Found' BY <1>1 DEF WatchdogFires, Found, Clean, Runs, Unrecorded, Led, Keyed, Leaves, Emptied, KeyOf, LifeTyped
<1>8. Stopping' BY <1>1 DEF WatchdogFires, Stopping, Passing, Clean, Runs, Fresh, Led, Found, Emptied, Keyed, KeyOf, LifeTyped
<1>9. Unled' BY <1>1 DEF WatchdogFires, Unled, Fresh, Led, Emptied, Keyed, LifeTyped
<1> QED BY <1>2, <1>3, <1>4, <1>5, <1>6, <1>7, <1>8, <1>9

(* The next start.                                                         *)
LEMMA ReapsKeeps == ASSUME LifeInv, ReapsOrphans PROVE LifeInv'
<1> USE SlotsNamed, CallersNamed DEF LifeInv, Leads, Up, Down, Closing
<1>1. /\ main \in {"gone", "killed"} /\ main' = "up" /\ named' = [k \in PoolKey |-> NoSlot]
      /\ passed' = {} /\ crossed' = {} /\ UNCHANGED <<table, latch, call, sweep, todo, ends>>
  BY DEF ReapsOrphans
<1>2. /\ made' \in [Worker -> Slots] /\ strays' \in SUBSET Worker
      /\ \A w \in Worker : /\ made'[w] = Unmade \/ (made[w] # Unmade /\ made'[w].key = made[w].key)
                           /\ made'[w].state = "none" /\ made'[w].fut = "none" /\ made'[w].known = FALSE
                           /\ made'[w].proc = "runs" => w \in strays'
  <2> DEFINE left == {w \in Worker : Runs(w) /\ \A k \in PoolKey : named[k] # w}
             x(w) == [Unmade EXCEPT !.key = KeyOf(w), !.proc = IF w \in left THEN "runs" ELSE "ended"]
  <2>1. strays' = left /\ made' = [w \in Worker |-> IF made[w] = Unmade THEN Unmade ELSE x(w)]
    BY DEF ReapsOrphans
  <2>2. \A w \in Worker : KeyOf(w) \in PoolKey \cup {NoSlot} BY DEF KeyOf, LifeTyped, Slots
  <2>3. /\ Unmade \in Slots /\ Unmade.state = "none" /\ Unmade.fut = "none"
        /\ Unmade.known = FALSE /\ Unmade.proc = "none" /\ Unmade.socket = FALSE
    BY DEF Unmade, Slots
  <2>4. ASSUME NEW w \in Worker
        PROVE  /\ x(w) \in Slots /\ x(w).key = KeyOf(w) /\ x(w).state = "none" /\ x(w).fut = "none"
               /\ x(w).known = FALSE /\ (x(w).proc = "runs" => w \in left)
    BY <2>2, <2>3 DEF Slots
  <2> HIDE DEF x, left
  <2>5. left \in SUBSET Worker BY DEF left
  <2> QED BY <2>1, <2>3, <2>4, <2>5 DEF KeyOf
<1>3. LifeTyped' BY <1>1, <1>2 DEF Mains, LifeTyped, Mains
<1>4. Keyed'
 BY <1>1, <1>2 DEF Unmade, Keyed, KeyOf, LifeTyped, Emptied
<1>5. \A e \in Call : Led(e)' BY <1>1, <1>2 DEF Unmade, Keyed, Led, Fresh, KeyOf, LifeTyped, Leaves, Unled, Emptied
<1>6. Leaves' BY <1>1, <1>2 DEF Unmade, Leaves, Keyed, Led, KeyOf, LifeTyped
<1>7. Emptied' BY <1>1, <1>2 DEF Unmade, Emptied, LifeTyped, Led
<1>8. Found' BY <1>1, <1>2 DEF Unmade, Found, Clean, Runs, Unrecorded, Led, Keyed, Leaves, Emptied, KeyOf, LifeTyped
<1>9. Stopping' BY <1>1, <1>2 DEF Unmade, Stopping, Passing, Clean, Runs, Fresh, Led, Found, Emptied, Keyed, KeyOf, LifeTyped
<1>10. Unled' BY <1>1, <1>2 DEF Unmade, Unled, Fresh, Led, Emptied, Keyed, LifeTyped
<1> QED BY <1>3, <1>4, <1>5, <1>6, <1>7, <1>8, <1>9, <1>10

(* The initial states.                                                     *)
LEMMA LifeInitHolds == LifeInit => LifeInv
<1> SUFFICES ASSUME LifeInit PROVE LifeInv
  OBVIOUS
<1>1. Unmade \in Slots /\ Unmade.proc = "none" /\ Unmade.state = "none" /\ Unmade.fut = "none"
  BY DEF Unmade, Slots
<1>2. NoCall \in Calls /\ NoCall.pc = "rest" BY DEF NoCall, Calls
<1>3. LifeTyped BY <1>1, <1>2, EndsCounted DEF LifeInit, LifeTyped, Mains, Nobody
<1>4. Keyed /\ (\A c \in Call : Led(c)) /\ Leaves /\ Emptied
  BY <1>1, <1>2, SlotsNamed DEF LifeInit, Keyed, Led, Leads, Leaves, Emptied, Nobody
<1>5. Found /\ Stopping /\ Unled
  BY <1>1, <1>2 DEF LifeInit, Found, Clean, Runs, Stopping, Unled
<1> QED BY <1>3, <1>4, <1>5 DEF LifeInv

(* A call that is cancelled, with a slot of its own or without.            *)
LEMMA CancelledKeeps == ASSUME LifeInv, NEW c \in Call, Cancelled(c) PROVE LifeInv'
<1>1. CASE /\ call[c].pc \in {"wait", "queue", "admit", "published"}
           /\ call' = [call EXCEPT ![c] = NoCall] /\ Freed(c) /\ UNCHANGED made
           /\ UNCHANGED <<main, table, named, sweep, todo, passed, crossed, strays, ends>>
  <2>1. UNCHANGED <<made, main, table, named, sweep, todo, passed, crossed, strays, ends>> BY <1>1
  <2> QED BY <1>1, <2>1, WithdrawnKeeps
<1>2. CASE /\ call[c].pc \in {"published", "spawn", "load"}
           /\ made' = [made EXCEPT ![call[c].w] =
                [@ EXCEPT !.fut = "cancelled",
                          !.proc = IF call[c].pc = "spawn" THEN "ended" ELSE made[call[c].w].proc]]
           /\ Goes(c, "close") /\ UNCHANGED latch
           /\ UNCHANGED <<main, table, named, sweep, todo, passed, crossed, strays, ends>>
  <2>1. UNCHANGED <<latch, main, table, named, sweep, todo, passed, crossed, strays, ends>> BY <1>2
  <2> QED BY <1>2, <2>1, BrokenOffKeeps
<1> QED BY <1>1, <1>2 DEF Cancelled

(* Every step.                                                             *)
LEMMA LifeNextHolds == LifeInv /\ [LifeNext]_lifeVars => LifeInv'
<1> SUFFICES ASSUME LifeInv, [LifeNext]_lifeVars PROVE LifeInv'
  OBVIOUS
<1>1. CASE UNCHANGED lifeVars
  <2>1. /\ UNCHANGED <<main, table, made, named, latch, call>>
        /\ UNCHANGED <<sweep, todo, passed, crossed, strays, ends>>
    BY <1>1 DEF lifeVars
  <2>2. LifeTyped' /\ Keyed' /\ (\A c \in Call : Led(c)')
    BY <2>1 DEF LifeInv, LifeTyped, Keyed, Led, Fresh, KeyOf
  <2>3. Leaves' /\ Emptied' BY <2>1 DEF LifeInv, Leaves, Emptied, KeyOf
  <2>4. Found' /\ Stopping' /\ Unled'
    BY <2>1 DEF LifeInv, Found, Stopping, Unled, Clean, Runs, Fresh, KeyOf, Passing, Unrecorded
  <2> QED BY <2>2, <2>3, <2>4 DEF LifeInv
<1>2. ASSUME NEW c \in Call,
             \/ Load(c) \/ Resolved(c) \/ TakesLock(c) \/ RefusedAtEnd(c) \/ Publish(c) \/ Spawns(c)
             \/ Recorded(c) \/ Answered(c) \/ LoadBreaks(c) \/ Closes(c) \/ Cancelled(c)
      PROVE  LifeInv'
  BY <1>2, CallsKeeps, ResolvedKeeps, TakesLockKeeps, RefusedKeeps, PublishKeeps, SpawnsKeeps,
     RecordedKeeps, AnsweredKeeps, LoadBreaksKeeps, ClosesKeeps, CancelledKeeps
<1>3. CASE \/ Sweeps \/ Swept \/ Quits \/ Drains \/ UnloadsSlot \/ ShutsDown \/ Snapshot
           \/ Stops \/ Clears \/ Exits \/ Killed \/ ReapsOrphans
  BY <1>3, SweepsKeeps, SweptKeeps, QuitsKeeps, DrainsKeeps, UnloadsKeeps, ShutsDownKeeps,
     SnapshotKeeps, StopsKeeps, ClearsKeeps, ExitsKeeps, KilledKeeps, ReapsKeeps
<1>4. ASSUME NEW w \in Worker, WatchdogFires(w) PROVE LifeInv' BY <1>4, WatchdogKeeps
<1> QED BY <1>1, <1>2, <1>3, <1>4 DEF LifeNext

(* The invariant of the coordinator's end, and what it promises.           *)
LEMMA LifeInvariant == Spec => []LifeInv
<1>1. Init => LifeInv BY LifeInitHolds DEF Init
<1>2. LifeInv /\ [Next]_vars => LifeInv' BY LifeNextHolds, OneServiceSteps
<1> QED BY <1>1, <1>2, PTL DEF Spec

(* What the invariant says of the properties.                              *)
LEMMA EndsWell ==
  LifeInv => LifeTypeOK /\ ClosedForLoads /\ WorkersFindable /\ ExitsClean
<1> SUFFICES ASSUME LifeInv PROVE LifeTypeOK /\ ClosedForLoads /\ WorkersFindable /\ ExitsClean
  OBVIOUS
<1>1. LifeTypeOK BY DEF LifeInv, LifeTyped, LifeTypeOK, Mains, Down, Nobody, Calls
<1>2. ClosedForLoads BY DEF LifeInv, Emptied, ClosedForLoads
<1>3. WorkersFindable BY DEF LifeInv, Found, Clean, WorkersFindable
<1>4. ExitsClean BY DEF LifeInv, Stopping, Passing, Clean, ExitsClean, LifeTyped
<1> QED BY <1>1, <1>2, <1>3, <1>4

(* A supervisor accounts for its workers, holds the model it says is       *)
(* loaded and leaves its gate to the next request; and the pool's workers  *)
(* end with the coordinator, or the next one finds them: for any tasks,    *)
(* models, engines, workers and crashes.                                   *)
THEOREM SupervisorIsSound == Spec => []SupervisorSound
<1>1. ProcInv /\ GateInv /\ LifeInv => SupervisorSound
  BY SupervisorPromises, EndsWell DEF SupervisorSound, GateInv
<1> QED BY <1>1, ProcInvariant, GateInvariant, LifeInvariant, PTL
-----------------------------------------------------------------------------
(* Folds.  A set of naturals has a least element.                          *)
LEMMA HasLeast ==
  ASSUME NEW B, B \subseteq Nat, B # {} PROVE \E n \in B : \A k \in B : n <= k
<1>1. PICK n \in B : \A k \in B : ~(<<k, n>> \in OpToRel(<, Nat))
  BY NatLessThanWellFounded, WFMin
<1>2. \A k \in B : ~(k < n) BY <1>1 DEF OpToRel
<1> QED BY <1>2

(* What holds of the empty set, and of a finite set when it holds  *)
(* of the smaller ones, holds of every subset of a finite set.             *)
LEMMA FiniteInduct ==
  ASSUME NEW S, IsFiniteSet(S), NEW G,
         \A s \in SUBSET S : (\A t \in SUBSET s : t # s => t \in G) => s \in G
  PROVE  SUBSET S \subseteq G
<1> DEFINE B == {n \in Nat : \E s \in SUBSET S : s \notin G /\ Cardinality(s) = n}
<1> SUFFICES ASSUME NEW s0 \in SUBSET S, s0 \notin G PROVE FALSE
  OBVIOUS
<1>1. \A s \in SUBSET S : IsFiniteSet(s) /\ Cardinality(s) \in Nat
  BY FS_Subset, FS_CardinalityType
<1>2. B \subseteq Nat /\ B # {} BY <1>1
<1> HIDE DEF B
<1>3. PICK n \in B : \A k \in B : n <= k BY <1>2, HasLeast
<1>5. PICK s \in SUBSET S : s \notin G /\ Cardinality(s) = n BY <1>3 DEF B
<1>6. PICK t \in SUBSET s : t # s /\ t \notin G BY <1>5
<1>7. Cardinality(t) < Cardinality(s) BY <1>1, <1>6, FS_Subset
<1>8. Cardinality(t) \in B /\ t \in SUBSET S BY <1>1, <1>6 DEF B
<1> QED BY <1>1, <1>3, <1>5, <1>7, <1>8

(* The function a fold over a set is defined by exists: pick chooses from  *)
(* what is left, and step takes what was chosen into the result.            *)
Picks(pick, S) == \A s \in SUBSET S : s # {} => pick[s] \in s
StepsIn(step, S, V) == \A x \in S, v \in V : step[x][v] \in V
IsFold(h, S, b, pick, step) ==
  \A s \in SUBSET S : h[s] = IF s = {} THEN b ELSE step[pick[s]][h[s \ {pick[s]}]]

(* A fold over the subsets of a finite set exists: the function that       *)
(* picks, steps and recurs.                                                *)
LEMMA FoldExists ==
  ASSUME NEW S, IsFiniteSet(S), NEW V, NEW b \in V, NEW pick, NEW step,
         Picks(pick, S), StepsIn(step, S, V)
  PROVE  \E h \in [SUBSET S -> V] : IsFold(h, S, b, pick, step)
<1> USE DEF Picks, StepsIn
<1> DEFINE rest(s) == s \ {pick[s]}
           Small(n) == {s \in SUBSET S : Cardinality(s) <= n}
           Good(n, h) == \A s \in Small(n) :
              h[s] = IF s = {} THEN b ELSE step[pick[s]][h[rest(s)]]
           P == {n \in Nat : \E h \in [SUBSET S -> V] : Good(n, h)}
<1>1. \A s \in SUBSET S : IsFiniteSet(s) /\ Cardinality(s) \in Nat
  BY FS_Subset, FS_CardinalityType
<1>2. \A s \in SUBSET S : Cardinality(s) = 0 => s = {} BY <1>1, FS_EmptySet
<1>3. ASSUME NEW s \in SUBSET S, s # {}
      PROVE  rest(s) \in SUBSET S /\ Cardinality(rest(s)) = Cardinality(s) - 1
  BY <1>1, <1>3, FS_RemoveElement
<1>4. 0 \in P
  <2> DEFINE h == [s \in SUBSET S |-> b]
  <2>1. Good(0, h) BY <1>1, <1>2
  <2> QED BY <2>1
<1>5. ASSUME NEW n \in P PROVE n + 1 \in P
  <2>1. PICK h \in [SUBSET S -> V] : Good(n, h) OBVIOUS
  <2> DEFINE g == [s \in SUBSET S |-> IF s = {} THEN b ELSE step[pick[s]][h[rest(s)]]]
  <2>2. g \in [SUBSET S -> V] BY <1>3
  <2>3. \A s \in Small(n) : g[s] = h[s] BY <2>1
  <2>4. ASSUME NEW s \in Small(n + 1), s # {} PROVE rest(s) \in Small(n)
    BY <1>1, <1>3, <2>4
  <2>5. Good(n + 1, g) BY <1>3, <2>3, <2>4
  <2>6. n + 1 \in Nat OBVIOUS
  <2> HIDE DEF Good, g
  <2> QED BY <2>2, <2>5, <2>6
<1>10. P \subseteq Nat OBVIOUS
<1> HIDE DEF P
<1>6. P = Nat
  <2> DEFINE B == Nat \ P
  <2> SUFFICES ASSUME B # {} PROVE FALSE BY <1>10
  <2>2. PICK n \in B : \A k \in B : n <= k BY HasLeast
  <2>3. n # 0 /\ n - 1 \in Nat BY <1>4
  <2>4. n - 1 \in P BY <2>2, <2>3
  <2> QED BY <1>5, <2>3, <2>4
<1>7. Cardinality(S) \in P BY <1>1, <1>6
<1>8. PICK h \in [SUBSET S -> V] : Good(Cardinality(S), h) BY <1>7 DEF P
<1>9. \A s \in SUBSET S : s \in Small(Cardinality(S)) BY <1>1, FS_Subset
<1> QED BY <1>8, <1>9 DEF IsFold

-----------------------------------------------------------------------------
(* The settings file.  The rules that are about one leaf have its name.    *)
Pairs == {"lan pair", "lan token", "one memory", "overlap", "wired"}
Docs == [Leaf -> Values]

(* The schema has its twelve leaves.                                       *)
LEMMA SchemaNames ==
  /\ DOMAIN Schema = 1..12
  /\ {"api.host", "api.port", "api.requireToken", "api.anthropic.enabled", "models.pool.enabled",
      "generation.memoryLimitRatio", "generation.wiredLimitRatio", "contextCompression.enabled",
      "rag.chunkSize", "rag.chunkOverlap", "adaptiveMemory.enabled", "security.allowLan"} \subseteq Leaf
<1>1. DOMAIN Schema = 1..12 BY DEF Schema
<1>2. /\ Schema[1].id = "api.host" /\ Schema[2].id = "api.port" /\ Schema[3].id = "api.requireToken"
      /\ Schema[4].id = "api.anthropic.enabled" /\ Schema[5].id = "models.pool.enabled"
      /\ Schema[6].id = "generation.memoryLimitRatio" /\ Schema[7].id = "generation.wiredLimitRatio"
      /\ Schema[8].id = "contextCompression.enabled" /\ Schema[9].id = "rag.chunkSize"
      /\ Schema[10].id = "rag.chunkOverlap" /\ Schema[11].id = "adaptiveMemory.enabled"
      /\ Schema[12].id = "security.allowLan"
  BY DEF Schema
<1> QED BY <1>1, <1>2 DEF Leaf

(* Every rule of the validation is about a leaf, or about a pair.          *)
LEMMA RuleNames == \A i \in 1..Len(Rules) : Rules[i].rule \in Leaf \cup Pairs
<1> DEFINE r1 == [rule |-> "api.host", says |-> {"host"}]
           r2 == [rule |-> "lan pair", says |-> {"host", "allowLan"}]
           r3 == [rule |-> "lan token", says |-> {}]
           r4 == [rule |-> "api.port", says |-> {"port"}]
           r5 == [rule |-> "api.anthropic.enabled", says |-> {"enabled"}]
           r6 == [rule |-> "models.pool.enabled", says |-> {"enabled"}]
           r7 == [rule |-> "contextCompression.enabled", says |-> {"enabled"}]
           r8 == [rule |-> "adaptiveMemory.enabled", says |-> {"enabled"}]
           r9 == [rule |-> "one memory", says |-> {"enabled"}]
           r10 == [rule |-> "rag.chunkSize", says |-> {"chunkSize"}]
           r11 == [rule |-> "rag.chunkOverlap", says |-> {"chunkOverlap", "chunkSize"}]
           r12 == [rule |-> "overlap", says |-> {"chunkOverlap", "chunkSize"}]
           r13 == [rule |-> "generation.memoryLimitRatio", says |-> {"memoryLimitRatio"}]
           r14 == [rule |-> "generation.wiredLimitRatio", says |-> {"wiredLimitRatio"}]
           r15 == [rule |-> "wired", says |-> {"memoryLimitRatio", "wiredLimitRatio"}]
           R == {r1, r2, r3, r4, r5, r6, r7, r8, r9, r10, r11, r12, r13, r14, r15}
<1>1. \A x \in R : x.rule \in Leaf \cup Pairs
  <2>1. {"api.host", "lan pair", "lan token", "api.port", "api.anthropic.enabled",
         "models.pool.enabled", "contextCompression.enabled", "adaptiveMemory.enabled",
         "one memory", "rag.chunkSize", "rag.chunkOverlap", "overlap",
         "generation.memoryLimitRatio", "generation.wiredLimitRatio", "wired"}
          \subseteq Leaf \cup Pairs
    BY SchemaNames DEF Pairs
  <2>2. /\ r1.rule = "api.host" /\ r2.rule = "lan pair"
        /\ r3.rule = "lan token" /\ r4.rule = "api.port"
        /\ r5.rule = "api.anthropic.enabled" /\ r6.rule = "models.pool.enabled"
        /\ r7.rule = "contextCompression.enabled" /\ r8.rule = "adaptiveMemory.enabled"
        /\ r9.rule = "one memory" /\ r10.rule = "rag.chunkSize"
        /\ r11.rule = "rag.chunkOverlap" /\ r12.rule = "overlap"
        /\ r13.rule = "generation.memoryLimitRatio" /\ r14.rule = "generation.wiredLimitRatio"
        /\ r15.rule = "wired"
    OBVIOUS
  <2> HIDE DEF r1, r2, r3, r4, r5, r6, r7, r8, r9, r10, r11, r12, r13, r14, r15
  <2> QED BY <2>1, <2>2
<1>2. ApiRules = <<r1, r2, r3, r4, r5>> BY DEF ApiRules
<1>3. ModelRules = <<r6>> BY DEF ModelRules
<1>4. MemoryRules = <<r7, r8, r9>> BY DEF MemoryRules
<1>5. RagRules = <<r10, r11, r12>> BY DEF RagRules
<1>6. GenerationRules = <<r13, r14, r15>> BY DEF GenerationRules
<1> HIDE DEF r1, r2, r3, r4, r5, r6, r7, r8, r9, r10, r11, r12, r13, r14, r15
<1>7. ApiRules \in Seq(R) BY <1>2
<1>8. ModelRules \in Seq(R) BY <1>3
<1>9. MemoryRules \in Seq(R) BY <1>4
<1>10. RagRules \in Seq(R) BY <1>5
<1>11. GenerationRules \in Seq(R) BY <1>6
<1> HIDE DEF R
<1>12. Rules \in Seq(R) BY <1>7, <1>8, <1>9, <1>10, <1>11 DEF Rules
<1> QED BY <1>1, <1>12

(* The defaults obey every rule.                                           *)
LEMMA DefaultsValid == Valid(Defaults) /\ Defaults \in Docs
<1>1. \A l \in Leaf : Defaults[l] = "default" BY DEF Defaults
<1>2. ASSUME NEW i \in 1..Len(Rules) PROVE ~Breaks(Defaults, Rules[i].rule)
  <2>1. Rules[i].rule \in Leaf \cup Pairs BY RuleNames
  <2>2. \A rule \in Leaf \cup Pairs : ~Breaks(Defaults, rule)
    BY <1>1, SchemaNames DEF Breaks, Pairs
  <2> QED BY <2>1, <2>2
<1>3. Broken(Defaults) = 0 BY <1>2 DEF Broken, SelectInSeq
<1> QED BY <1>3 DEF Valid, Docs, Defaults, Values

(* A culprit is a leaf whose default makes the document valid.             *)
LEMMA CulpritFound ==
  ASSUME NEW d
  PROVE  /\ Culprit(d) \in 0..12
         /\ Culprit(d) # 0 => Valid(Reset(d, Schema[Culprit(d)].id))
         /\ (\E l \in Leaf : Valid(Reset(d, l))) => Culprit(d) # 0
<1> DEFINE I == {i \in 1..Len(Schema) : Valid(Reset(d, Schema[i].id))}
<1>1. Culprit(d) = IF I # {} THEN Min(I) ELSE 0 BY DEF Culprit, SelectInSeq
<1>2. Len(Schema) = 12 BY DEF Schema
<1>3. I \subseteq 1..12 BY <1>2
<1>4. I # {} => Min(I) \in I
  <2> SUFFICES ASSUME I # {} PROVE Min(I) \in I OBVIOUS
  <2> HIDE DEF I
  <2>1. I \subseteq Nat BY <1>3
  <2>2. \E n \in I : \A k \in I : n <= k BY <2>1, HasLeast
  <2> QED BY <2>2 DEF Min
<1>5. (\E l \in Leaf : Valid(Reset(d, l))) => I # {} BY <1>2, SchemaNames DEF Leaf
<1>6. \A i \in I : Valid(Reset(d, Schema[i].id)) OBVIOUS
<1>7. 0 \notin I /\ \A i \in I : i \in 0..12 BY <1>3
<1> HIDE DEF I
<1>8. CASE I = {} BY <1>1, <1>5, <1>8
<1>9. CASE I # {}
  <2>1. Culprit(d) = Min(I) /\ Min(I) \in I BY <1>1, <1>4, <1>9
  <2> QED BY <1>6, <1>7, <2>1
<1> QED BY <1>8, <1>9

(* The largest of some numbers up to n is one of them.                     *)
LEMMA MaxIn == ASSUME NEW n \in Nat, NEW s \in SUBSET (1..n), s # {} PROVE Max(s) \in s
<1> DEFINE B == {k \in Nat : n - k \in s}
<1>1. \A x \in s : x \in 1..n /\ n - x \in B OBVIOUS
<1>2. B \subseteq Nat /\ B # {} BY <1>1
<1>3. \A k \in B : n - k \in s OBVIOUS
<1> HIDE DEF B
<1>4. PICK k \in B : \A j \in B : k <= j BY <1>2, HasLeast
<1>5. n - k \in s /\ \A x \in s : n - k >= x BY <1>1, <1>2, <1>3, <1>4
<1> QED BY <1>5 DEF Max

(* A document stays one through a round of the recovery, and through an    *)
(* imported leaf.                                                          *)
LEMMA DocStays ==
  ASSUME NEW d \in Docs
  PROVE  /\ \A l : Reset(d, l) \in Docs
         /\ Round(d) \in Docs
         /\ \A change : (\A l \in Leaf \cap DOMAIN change : change[l] \in Values)
              => Merge(d, change) \in Docs
<1>1. \A l : Reset(d, l) \in Docs BY DEF Docs, Reset, Values
<1>2. Round(d) \in Docs BY <1>1 DEF Round, Repaired
<1>3. ASSUME NEW change, \A l \in Leaf \cap DOMAIN change : change[l] \in Values
      PROVE  Merge(d, change) \in Docs
  BY <1>3 DEF Merge, Docs
<1> QED BY <1>1, <1>2, <1>3

(* The recovery gives a document, and, when one leaf is the culprit, the   *)
(* document with the default of that leaf.                                 *)
LEMMA RecoverFacts ==
  ASSUME NEW doc \in Docs
  PROVE  /\ RecoverKeys(doc) \in Docs
         /\ ~Valid(doc) /\ Culprit(doc) # 0 =>
              RecoverKeys(doc) = Reset(doc, Schema[Culprit(doc)].id)
<1> DEFINE D == DOMAIN Schema
           Is(g) == g = [s \in SUBSET D |-> IF s = {} THEN doc ELSE Round(g[s \ {Max(s)}])]
           it == CHOOSE g : Is(g)
           step == [x \in D |-> [d \in Docs |-> Round(d)]]
           pick == [s \in SUBSET D |-> Max(s)]
<1>1. RecoverKeys(doc) = it[D] BY DEF RecoverKeys, FoldLeft, MapThenFoldSet
<1>2. D = 1..12 BY SchemaNames
<1>9. IsFiniteSet(D)
  <2>2. 1 \in Int /\ 12 \in Int OBVIOUS
  <2>1. IsFiniteSet(1..12) BY <2>2, FS_Interval, Zenon
  <2> QED BY <1>2, <2>1
<1>3. \A s \in SUBSET D : s # {} => Max(s) \in s BY <1>2, MaxIn
<1> HIDE DEF D
<1>4. \E g : Is(g)
  <2>1. Picks(pick, D) BY <1>3 DEF Picks
  <2>2. StepsIn(step, D, Docs) BY DocStays DEF StepsIn
  <2>3. PICK g \in [SUBSET D -> Docs] : IsFold(g, D, doc, pick, step)
    <3> HIDE DEF step, pick
    <3> QED BY <1>9, <2>1, <2>2, FoldExists
  <2>4. ASSUME NEW s \in SUBSET D
        PROVE  g[s] = IF s = {} THEN doc ELSE Round(g[s \ {Max(s)}])
    <3>1. CASE s = {} BY <2>3, <3>1 DEF IsFold
    <3>2. CASE s # {}
      <4>1. pick[s] = Max(s) /\ Max(s) \in D BY <1>3, <3>2
      <4>2. g[s \ {Max(s)}] \in Docs BY <2>3
      <4> QED BY <2>3, <3>2, <4>1, <4>2 DEF IsFold
    <3> QED BY <3>1, <3>2
  <2>5. Is(g) BY <2>3, <2>4
  <2> QED BY <2>5
<1>5. Is(it) BY <1>4
<1> HIDE DEF it
<1>6. \A s \in SUBSET D : it[s] = IF s = {} THEN doc ELSE Round(it[s \ {Max(s)}])
  BY <1>5
<1>7. \A s \in SUBSET D : it[s] \in Docs
  <2> DEFINE G == {s \in SUBSET D : it[s] \in Docs}
  <2>1. ASSUME NEW s \in SUBSET D, \A t \in SUBSET s : t # s => t \in G PROVE s \in G
    <3>1. CASE s = {} BY <1>6, <3>1
    <3>2. CASE s # {}
      <4>1. s \ {Max(s)} \in SUBSET s /\ s \ {Max(s)} # s BY <1>3, <3>2
      <4>2. it[s \ {Max(s)}] \in Docs BY <2>1, <4>1
      <4> QED BY <1>6, <3>2, <4>2, DocStays
    <3> QED BY <3>1, <3>2
  <2>2. \A s \in G : it[s] \in Docs OBVIOUS
  <2> HIDE DEF G
  <2>3. SUBSET D \subseteq G BY <1>9, <2>1, FiniteInduct
  <2> QED BY <2>2, <2>3
<1>8. ASSUME ~Valid(doc), Culprit(doc) # 0
      PROVE  \A s \in SUBSET D : s # {} => it[s] = Reset(doc, Schema[Culprit(doc)].id)
  <2> DEFINE r == Reset(doc, Schema[Culprit(doc)].id)
             G == {s \in SUBSET D : s # {} => it[s] = r}
  <2>1. Round(doc) = r BY <1>8 DEF Round, Repaired
  <2>2. Round(r) = r BY <1>8, CulpritFound DEF Round
  <2> HIDE DEF r
  <2>3. ASSUME NEW s \in SUBSET D, \A t \in SUBSET s : t # s => t \in G PROVE s \in G
    <3>1. CASE s = {} BY <3>1
    <3>2. CASE s # {}
      <4>1. s \ {Max(s)} \in SUBSET s /\ s \ {Max(s)} # s BY <1>3, <3>2
      <4>2. s \ {Max(s)} # {} => it[s \ {Max(s)}] = r BY <2>3, <4>1
      <4>3. s \ {Max(s)} = {} => it[s \ {Max(s)}] = doc BY <1>6
      <4>4. it[s] = Round(it[s \ {Max(s)}]) BY <1>6, <3>2
      <4> QED BY <2>1, <2>2, <4>2, <4>3, <4>4
    <3> QED BY <3>1, <3>2
  <2>4. \A s \in G : s # {} => it[s] = r OBVIOUS
  <2> HIDE DEF G
  <2>5. SUBSET D \subseteq G BY <1>9, <2>3, FiniteInduct
  <2> QED BY <2>4, <2>5 DEF r
<1> QED BY <1>1, <1>2, <1>7, <1>8

(* An import gives a document, and a valid one when it starts from one.    *)
LEMMA ImportFacts ==
  ASSUME NEW d \in Docs, Valid(d), NEW export \in Docs
  PROVE  Imported(d, export) \in Docs /\ Valid(Imported(d, export))
<1> DEFINE D == DOMAIN Sorted
           take(x, i) == Adopted(x, export, Sorted[i])
           Is(g) == g = [s \in SUBSET D |-> IF s = {} THEN d ELSE take(g[s \ {Max(s)}], Max(s))]
           it == CHOOSE g : Is(g)
           step == [i \in D |-> [x \in Docs |-> take(x, i)]]
           pick == [s \in SUBSET D |-> Max(s)]
           Fine == {x \in Docs : Valid(x)}
<1>1. Imported(d, export) = it[D] BY DEF Imported, FoldLeft, MapThenFoldSet
<1>2. D = 1..11 BY DEF Sorted
<1>3. IsFiniteSet(D)
  <2>1. 1 \in Int /\ 11 \in Int OBVIOUS
  <2>2. IsFiniteSet(1..11) BY <2>1, FS_Interval, Zenon
  <2> QED BY <1>2, <2>2
<1>4. \A s \in SUBSET D : s # {} => Max(s) \in s BY <1>2, MaxIn
<1>5. ASSUME NEW x \in Docs, NEW i PROVE take(x, i) \in Docs
  <2> DEFINE change == [l \in Sorted[i] |-> export[l]]
  <2>1. \A l \in Leaf \cap DOMAIN change : change[l] \in Values BY DEF Docs
  <2>2. Merge(x, change) \in Docs BY <2>1, DocStays
  <2>3. Candidate(x, export, Sorted[i]) \in Docs BY <2>2 DEF Candidate
  <2> QED BY <2>3 DEF Adopted
<1>6. ASSUME NEW x \in Docs, NEW i, Valid(x) PROVE Valid(take(x, i)) BY <1>6 DEF Adopted
<1> HIDE DEF D, take
<1>7. \E g : Is(g)
  <2>1. Picks(pick, D) BY <1>4 DEF Picks
  <2>2. StepsIn(step, D, Docs) BY <1>5 DEF StepsIn
  <2>3. PICK g \in [SUBSET D -> Docs] : IsFold(g, D, d, pick, step)
    <3> HIDE DEF step, pick
    <3> QED BY <1>3, <2>1, <2>2, FoldExists
  <2>4. ASSUME NEW s \in SUBSET D
        PROVE  g[s] = IF s = {} THEN d ELSE take(g[s \ {Max(s)}], Max(s))
    <3>1. CASE s = {} BY <2>3, <3>1 DEF IsFold
    <3>2. CASE s # {}
      <4>1. pick[s] = Max(s) /\ Max(s) \in D BY <1>4, <3>2
      <4>2. g[s \ {Max(s)}] \in Docs BY <2>3
      <4> QED BY <2>3, <3>2, <4>1, <4>2 DEF IsFold
    <3> QED BY <3>1, <3>2
  <2>5. Is(g) BY <2>3, <2>4
  <2> QED BY <2>5
<1>8. Is(it) BY <1>7
<1> HIDE DEF it
<1>9. \A s \in SUBSET D : it[s] = IF s = {} THEN d ELSE take(it[s \ {Max(s)}], Max(s))
  BY <1>8
<1>10. \A s \in SUBSET D : it[s] \in Fine
  <2> DEFINE G == {s \in SUBSET D : it[s] \in Fine}
  <2>1. ASSUME NEW s \in SUBSET D, \A t \in SUBSET s : t # s => t \in G PROVE s \in G
    <3>1. CASE s = {} BY <1>9, <3>1
    <3>2. CASE s # {}
      <4>1. s \ {Max(s)} \in SUBSET s /\ s \ {Max(s)} # s BY <1>4, <3>2
      <4>2. it[s \ {Max(s)}] \in Fine BY <2>1, <4>1
      <4>3. take(it[s \ {Max(s)}], Max(s)) \in Fine BY <1>5, <1>6, <4>2
      <4> QED BY <1>9, <3>2, <4>3
    <3> QED BY <3>1, <3>2
  <2>2. \A s \in G : it[s] \in Fine OBVIOUS
  <2> HIDE DEF G, Fine
  <2>3. SUBSET D \subseteq G BY <1>3, <2>1, FiniteInduct
  <2> QED BY <2>2, <2>3
<1> QED BY <1>1, <1>10

(* What is read is a document, and a valid one.                            *)
LEMMA RecoveredFacts ==
  ASSUME NEW doc \in Docs PROVE Recovered(doc) \in Docs /\ Valid(Recovered(doc))
BY DefaultsValid, RecoverFacts DEF Recovered

(* The store runs on a valid document, and remembers whether the file has  *)
(* keys of a newer build.                                                  *)
Files == [doc : Docs, extra : BOOLEAN, newer : BOOLEAN]
FileInv ==
  /\ file = Closed \/ file \in Files
  /\ data = Closed \/ data \in Docs
  /\ preserved \in BOOLEAN /\ readOnly \in BOOLEAN
  /\ data # Closed => Valid(data)
  /\ data # Closed /\ file # Closed => preserved = file.extra

(* A document that is written is a file.                                   *)
LEMMA WrittenFacts ==
  ASSUME NEW d \in Docs, NEW x \in BOOLEAN
  PROVE  Written(d, x) \in Files /\ Written(d, x).extra = x
BY DEF Written, Files

(* What a step may do to the file beside the store: keep what is unknown,  *)
(* and lose one leaf when one leaf is at fault.                            *)
FileStep ==
  /\ file # Closed /\ file' # Closed /\ file.extra => file'.extra
  /\ StartsUp /\ file # Closed /\ (\E l \in Leaf : Valid(Reset(file.doc, l))) =>
       Cardinality({l \in Leaf : data'[l] # file.doc[l]}) <= 1

(* One culprit costs one leaf.                                             *)
LEMMA OneLeaf ==
  ASSUME NEW doc \in Docs, \E l \in Leaf : Valid(Reset(doc, l))
  PROVE  Cardinality({l \in Leaf : Recovered(doc)[l] # doc[l]}) <= 1
<1> DEFINE Lost == {l \in Leaf : Recovered(doc)[l] # doc[l]}
<1>1. PICK m : Lost \subseteq {m}
  <2>1. CASE Valid(doc) BY <2>1 DEF Recovered
  <2>2. CASE ~Valid(doc)
    <3> DEFINE m == Schema[Culprit(doc)].id
    <3>1. Culprit(doc) # 0 BY CulpritFound
    <3>2. RecoverKeys(doc) = Reset(doc, m) /\ Valid(Reset(doc, m))
      BY <2>2, <3>1, RecoverFacts, CulpritFound
    <3>3. Recovered(doc) = Reset(doc, m) BY <2>2, <3>2 DEF Recovered
    <3> HIDE DEF m
    <3>4. \A l \in Leaf \ {m} : Reset(doc, m)[l] = doc[l] BY DEF Reset, Docs
    <3>5. Lost \subseteq {m} BY <3>3, <3>4
    <3> QED BY <3>5
  <2> QED BY <2>1, <2>2
<1> HIDE DEF Lost
<1>2. IsFiniteSet({m}) /\ Cardinality({m}) = 1 BY FS_Singleton
<1>3. IsFiniteSet(Lost) /\ Cardinality(Lost) <= 1 BY <1>1, <1>2, FS_Subset
<1> QED BY <1>3 DEF Lost

(* The file at the start.                                                  *)
LEMMA FileInitHolds == FileInit => FileInv
BY DefaultsValid, WrittenFacts DEF FileInit, FileInv

(* A start reads the file.                                                 *)
LEMMA StartKeeps == ASSUME FileInv, Start PROVE FileInv' /\ FileStep
<1>1. CASE file = Closed
  <2>1. /\ data' = Defaults /\ preserved' = FALSE /\ readOnly' = FALSE
        /\ file' = Written(Defaults, FALSE)
    BY <1>1 DEF Start
  <2> QED BY <1>1, <2>1, DefaultsValid, WrittenFacts DEF FileInv, FileStep
<1>2. CASE file # Closed
  <2>1. /\ data = Closed /\ data' = Recovered(file.doc) /\ preserved' = file.extra
        /\ readOnly' = file.newer /\ file' \in {file, Written(Defaults, file.extra)}
    BY <1>2 DEF Start, UnknownSubtree
  <2>2. file \in Files BY <1>2 DEF FileInv
  <2>3. file.doc \in Docs /\ file.extra \in BOOLEAN /\ file.newer \in BOOLEAN BY <2>2 DEF Files
  <2>4. file' \in Files /\ file'.extra = file.extra
    BY <2>1, <2>2, <2>3, DefaultsValid, WrittenFacts
  <2>5. data' \in Docs /\ Valid(data') BY <2>1, <2>3, RecoveredFacts
  <2>6. FileInv' BY <2>1, <2>3, <2>4, <2>5 DEF FileInv
  <2>7. (\E l \in Leaf : Valid(Reset(file.doc, l))) =>
          Cardinality({l \in Leaf : data'[l] # file.doc[l]}) <= 1
    BY <2>1, <2>3, OneLeaf
  <2> QED BY <2>4, <2>6, <2>7 DEF FileStep
<1> QED BY <1>1, <1>2

(* What the API writes.                                                    *)
LEMMA SaveKeeps ==
  ASSUME FileInv, Writable, NEW d \in Docs, Valid(d), Save(d), UNCHANGED <<preserved, readOnly>>
  PROVE  FileInv' /\ FileStep
<1>1. data # Closed /\ preserved \in BOOLEAN /\ readOnly \in BOOLEAN BY DEF Writable, FileInv
<1>2. /\ data' = d /\ file' = Written(d, preserved) /\ preserved' = preserved
      /\ readOnly' = readOnly
  BY DEF Save
<1>3. file' \in Files /\ file'.extra = preserved BY <1>1, <1>2, WrittenFacts
<1>4. FileInv' BY <1>1, <1>2, <1>3 DEF FileInv
<1>5. file # Closed /\ file.extra => file'.extra BY <1>1, <1>3 DEF FileInv
<1>6. ~StartsUp BY <1>1 DEF StartsUp
<1> QED BY <1>4, <1>5, <1>6 DEF FileStep

(* A settings write that is validated.                                     *)
LEMMA PutFileKeeps == ASSUME FileInv, NEW p \in Patches, Put(p) PROVE FileInv' /\ FileStep
<1>1. data \in Docs /\ Writable BY DEF FileInv, Put, Writable
<1>2. Merge(data, p) \in Docs BY <1>1, PatchesValued, DocStays
<1> QED BY <1>1, <1>2, SaveKeeps DEF Put

(* An import of exported settings.                                         *)
LEMMA ImportKeeps == ASSUME FileInv, NEW e \in Exports, Import(e) PROVE FileInv' /\ FileStep
<1>1. data \in Docs /\ Valid(data) /\ Writable /\ e \in Docs
  BY ExportsValued DEF FileInv, Import, Writable, Docs
<1>2. Imported(data, e) \in Docs /\ Valid(Imported(data, e)) BY <1>1, ImportFacts
<1> QED BY <1>1, <1>2, SaveKeeps DEF Import

(* What happens to the file while no coordinator runs.                     *)
LEMMA TouchKeeps ==
  ASSUME FileInv, NEW f, f = Closed \/ (f \in Files /\ (file.extra => f.extra)), Touch(f)
  PROVE  FileInv' /\ FileStep
BY DEF Touch, FileInv, FileStep, StartsUp

(* An edit by hand, of a newer build, or one that garbles the file.        *)
LEMMA EditsKeep ==
  ASSUME FileInv, NEW l \in Leaf, NEW v \in Values, EditByHand(l, v) \/ NewerBuild \/ Garble
  PROVE  FileInv' /\ FileStep
<1>1. CASE Garble BY <1>1, TouchKeeps DEF Garble
<1>2. CASE NewerBuild
  <2> DEFINE f == [file EXCEPT !.extra = TRUE, !.newer = TRUE]
  <2>1. Touch(f) BY <1>2 DEF NewerBuild
  <2>2. file \in Files BY <2>1 DEF Touch, FileInv
  <2>3. f \in Files /\ f.extra BY <2>2 DEF Files
  <2> HIDE DEF f
  <2> QED BY <2>1, <2>3, TouchKeeps
<1>3. CASE EditByHand(l, v)
  <2> DEFINE f == [file EXCEPT !.doc[l] = v]
  <2>1. Touch(f) BY <1>3 DEF EditByHand
  <2>2. file \in Files BY <2>1 DEF Touch, FileInv
  <2>3. f \in Files /\ f.extra = file.extra BY <2>2 DEF Files, Docs
  <2> HIDE DEF f
  <2> QED BY <2>1, <2>3, TouchKeeps
<1> QED BY <1>1, <1>2, <1>3

(* Every step keeps the invariant and is one of the allowed steps.         *)
LEMMA FileNextHolds == FileInv /\ [FileNext]_fileVars => FileInv' /\ (FileStep \/ UNCHANGED fileVars)
<1> SUFFICES ASSUME FileInv, [FileNext]_fileVars PROVE FileInv' /\ (FileStep \/ UNCHANGED fileVars)
  OBVIOUS
<1>1. CASE UNCHANGED fileVars BY <1>1 DEF fileVars, FileInv
<1>2. CASE Quit BY <1>2 DEF Quit, FileInv, FileStep, StartsUp
<1>3. CASE NewerBuild \/ Garble
  <2>1. "api.host" \in Leaf /\ "bad" \in Values BY SchemaNames DEF Values
  <2> QED BY <1>3, <2>1, EditsKeep
<1>4. CASE \E l \in Leaf, v \in Values : EditByHand(l, v) BY <1>4, EditsKeep
<1> QED BY <1>1, <1>2, <1>3, <1>4, StartKeeps, PutFileKeeps, ImportKeeps DEF FileNext

(* The invariant of the file, over a whole behaviour.                      *)
LEMMA FileInvariant == Spec => []FileInv /\ [][FileNext]_fileVars
<1>1. Init => FileInv BY FileInitHolds DEF Init
<1>2. FileInv /\ [Next]_vars => FileInv' BY FileNextHolds, OneServiceSteps
<1>3. [Next]_vars => [FileNext]_fileVars BY OneServiceSteps
<1> QED BY <1>1, <1>2, <1>3, PTL DEF Spec

(* Whatever is in the file, and whatever is written or imported, what the  *)
(* coordinator runs on obeys every rule.                                   *)
THEOREM SettingsValid == Spec => []ServedValid
<1>1. FileInv => ServedValid BY DEF FileInv, ServedValid
<1> QED BY <1>1, FileInvariant, PTL

(* A save keeps the keys of a newer build, and one bad leaf costs one      *)
(* leaf.                                                                   *)
THEOREM SettingsAreKept == Spec => SettingsKept
<1>1. FileInv /\ [FileNext]_fileVars =>
        [/\ file # Closed /\ file' # Closed /\ file.extra => file'.extra]_fileVars
  BY FileNextHolds DEF FileStep
<1>2. FileInv /\ [FileNext]_fileVars =>
        [StartsUp /\ file # Closed /\ (\E l \in Leaf : Valid(Reset(file.doc, l))) =>
           Cardinality({l \in Leaf : data'[l] # file.doc[l]}) <= 1]_fileVars
  BY FileNextHolds DEF FileStep
<1> QED BY <1>1, <1>2, FileInvariant, PTL DEF SettingsKept, UnknownKept, OneFaultOneReset

-----------------------------------------------------------------------------
(* The knowledge base.  The chunks of some documents, however they are     *)
(* counted: every document counts once.                                    *)
Total(S) == FoldSet(LAMBDA r, s : r.n + s, 0, S)

(* The sum over a finite set, one member at a time.                        *)
LEMMA TotalFacts ==
  ASSUME NEW S, IsFiniteSet(S), \A x \in S : x.n \in Nat
  PROVE  /\ Total({}) = 0 /\ Total(S) \in Nat
         /\ \A x \in S : Total(S \ {x}) \in Nat /\ Total(S) = Total(S \ {x}) + x.n
<1> DEFINE first(s) == CHOOSE x \in s : TRUE
           step == [x \in S |-> [v \in Nat |-> x.n + v]]
           pick == [s \in SUBSET S |-> first(s)]
           Is(T, g) == g = [s \in SUBSET T |-> IF s = {} THEN 0 ELSE first(s).n + g[s \ {first(s)}]]
           it(T) == CHOOSE g : Is(T, g)
<1>1. \A T : Total(T) = it(T)[T] BY DEF Total, FoldSet, MapThenFoldSet
<1>2. \A s \in SUBSET S : s # {} => first(s) \in s OBVIOUS
<1> HIDE DEF first
<1>3. Picks(pick, S) BY <1>2 DEF Picks
<1>4. StepsIn(step, S, Nat) BY DEF StepsIn
<1>5. PICK h \in [SUBSET S -> Nat] : IsFold(h, S, 0, pick, step)
  <2> HIDE DEF step, pick
  <2> QED BY <1>3, <1>4, FoldExists
<1>6. ASSUME NEW s \in SUBSET S
      PROVE  h[s] = IF s = {} THEN 0 ELSE first(s).n + h[s \ {first(s)}]
  <2>1. CASE s = {} BY <1>5, <2>1 DEF IsFold
  <2>2. CASE s # {}
    <3>1. pick[s] = first(s) /\ first(s) \in S BY <1>2, <2>2
    <3>2. h[s \ {first(s)}] \in Nat BY <1>5
    <3> QED BY <1>5, <2>2, <3>1, <3>2 DEF IsFold
  <2> QED BY <2>1, <2>2
<1>7. ASSUME NEW T \in SUBSET S PROVE Total(T) = h[T]
  <2>1. Is(T, [s \in SUBSET T |-> h[s]])
    <3> DEFINE g == [s \in SUBSET T |-> h[s]]
    <3>1. ASSUME NEW s \in SUBSET T
          PROVE  g[s] = IF s = {} THEN 0 ELSE first(s).n + g[s \ {first(s)}]
      <4>1. s \in SUBSET S /\ s \ {first(s)} \in SUBSET T OBVIOUS
      <4> QED BY <1>6, <4>1
    <3> QED BY <3>1
  <2>2. Is(T, it(T)) BY <2>1
  <2> DEFINE f == it(T)
             G == {s \in SUBSET T : f[s] = h[s]}
  <2>3. \A s \in SUBSET T : f[s] = IF s = {} THEN 0 ELSE first(s).n + f[s \ {first(s)}]
    <3>1. Is(T, f) BY <2>2
    <3> HIDE DEF f
    <3> QED BY <3>1
  <2> HIDE DEF f
  <2>4. ASSUME NEW s \in SUBSET T, \A t \in SUBSET s : t # s => t \in G PROVE s \in G
    <3>1. CASE s = {} BY <1>6, <2>3, <3>1
    <3>2. CASE s # {}
      <4>1. s \in SUBSET S /\ first(s) \in s BY <1>2, <3>2
      <4>2. s \ {first(s)} \in SUBSET s /\ s \ {first(s)} # s BY <4>1
      <4>3. f[s \ {first(s)}] = h[s \ {first(s)}] BY <2>4, <4>2
      <4> QED BY <1>6, <2>3, <3>2, <4>1, <4>3
    <3> QED BY <3>1, <3>2
  <2>5. IsFiniteSet(T) BY FS_Subset
  <2>6. \A s \in G : f[s] = h[s] OBVIOUS
  <2> HIDE DEF G
  <2>7. SUBSET T \subseteq G BY <2>4, <2>5, FiniteInduct
  <2> QED BY <1>1, <2>6, <2>7 DEF f
<1>8. \A s \in SUBSET S : h[s] \in Nat BY <1>5
<1> HIDE DEF step, pick
<1>9. \A s \in SUBSET S : \A x \in s : h[s] = h[s \ {x}] + x.n
  <2> DEFINE G == {s \in SUBSET S : \A x \in s : h[s] = h[s \ {x}] + x.n}
  <2>1. ASSUME NEW s \in SUBSET S, \A t \in SUBSET s : t # s => t \in G PROVE s \in G
    <3>1. SUFFICES ASSUME NEW x \in s PROVE h[s] = h[s \ {x}] + x.n OBVIOUS
    <3> DEFINE y == first(s)
    <3>2. y \in s /\ h[s] = y.n + h[s \ {y}] BY <1>2, <1>6
    <3> HIDE DEF y
    <3>3. /\ x.n \in Nat /\ y.n \in Nat /\ h[s \ {x}] \in Nat /\ h[s \ {y}] \in Nat
          /\ h[(s \ {x}) \ {y}] \in Nat
      BY <1>8, <3>2
    <3>4. CASE x = y BY <3>2, <3>3, <3>4
    <3>5. CASE x # y
      <4>1. s \ {x} \in G /\ s \ {y} \in G BY <2>1, <3>2
      <4>2. x \in s \ {y} /\ y \in s \ {x} BY <3>2, <3>5
      <4>3. h[s \ {x}] = h[(s \ {x}) \ {y}] + y.n BY <4>1, <4>2
      <4>4. h[s \ {y}] = h[(s \ {y}) \ {x}] + x.n BY <4>1, <4>2
      <4>5. (s \ {x}) \ {y} = (s \ {y}) \ {x} OBVIOUS
      <4> DEFINE k == h[(s \ {x}) \ {y}]
      <4>6. k \in Nat /\ h[s \ {x}] = k + y.n BY <3>3, <4>3
      <4>7. h[s \ {y}] = k + x.n BY <4>4, <4>5
      <4> HIDE DEF k
      <4> QED BY <3>2, <3>3, <4>6, <4>7
    <3> QED BY <3>4, <3>5
  <2>2. \A s \in G : \A x \in s : h[s] = h[s \ {x}] + x.n OBVIOUS
  <2> HIDE DEF G
  <2>3. SUBSET S \subseteq G BY <2>1, FiniteInduct
  <2> QED BY <2>2, <2>3
<1>10. Total({}) = 0 BY <1>6, <1>7
<1> QED BY <1>7, <1>8, <1>9, <1>10

(* What is known of a job before it stores.                                *)
Ingests == [pc : {"new", "embed", "check", "store", "over"}, c : Collection \cup {Idle.c},
            n : Pieces \cup {0}, d : Dim \cup {NoDim}, tries : {0, 1}, known : Dim \cup {NoDim}]
Rows == [by : Ingest, c : Collection, n : Pieces, d : Dim]
RagTyped ==
  /\ exists \in SUBSET Collection /\ dim \in [Collection -> Dim \cup {NoDim}] /\ model \in Dim
  /\ IsFiniteSet(docs) /\ docs \subseteq Rows /\ raced \in SUBSET Collection
  /\ job \in [Ingest -> Ingests]
  /\ \A i \in Ingest : job[i].pc \in {"embed", "check", "store"} =>
       job[i].c \in Collection /\ job[i].n \in Pieces /\ job[i].d \in Dim

(* What an ingest checked still holds, unless its collection was changed.  *)
Allowed(i) ==
  job[i].pc = "store" /\ job[i].c \notin raced =>
    /\ job[i].c \in exists /\ job[i].known = dim[job[i].c] /\ Fits(i)
RagInv == RagTyped /\ SoundUnlessRaced /\ \A i \in Ingest : Allowed(i)

(* The documents of a collection.                                          *)
In(c) == {r \in docs : r.c = c}

(* The count of a collection is the sum over its documents.                *)
LEMMA CountFacts ==
  ASSUME RagTyped, NEW c \in Collection
  PROVE  /\ ChunkCount(c) = Total(In(c)) /\ ChunkCount(c) \in Nat /\ IsFiniteSet(In(c))
         /\ \A r \in In(c) : r.n \in Nat
<1>1. IsFiniteSet(In(c)) BY FS_Subset DEF RagTyped, In
<1>2. \A r \in In(c) : r.n \in Nat BY ChunksCounted DEF RagTyped, In, Rows
<1>3. ChunkCount(c) = Total(In(c)) BY DEF ChunkCount, Total, In
<1> QED BY <1>1, <1>2, <1>3, TotalFacts

(* The count now and after a step.                                         *)
LEMMA CountIs ==
  ASSUME NEW c
  PROVE  /\ ChunkCount(c) = Total({r \in docs : r.c = c})
         /\ ChunkCount(c)' = Total({r \in docs' : r.c = c})
BY DEF ChunkCount, Total, FoldSet, MapThenFoldSet

(* A step that takes no job further than its check, and no document.       *)
LEMMA JobsMove ==
  ASSUME RagInv, UNCHANGED store, model' \in Dim, job' \in [Ingest -> Ingests],
         \A i \in Ingest :
           \/ job'[i] = job[i]
           \/ job'[i].pc \in {"embed", "check"} /\ job'[i].c \in Collection
                /\ job'[i].n \in Pieces /\ job'[i].d \in Dim
           \/ job'[i].pc \in {"new", "over"}
  PROVE  RagInv'
<1>1. /\ exists' = exists /\ dim' = dim /\ docs' = docs /\ raced' = raced BY DEF store
<1>2. RagTyped' BY <1>1 DEF RagInv, RagTyped
<1>5. \A c : ChunkCount(c)' = ChunkCount(c) BY <1>1, CountIs
<1>3. SoundUnlessRaced' BY <1>1, <1>5 DEF RagInv, SoundUnlessRaced, Sound
<1>4. ASSUME NEW i \in Ingest PROVE Allowed(i)'
  <2>1. CASE job'[i] = job[i] BY <1>1, <1>5, <2>1 DEF RagInv, Allowed, Fits
  <2>2. CASE job'[i].pc # "store" BY <2>2 DEF Allowed
  <2> QED BY <2>1, <2>2
<1> QED BY <1>2, <1>3, <1>4 DEF RagInv

(* The jobs' steps before a check, and their ends.                         *)
LEMMA SubmitKeeps ==
  ASSUME RagInv, NEW i \in Ingest, NEW c \in Collection, NEW n \in Pieces, Submit(i, c, n)
  PROVE  RagInv'
<1> DEFINE e == [Idle EXCEPT !.pc = "embed", !.c = c, !.n = n, !.d = model]
<1>1. /\ e \in Ingests /\ e.pc = "embed" /\ e.c = c /\ e.n = n /\ e.d = model
  <2>1. model \in Dim BY DEF RagInv, RagTyped
  <2> QED BY <2>1 DEF Idle, Ingests
<1>2. job' = [job EXCEPT ![i] = e] /\ UNCHANGED <<store, model>> BY DEF Submit
<1> HIDE DEF e
<1>3. model \in Dim /\ job \in [Ingest -> Ingests] BY DEF RagInv, RagTyped
<1> QED BY <1>1, <1>2, <1>3, JobsMove

(* The embedding of a document and the ways it fails.                      *)
LEMMA EmbedKeeps ==
  ASSUME RagInv, NEW i \in Ingest, Unreachable(i) \/ Abandoned(i) \/ Embedded(i) PROVE RagInv'
<1> DEFINE x == job[i]
           e1 == [x EXCEPT !.pc = "over"]
           e2 == [x EXCEPT !.pc = "check"]
           e3 == [x EXCEPT !.tries = 1]
<1>1. /\ job \in [Ingest -> Ingests] /\ x \in Ingests /\ x.pc = "embed" /\ model \in Dim
      /\ x.c \in Collection /\ x.n \in Pieces /\ x.d \in Dim
  BY DEF RagInv, RagTyped, Unreachable, Abandoned, Embedded
<1>2. /\ e1 \in Ingests /\ e1.pc = "over" /\ e2 \in Ingests /\ e2.pc = "check"
      /\ e3 \in Ingests /\ e3.pc = "embed" /\ e2.c = x.c /\ e2.n = x.n /\ e2.d = x.d
      /\ e3.c = x.c /\ e3.n = x.n /\ e3.d = x.d
  BY <1>1 DEF Ingests
<1>3. /\ UNCHANGED <<store, model>>
      /\ \/ job' = [job EXCEPT ![i] = e1] \/ job' = [job EXCEPT ![i] = e2]
         \/ job' = [job EXCEPT ![i] = e3]
  BY DEF Unreachable, Abandoned, Embedded, Leave
<1>4. PICK e \in {e1, e2, e3} : job' = [job EXCEPT ![i] = e] BY <1>3
<1>5. /\ e \in Ingests
      /\ \/ e.pc = "over"
         \/ e.pc \in {"embed", "check"} /\ e.c \in Collection /\ e.n \in Pieces /\ e.d \in Dim
  BY <1>1, <1>2, <1>4
<1> HIDE DEF x, e1, e2, e3
<1>6. job' \in [Ingest -> Ingests] /\ job'[i] = e /\ \A j \in Ingest \ {i} : job'[j] = job[j]
  BY <1>1, <1>4, <1>5
<1> QED BY <1>1, <1>3, <1>5, <1>6, JobsMove

(* A restart ends every ingest.                                            *)
LEMMA RagRestartKeeps == ASSUME RagInv, RagRestart PROVE RagInv'
<1> DEFINE e(i) == [job[i] EXCEPT !.pc = "over"]
<1>1. \A i \in Ingest : job[i] \in Ingests BY DEF RagInv, RagTyped
<1>2. \A i \in Ingest : e(i) \in Ingests /\ e(i).pc = "over" BY <1>1 DEF Ingests
<1>3. /\ UNCHANGED <<store, model>>
      /\ job' = [i \in Ingest |-> IF job[i].pc = "new" THEN job[i] ELSE e(i)]
  BY DEF RagRestart
<1> HIDE DEF e
<1>4. job' \in [Ingest -> Ingests] BY <1>1, <1>2, <1>3
<1>5. \A i \in Ingest : job'[i] = job[i] \/ job'[i].pc = "over" BY <1>2, <1>3
<1>6. model' \in Dim BY <1>3 DEF RagInv, RagTyped
<1> QED BY <1>3, <1>4, <1>5, <1>6, JobsMove

(* The check allows what holds when it is made.                            *)
LEMMA CheckKeeps == ASSUME RagInv, NEW i \in Ingest, Check(i) PROVE RagInv'
<1> DEFINE x == job[i]
           e1 == [x EXCEPT !.pc = "over"]
           e2 == [x EXCEPT !.pc = "store", !.known = dim[x.c]]
<1>1. /\ job \in [Ingest -> Ingests] /\ x \in Ingests /\ x.pc = "check" /\ model \in Dim
      /\ x.c \in Collection /\ x.n \in Pieces /\ x.d \in Dim /\ dim[x.c] \in Dim \cup {NoDim}
  BY DEF RagInv, RagTyped, Check
<1>2. /\ e1 \in Ingests /\ e1.pc = "over"
      /\ e2 \in Ingests /\ e2.pc = "store" /\ e2.known = dim[x.c]
      /\ e2.c = x.c /\ e2.n = x.n /\ e2.d = x.d
  BY <1>1 DEF Ingests
<1>3. /\ UNCHANGED <<store, model>>
      /\ \/ job' = [job EXCEPT ![i] = e1]
         \/ job' = [job EXCEPT ![i] = e2] /\ x.c \in exists /\ Fits(i)
  BY DEF Check, Leave
<1>4. CASE job' = [job EXCEPT ![i] = e1]
  <2> HIDE DEF x, e1
  <2>1. job' \in [Ingest -> Ingests] /\ job'[i] = e1 /\ \A j \in Ingest \ {i} : job'[j] = job[j]
    BY <1>1, <1>2, <1>4
  <2> QED BY <1>1, <1>2, <1>3, <2>1, JobsMove
<1>5. CASE job' = [job EXCEPT ![i] = e2] /\ x.c \in exists /\ Fits(i)
  <2>1. dim[x.c] \in {NoDim, x.d} /\ ChunkCount(x.c) + x.n <= MaxChunks BY <1>5 DEF Fits
  <2> HIDE DEF x, e2
  <2>2. job' \in [Ingest -> Ingests] /\ job'[i] = e2 /\ \A j \in Ingest \ {i} : job'[j] = job[j]
    BY <1>1, <1>2, <1>5
  <2>3. /\ exists' = exists /\ dim' = dim /\ docs' = docs /\ raced' = raced /\ model' = model
    BY <1>3 DEF store
  <2>4. \A c : ChunkCount(c)' = ChunkCount(c) BY <2>3, CountIs
  <2>5. RagTyped' BY <1>1, <1>2, <2>2, <2>3 DEF RagInv, RagTyped
  <2>6. SoundUnlessRaced' BY <2>3, <2>4 DEF RagInv, SoundUnlessRaced, Sound
  <2>7. ASSUME NEW j \in Ingest, j # i PROVE Allowed(j)'
    BY <2>2, <2>3, <2>4, <2>7 DEF RagInv, Allowed, Fits
  <2>8. Allowed(i)' BY <1>2, <1>5, <2>1, <2>2, <2>3, <2>4 DEF Allowed, Fits
  <2> QED BY <2>5, <2>6, <2>7, <2>8 DEF RagInv
<1> QED BY <1>3, <1>4, <1>5

(* The embedding model is changed.                                         *)
LEMMA ConfigureKeeps == ASSUME RagInv, NEW d \in Dim, Configure(d) PROVE RagInv'
<1>1. UNCHANGED <<store, job>> /\ model' = d BY DEF Configure
<1>2. job' \in [Ingest -> Ingests] BY <1>1 DEF RagInv, RagTyped
<1> QED BY <1>1, <1>2, JobsMove

(* A step that changes one collection: who checked it is told, or what was *)
(* checked still holds.                                                    *)
LEMMA ChangeKeeps ==
  ASSUME RagInv, NEW c \in Collection, RagTyped',
         raced' = raced \/ raced' = raced \cup {c},
         \A i \in Ingest : job'[i].pc = "store" => job'[i] = job[i],
         \A k \in Collection \ {c} :
           (k \in exists' <=> k \in exists) /\ dim'[k] = dim[k]
           /\ {r \in docs' : r.c = k} = {r \in docs : r.c = k},
         c \notin raced' => Sound(c)' /\ \A i \in Ingest : job'[i].c = c => Allowed(i)'
  PROVE  RagInv'
<1>1. \A k \in Collection \ {c} : ChunkCount(k)' = ChunkCount(k) BY CountIs
<1>2. SoundUnlessRaced'
  <2>1. ASSUME NEW k \in Collection, k # c, k \notin raced' PROVE Sound(k)'
    <3>1. Sound(k) BY <2>1 DEF RagInv, SoundUnlessRaced
    <3>2. \A r \in docs' : r.c = k => r \in docs BY <2>1
    <3> QED BY <1>1, <2>1, <3>1, <3>2 DEF Sound
  <2> QED BY <2>1 DEF SoundUnlessRaced
<1>3. ASSUME NEW i \in Ingest PROVE Allowed(i)'
  <2>1. CASE job'[i].pc # "store" \/ job'[i].c \in raced' BY <2>1 DEF Allowed
  <2>2. CASE job'[i].pc = "store" /\ job'[i].c \notin raced' /\ job'[i].c # c
    <3>1. job'[i] = job[i] /\ job[i].c \in Collection \ {c} /\ job[i].c \notin raced
      BY <2>2 DEF RagInv, RagTyped
    <3>2. Allowed(i) BY DEF RagInv
    <3>3. /\ job[i].c \in exists' /\ dim'[job[i].c] = dim[job[i].c]
          /\ ChunkCount(job[i].c)' = ChunkCount(job[i].c)
      BY <1>1, <2>2, <3>1, <3>2 DEF Allowed
    <3> QED BY <2>2, <3>1, <3>2, <3>3 DEF Allowed, Fits
  <2> QED BY <2>1, <2>2
<1> QED BY <1>2, <1>3 DEF RagInv

(* Collections come and go.                                                *)
LEMMA CollectionKeeps ==
  ASSUME RagInv, NEW c \in Collection, CreateCollection(c) \/ DeleteCollection(c) PROVE RagInv'
<1>1. /\ dim' = [dim EXCEPT ![c] = NoDim] /\ Races(c) /\ UNCHANGED <<model, job>>
      /\ exists' = exists \cup {c} \/ exists' = exists \ {c}
      /\ \/ docs' = {r \in docs : r.c # c}
         \/ docs' = docs /\ c \notin exists /\ c \in exists'
  BY DEF CreateCollection, DeleteCollection
<1>2. raced' = raced \/ raced' = raced \cup {c} BY <1>1 DEF Races
<1>3. IsFiniteSet(docs') /\ docs' \subseteq docs BY <1>1, FS_Subset DEF RagInv, RagTyped
<1>4. RagTyped' BY <1>1, <1>2, <1>3 DEF RagInv, RagTyped
<1>5. ASSUME c \notin raced' PROVE Sound(c)' /\ \A i \in Ingest : job'[i].c = c => Allowed(i)'
  <2>1. Checked(c) = {} /\ c \notin raced BY <1>1, <1>5 DEF Races
  <2>2. {r \in docs' : r.c = c} = {}
    BY <1>1, <2>1 DEF RagInv, SoundUnlessRaced, Sound
  <2>3. ChunkCount(c)' = 0 BY <2>2, CountIs, TotalFacts, FS_EmptySet
  <2>4. Sound(c)' BY <2>2, <2>3, ChunksCounted DEF Sound
  <2>5. \A i \in Ingest : job'[i].c = c => job'[i].pc # "store" BY <1>1, <2>1 DEF Checked
  <2> QED BY <2>4, <2>5 DEF Allowed
<1>6. \A k \in Collection \ {c} :
        (k \in exists' <=> k \in exists) /\ dim'[k] = dim[k]
        /\ {r \in docs' : r.c = k} = {r \in docs : r.c = k}
  BY <1>1 DEF RagInv, RagTyped
<1> QED BY <1>1, <1>2, <1>4, <1>5, <1>6, ChangeKeeps

(* A document that is deleted takes its chunks with it.                    *)
LEMMA DeleteDocumentKeeps == ASSUME RagInv, NEW r \in docs, DeleteDocument(r) PROVE RagInv'
<1> DEFINE c == r.c
<1>1. /\ c \in Collection /\ docs' = docs \ {r}
      /\ exists' = exists /\ dim' = dim /\ model' = model /\ job' = job /\ raced' = raced
  BY DEF DeleteDocument, RagInv, RagTyped, Rows
<1>2. IsFiniteSet(docs') /\ docs' \subseteq docs BY <1>1, FS_Subset DEF RagInv, RagTyped
<1>3. RagTyped' BY <1>1, <1>2 DEF RagInv, RagTyped
<1>4. ChunkCount(c)' \in Nat /\ ChunkCount(c) \in Nat /\ ChunkCount(c)' <= ChunkCount(c)
  <2>1. {x \in docs' : x.c = c} = In(c) \ {r} /\ r \in In(c) BY <1>1 DEF In
  <2>2. /\ Total(In(c) \ {r}) \in Nat /\ Total(In(c)) = Total(In(c) \ {r}) + r.n /\ r.n \in Nat
    BY <1>1, <2>1, CountFacts, TotalFacts DEF RagInv
  <2>3. ChunkCount(c)' = Total(In(c) \ {r}) /\ ChunkCount(c) = Total(In(c))
    BY <1>1, <2>1, CountIs DEF In
  <2> QED BY <2>2, <2>3
<1>5. ASSUME c \notin raced' PROVE Sound(c)' /\ \A i \in Ingest : job'[i].c = c => Allowed(i)'
  <2>1. Sound(c) BY <1>1, <1>5 DEF RagInv, SoundUnlessRaced
  <2>2. Sound(c)' BY <1>1, <1>4, <2>1, ChunksCounted DEF Sound
  <2>3. ASSUME NEW i \in Ingest, job'[i].c = c PROVE Allowed(i)'
    <3>1. Allowed(i) BY DEF RagInv
    <3>2. CASE job[i].pc # "store" BY <1>1, <3>2 DEF Allowed
    <3>3. CASE job[i].pc = "store"
      <4>1. job[i].n \in Nat BY <3>3, ChunksCounted DEF RagInv, RagTyped
      <4>2. /\ c \in exists /\ job[i].known = dim[c] /\ dim[c] \in {NoDim, job[i].d}
            /\ ChunkCount(c) + job[i].n <= MaxChunks
        BY <1>1, <1>5, <2>3, <3>1, <3>3 DEF Allowed, Fits
      <4>3. ChunkCount(c)' + job[i].n <= MaxChunks BY <1>4, <4>1, <4>2, ChunksCounted
      <4> QED BY <1>1, <2>3, <4>2, <4>3 DEF Allowed, Fits
    <3> QED BY <3>2, <3>3
  <2> QED BY <2>2, <2>3
<1>6. \A k \in Collection \ {c} : {x \in docs' : x.c = k} = {x \in docs : x.c = k} BY <1>1
<1> HIDE DEF c
<1> QED BY <1>1, <1>3, <1>5, <1>6, ChangeKeeps

(* The transaction.                                                        *)
LEMMA InsertKeeps == ASSUME RagInv, NEW i \in Ingest, Insert(i) PROVE RagInv'
<1>13. PICK c \in Collection : c = job[i].c BY DEF Insert, RagInv, RagTyped
<1> DEFINE x == [by |-> i, c |-> c, n |-> job[i].n, d |-> job[i].d]
           e == [job[i] EXCEPT !.pc = "over"]
<1>1. /\ job[i].pc = "store" /\ docs' = docs \cup {x}
      /\ dim' = IF job[i].known = NoDim /\ c \in exists THEN [dim EXCEPT ![c] = job[i].d] ELSE dim
      /\ raced' = IF Checked(c) = {i} THEN raced ELSE raced \cup {c}
      /\ job' = [job EXCEPT ![i] = e] /\ exists' = exists /\ model' = model
  BY <1>13 DEF Insert, Leave
<1>2. /\ c \in Collection /\ job[i].n \in Pieces /\ job[i].d \in Dim /\ job[i] \in Ingests
      /\ job[i].n \in Nat
  BY <1>1, ChunksCounted DEF RagInv, RagTyped
<1>3. e \in Ingests /\ e.pc = "over" BY <1>2 DEF Ingests
<1>4. x \in Rows /\ x.c = c /\ x.n = job[i].n /\ x.d = job[i].d BY <1>2 DEF Rows
<1> HIDE DEF x, e
<1>5. IsFiniteSet(docs') BY <1>1, FS_AddElement DEF RagInv, RagTyped
<1>6. job' \in [Ingest -> Ingests] /\ job'[i] = e /\ \A j \in Ingest \ {i} : job'[j] = job[j]
  BY <1>1, <1>3 DEF RagInv, RagTyped
<1>7. dim' \in [Collection -> Dim \cup {NoDim}] /\ \A k \in Collection \ {c} : dim'[k] = dim[k]
  BY <1>1, <1>2 DEF RagInv, RagTyped
<1>8. RagTyped' BY <1>1, <1>2, <1>3, <1>4, <1>5, <1>6, <1>7 DEF RagInv, RagTyped
<1>9. ASSUME c \notin raced' PROVE Sound(c)' /\ \A j \in Ingest : job'[j].c = c => Allowed(j)'
  <2>1. Checked(c) = {i} /\ c \notin raced BY <1>1, <1>9
  <2>2. /\ c \in exists /\ job[i].known = dim[c] /\ dim[c] \in {NoDim, job[i].d}
        /\ ChunkCount(c) + job[i].n <= MaxChunks
    BY <1>1, <1>13, <2>1 DEF RagInv, Allowed, Fits
  <2>3. dim'[c] = job[i].d BY <1>1, <1>2, <2>2 DEF RagInv, RagTyped
  <2>4. Sound(c) BY <1>2, <2>1 DEF RagInv, SoundUnlessRaced
  <2>5. \A r \in docs : r.c = c => r.d = job[i].d
    BY <2>2, <2>4, DimsKnown DEF Sound, RagInv, RagTyped, Rows
  <2>6. {r \in docs' : r.c = c} = In(c) \cup {x} BY <1>1, <1>4 DEF In
  <2>7. ChunkCount(c)' <= MaxChunks
    <3>1. CASE x \in In(c)
      <4>1. ChunkCount(c)' = ChunkCount(c) BY <2>6, <3>1, CountIs DEF In
      <4> QED BY <2>4, <4>1 DEF Sound
    <3>2. CASE x \notin In(c)
      <4> DEFINE S == In(c) \cup {x}
      <4>1. IsFiniteSet(S) /\ \A r \in S : r.n \in Nat
        BY <1>2, <1>4, CountFacts, FS_AddElement DEF RagInv
      <4>2. x \in S /\ S \ {x} = In(c) BY <3>2
      <4> HIDE DEF S
      <4>3. Total(S) = Total(S \ {x}) + x.n BY <4>1, <4>2, TotalFacts
      <4>4. ChunkCount(c)' = Total(S) /\ ChunkCount(c) = Total(In(c))
        BY <2>6, CountIs DEF S, In
      <4> QED BY <1>4, <2>2, <4>2, <4>3, <4>4
    <3> QED BY <3>1, <3>2
  <2>8. Sound(c)' BY <1>1, <1>4, <2>2, <2>3, <2>5, <2>7 DEF Sound
  <2>9. \A j \in Ingest : job'[j].c = c => job'[j].pc # "store"
    BY <1>3, <1>6, <2>1 DEF Checked
  <2> QED BY <2>8, <2>9 DEF Allowed
<1>10. \A j \in Ingest : job'[j].pc = "store" => job'[j] = job[j] BY <1>3, <1>6
<1>11. \A k \in Collection \ {c} : {r \in docs' : r.c = k} = {r \in docs : r.c = k}
  BY <1>1, <1>4
<1>12. raced' = raced \/ raced' = raced \cup {c} BY <1>1
<1> QED BY <1>1, <1>2, <1>7, <1>8, <1>9, <1>10, <1>11, <1>12, ChangeKeeps

(* The knowledge base at the start.                                        *)
LEMMA RagInitHolds == RagInit => RagInv
<1> SUFFICES ASSUME RagInit PROVE RagInv
  OBVIOUS
<1>1. Idle \in Ingests /\ Idle.pc = "new" BY DEF Idle, Ingests
<1>2. RagTyped BY <1>1, FS_EmptySet DEF RagInit, RagTyped
<1>3. \A c \in Collection : ChunkCount(c) = 0
  <2>1. \A c : {r \in docs : r.c = c} = {} BY DEF RagInit
  <2> QED BY <2>1, CountIs, TotalFacts, FS_EmptySet
<1>4. SoundUnlessRaced BY <1>3, ChunksCounted DEF RagInit, SoundUnlessRaced, Sound
<1>5. \A i \in Ingest : Allowed(i) BY <1>1 DEF RagInit, Allowed
<1> QED BY <1>2, <1>4, <1>5 DEF RagInv

(* Every step keeps the invariant.                                         *)
LEMMA RagNextHolds == RagInv /\ [RagNext]_ragVars => RagInv'
<1> SUFFICES ASSUME RagInv, [RagNext]_ragVars PROVE RagInv'
  OBVIOUS
<1>1. CASE UNCHANGED ragVars
  <2>1. UNCHANGED store /\ model' = model /\ job' = job BY <1>1 DEF ragVars, store
  <2>2. model' \in Dim /\ job' \in [Ingest -> Ingests] BY <2>1 DEF RagInv, RagTyped
  <2> QED BY <2>1, <2>2, JobsMove
<1> QED BY <1>1, CollectionKeeps, DeleteDocumentKeeps, ConfigureKeeps, EmbedKeeps, CheckKeeps,
           InsertKeeps, SubmitKeeps, RagRestartKeeps DEF RagNext

(* The invariant of the knowledge base, over a whole behaviour.            *)
LEMMA RagInvariant == Spec => []RagInv
<1>1. Init => RagInv BY RagInitHolds DEF Init
<1>2. RagInv /\ [Next]_vars => RagInv' BY RagNextHolds, OneServiceSteps
<1> QED BY <1>1, <1>2, PTL DEF Spec

(* A collection nobody changed between a check and its insertion has no    *)
(* more chunks than it may, in one dimension: for any ingests, dimensions  *)
(* and limits.                                                             *)
THEOREM CollectionsSound == Spec => []SoundUnlessRaced
<1>1. RagInv => SoundUnlessRaced BY DEF RagInv
<1> QED BY <1>1, RagInvariant, PTL

-----------------------------------------------------------------------------
(* The variables of every service have the shapes the code gives them, for *)
(* any tasks, models, documents, collections and bounds.                   *)
THEOREM TypeCorrect == Spec => []TypeOK
<1>1. FileInv => FileTypeOK BY DEF FileInv, FileTypeOK, Files, Docs, IsFile
<1>2. RagInv => RagTypeOK BY DEF RagInv, RagTyped, RagTypeOK, Rows, Ingests
<1>3. ResInv => ResTypeOK
  BY DEF ResInv, ResTyped, ResTypeOK, Patches0, Asks, Pres, Puts, Seens, NoPut
<1>4. /\ ProcInv => ProcTypeOK
      /\ GateInv => GateTypeOK
      /\ LifeInv => LifeTypeOK
  BY SupervisorPromises, EndsWell DEF GateInv
<1>5. ProcInv /\ GateInv /\ LifeInv /\ FileInv /\ RagInv /\ ResInv => TypeOK
  BY <1>1, <1>2, <1>3, <1>4 DEF TypeOK
<1> QED BY <1>5, ProcInvariant, GateInvariant, LifeInvariant, FileInvariant, RagInvariant,
           ResInvariant, PTL
=============================================================================
