----------------------------- MODULE MCServices -----------------------------
(* The services of the coordinator that share no state, on one instance    *)
(* each: a behaviour is one of exactly one of them.                        *)
EXTENDS WorkerProcess, WorkerGate, PoolLifecycle, SettingsFile, RagIngest, Residents
CONSTANTS m1, m2
VARIABLE kind

MCCandidates == {<<"vlm">>, <<"vlm", "lm">>}
MCPatches ==
  {[l \in {"api.host", "security.allowLan"} |-> "other"], [l \in {"api.requireToken"} |-> "other"],
   [l \in {"adaptiveMemory.enabled"} |-> "other"], [l \in {"generation.memoryLimitRatio"} |-> "other"]}
Other(leaves) == [l \in Leaf |-> IF l \in leaves THEN "other" ELSE "default"]
MCExports ==
  {Other({"generation.memoryLimitRatio", "generation.wiredLimitRatio"}),
   Other({"contextCompression.enabled"}), Other(Lan)}

Here == [host |-> "local", port |-> 1]
Abroad == [host |-> "lan", port |-> 1]
NextDoor == [host |-> "local", port |-> 2]
MCEndpoint == {Here, Abroad, NextDoor}
MCPatch == {[m |-> m1, keep |-> TRUE], [m |-> m2, keep |-> FALSE]}
MCBody == {[ep |-> Abroad, pins |-> Absent], [ep |-> NextDoor, pins |-> {m2}]}

Init ==
  /\ kind \in {"process", "gate", "life", "file", "rag", "residents"}
  /\ ProcInit /\ GateInit /\ LifeInit /\ FileInit /\ RagInit /\ ResInit
  /\ kind # "residents" => pins = {}
  /\ kind # "rag" => model = CHOOSE d \in Dim : TRUE
Next ==
  \/ kind = "process" /\ ProcNext /\ UNCHANGED <<kind, gateVars, lifeVars, fileVars, ragVars, resVars>>
  \/ kind = "gate" /\ GateNext /\ UNCHANGED <<kind, procVars, lifeVars, fileVars, ragVars, resVars>>
  \/ kind = "life" /\ LifeNext /\ UNCHANGED <<kind, procVars, gateVars, fileVars, ragVars, resVars>>
  \/ kind = "file" /\ FileNext /\ UNCHANGED <<kind, procVars, gateVars, lifeVars, ragVars, resVars>>
  \/ kind = "rag" /\ RagNext /\ UNCHANGED <<kind, procVars, gateVars, lifeVars, fileVars, resVars>>
  \/ kind = "residents" /\ ResNext /\ UNCHANGED <<kind, procVars, gateVars, lifeVars, fileVars, ragVars>>
vars == <<kind, procVars, gateVars, lifeVars, fileVars, ragVars, resVars>>
Spec == Init /\ [][Next]_vars

\* The variables of the services have the shapes the code gives them.
TypeOK == ProcTypeOK /\ GateTypeOK /\ LifeTypeOK /\ FileTypeOK /\ RagTypeOK /\ ResTypeOK

\* A supervisor knows its workers, has the model it says is loaded, and its gate
\* is never left closed by a request that is gone; and the pool's workers end with
\* the coordinator, or can be found by the next one.
SupervisorSound ==
  /\ WorkersAccounted /\ LoadedIsHeld /\ GateNotStranded
  /\ ClosedForLoads /\ WorkersFindable /\ ExitsClean

\* The settings file keeps what the user and newer builds wrote: unknown keys, and
\* every valid value beside an invalid one.
SettingsKept == UnknownKept /\ OneFaultOneReset

\* A change of listeners and residents leaves a listener that serves, and the pins
\* that were asked for.
ResidentsServe == ListenerServes /\ PinsAsAsked

\* It leaves the settings of others alone, and a user's stop is not undone.
ResidentsKeep == OthersKept /\ StopSurvives
=============================================================================
