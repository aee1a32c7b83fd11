------------------------------ MODULE MCCaches ------------------------------
(* The prompt caches on one instance each: a worker has one of the three   *)
(* kinds, so a behaviour is one of exactly one of them.                    *)
EXTENDS PagedKV, Snapshots, VlmReuse
CONSTANTS a, b, b1, b2, b3, p1, p2, p3
VARIABLE kind
MCChains == {<<b1, b2>>, <<b1, b3>>}
MCRequests == {<<p1>>, <<p2, p1>>, <<p3, p2>>}
MCPrompts == {<<a>>, <<a, b>>, <<b, a>>, <<a, b, b>>, <<b, a, a, b>>}

Init == kind \in {"paged", "snapshots", "vlm"} /\ KVInit /\ SnapInit /\ ReuseInit
Next ==
  \/ kind = "paged" /\ KVNext /\ UNCHANGED <<kind, snapVars, reuseVars>>
  \/ kind = "snapshots" /\ SnapNext /\ UNCHANGED <<kind, kvVars, reuseVars>>
  \/ kind = "vlm" /\ ReuseNext /\ UNCHANGED <<kind, kvVars, snapVars>>
Spec == Init /\ [][Next]_<<kind, kvVars, snapVars, reuseVars>>

\* The variables of the three caches have the shapes the code gives them.
TypeOK == KVTypeOK /\ SnapTypeOK /\ ReuseTypeOK

\* The disk: an index that lists what is there, and both tiers within their budgets
\* whatever a kill, a clear or a write that fails leaves behind.
DiskKept == NoGhostEntry /\ SnapshotsBounded /\ DiskBounded
=============================================================================
