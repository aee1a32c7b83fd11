----------------------------- MODULE Snapshots -----------------------------
(***************************************************************************)
(* The prompt snapshots of mlx-lm workers                                  *)
(* (src/Workers/mlx_lm_worker/prompt_cache.py): one file per prompt prefix *)
(* and one index.json that every worker of the same model and runtime      *)
(* reads, changes and writes back.  A request looks for the longest listed *)
(* prefix of its prompt; a finished reply stores the prefix of its own.    *)
(***************************************************************************)
EXTENDS Integers, Sequences, SequencesExt, Recency

CONSTANTS
  Worker,        \* workers of one namespace: replicas of a model
  Prefix,      \* what snapshots are named after: token prefixes, by digest
  Requests,      \* prompts, each the sequence of its prefixes, longest first
  MaxBytes,      \* promptCache.diskMaxGB, in snapshots
  MaxSpoiled,    \* bound: files that become unreadable
  MaxKills       \* bound: kills of a worker

ASSUME RequestsSeq == Requests \subseteq Seq(Prefix) \ {<<>>}
\* A limit of 0 turns the budget off and is not modelled.
ASSUME LimitsNat == MaxBytes \in Nat \ {0} /\ {MaxSpoiled, MaxKills} \subseteq Nat

VARIABLES
  index,    \* index.json: the listed prefixes, in the order they were stored
  files,    \* the snapshot files, least recently used first
  health,    \* of each file: "whole", "torn" while it is written, "bad"
  wk,       \* the workers: [pc, r, k, seen]
  spoiled, kills

snapVars == <<index, files, health, wk, spoiled, kills>>

AtRest == [pc |-> "rest", r |-> <<>>, k |-> 1, seen |-> <<>>]
Step(x, step) == wk' = [wk EXCEPT ![x] = [wk[x] EXCEPT !.pc = step]]
Minus(s, d) == Without(s, {d})
There(d) == d \in ToSet(files)
Candidate(x) == wk[x].r[wk[x].k]
Own(x) == wk[x].r[1]

SnapInit ==
  /\ index = <<>> /\ files = <<>> /\ health = [d \in Prefix |-> "whole"]
  /\ wk = [x \in Worker |-> AtRest] /\ spoiled = 0 /\ kills = 0

-----------------------------------------------------------------------------
(* _fetch_disk: the index is read once, then its entries are tried.        *)
Fetch(x, r) ==
  /\ wk[x].pc = "rest"
  /\ wk' = [wk EXCEPT ![x] = [pc |-> "scan", r |-> r, k |-> 1, seen |-> index]]
  /\ UNCHANGED <<index, files, health, spoiled, kills>>
TryNext(x) == wk' = [wk EXCEPT ![x] = [wk[x] EXCEPT !.k = wk[x].k + 1]]
Skip(x) ==
  /\ wk[x].pc = "scan" /\ wk[x].k <= Len(wk[x].r)
  /\ Candidate(x) \notin ToSet(wk[x].seen) \/ ~There(Candidate(x))
  /\ TryNext(x) /\ UNCHANGED <<index, files, health, spoiled, kills>>
Listed(x) == /\ wk[x].pc = "scan" /\ wk[x].k <= Len(wk[x].r)
             /\ Candidate(x) \in ToSet(wk[x].seen) /\ There(Candidate(x))
Reuse(x) ==
  /\ Listed(x) /\ health[Candidate(x)] = "whole"
  /\ files' = Recent(files, Candidate(x))
  /\ Step(x, "serve") /\ UNCHANGED <<index, health, spoiled, kills>>
\* An unreadable snapshot is removed and dropped from the entries read above.
Discard(x) ==
  /\ Listed(x) /\ health[Candidate(x)] # "whole"
  /\ files' = Minus(files, Candidate(x)) /\ Step(x, "rewrite")
  /\ UNCHANGED <<index, health, spoiled, kills>>
(* mutant: the index keeps the entry of the snapshot that was removed. *)
Rewrite_Forgets(x) ==
  /\ wk[x].pc = "rewrite"
  /\ wk' = [wk EXCEPT ![x] = [wk[x] EXCEPT !.pc = "scan", !.k = wk[x].k + 1]]
  /\ UNCHANGED <<index, files, health, spoiled, kills>>
Rewrite(x) ==
  /\ wk[x].pc = "rewrite"
  /\ index' = Minus(wk[x].seen, Candidate(x))
  /\ wk' = [wk EXCEPT ![x] = [wk[x] EXCEPT !.pc = "scan", !.k = wk[x].k + 1]]
  /\ UNCHANGED <<files, health, spoiled, kills>>
Missed(x) ==
  /\ wk[x].pc = "scan" /\ wk[x].k > Len(wk[x].r)
  /\ Step(x, "serve") /\ UNCHANGED <<index, files, health, spoiled, kills>>

-----------------------------------------------------------------------------
(* _store_disk, at the end of the reply.                                   *)
\* A reply that was interrupted, or whose prompt is too short, stores nothing.
NotStored(x) ==
  /\ wk[x].pc = "serve"
  /\ wk' = [wk EXCEPT ![x] = AtRest] /\ UNCHANGED <<index, files, health, spoiled, kills>>
StoreBegin(x) ==
  /\ wk[x].pc = "serve"
  /\ wk' = [wk EXCEPT ![x] =
       IF Own(x) \in ToSet(index) THEN AtRest ELSE [wk[x] EXCEPT !.pc = "write", !.seen = index]]
  /\ UNCHANGED <<index, files, health, spoiled, kills>>
\* The snapshot is written in place, under its final name.
Write(x) ==
  /\ wk[x].pc = "write"
  /\ files' = Recent(files, Own(x))
  /\ health' = [health EXCEPT ![Own(x)] = "torn"]
  /\ Step(x, "written") /\ UNCHANGED <<index, spoiled, kills>>
\* A file removed meanwhile is noticed when its mode is set.
Written(x) ==
  /\ wk[x].pc = "written"
  /\ IF There(Own(x))
       THEN health' = [health EXCEPT ![Own(x)] = "whole"] /\ Step(x, "list")
       ELSE UNCHANGED health /\ wk' = [wk EXCEPT ![x] = AtRest]
  /\ UNCHANGED <<index, files, spoiled, kills>>
List(x) ==
  /\ wk[x].pc = "list"
  /\ index' = Append(wk[x].seen, Own(x))
  /\ Step(x, "budget") /\ UNCHANGED <<files, health, spoiled, kills>>

\* _enforce_disk_budget: least recently used first, over what the index lists.
Counted == Without(files, Prefix \ ToSet(index))
Excess == IF Len(Counted) > MaxBytes THEN Len(Counted) - MaxBytes ELSE 0
Victims == ToSet(SubSeq(Counted, 1, Excess))
Budget(x) ==
  /\ wk[x].pc = "budget"
  /\ files' = Without(files, Victims)
  /\ wk' = [wk EXCEPT ![x] =
       IF Excess = 0 THEN AtRest
       ELSE [wk[x] EXCEPT !.pc = "evicted", !.seen = Without(index, Victims)]]
  /\ UNCHANGED <<index, health, spoiled, kills>>
Evicted(x) ==
  /\ wk[x].pc = "evicted" /\ index' = wk[x].seen
  /\ wk' = [wk EXCEPT ![x] = AtRest] /\ UNCHANGED <<files, health, spoiled, kills>>

ClearSnapshots(x) ==
  /\ wk[x].pc = "rest" /\ index' = <<>> /\ files' = <<>>
  /\ UNCHANGED <<health, wk, spoiled, kills>>
SpoilFile(d) ==
  /\ spoiled < MaxSpoiled /\ There(d) /\ health[d] = "whole"
  /\ health' = [health EXCEPT ![d] = "bad"] /\ spoiled' = spoiled + 1
  /\ UNCHANGED <<index, files, wk, kills>>
KillWorker(x) ==
  /\ kills < MaxKills /\ wk[x].pc # "rest" /\ kills' = kills + 1
  /\ wk' = [wk EXCEPT ![x] = AtRest] /\ UNCHANGED <<index, files, health, spoiled>>

SnapNext ==
  \/ \E x \in Worker :
       \/ \E r \in Requests : Fetch(x, r)
       \/ Skip(x) \/ Reuse(x) \/ Discard(x) \/ Rewrite(x) \/ Missed(x) \/ NotStored(x)
       \/ StoreBegin(x) \/ Write(x) \/ Written(x) \/ List(x) \/ Budget(x) \/ Evicted(x)
       \/ ClearSnapshots(x) \/ KillWorker(x)
  \/ \E d \in Prefix : SpoilFile(d)
SnapSpec == SnapInit /\ [][SnapNext]_snapVars

-----------------------------------------------------------------------------
SnapTypeOK ==
  /\ ToSet(index) \subseteq Prefix /\ ToSet(files) \subseteq Prefix
  /\ health \in [Prefix -> {"whole", "torn", "bad"}]
  /\ \A x \in Worker : wk[x].pc \in {"rest", "scan", "rewrite", "serve", "write", "written",
                                     "list", "budget", "evicted"}
AllAtRest == \A x \in Worker : wk[x].pc = "rest"

\* "A cache that cannot be read or written is dropped": when nobody is at work
\* and no kill fell between the two, an entry of the index has its file.  The
\* code breaks it when one lookup meets two unreadable files: it writes back what
\* it read less the second entry, and the first is listed again.
IndexNamesFiles == AllAtRest /\ kills = 0 => ToSet(index) \subseteq ToSet(files)

\* Up to the first unreadable file it holds.  An entry without a file keeps its
\* prompt from ever being stored again.
NoGhostEntry == spoiled <= 1 => IndexNamesFiles

\* A worker that is alone with its directory never leaves more snapshots there
\* than the limit, listed or not, and one more while it writes.
\* A kill leaves at most one file behind that nothing counts.
SnapshotsBounded ==
  /\ Len(files) <= MaxBytes + 1 + kills
  /\ AllAtRest => Len(files) <= MaxBytes + kills
=============================================================================
