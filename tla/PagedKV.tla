------------------------------ MODULE PagedKV ------------------------------
(***************************************************************************)
(* The SSD tier of the prompt cache of one mlx-lm worker                   *)
(* (src/Workers/mlx_lm_worker/paged_cache/, used by prompt_cache.py and    *)
(* adapter.py).  A prompt is a chain of 256-token blocks, each named by a  *)
(* hash of its tokens and its parent; a block on disk is a tensor file and *)
(* a checksum file, renamed into place one after the other.  The worker    *)
(* does one thing at a time but may be killed between any two file         *)
(* operations; files rot; and the coordinator removes the directory tree   *)
(* when the clear request is routed to a slot of another engine.           *)
(***************************************************************************)
EXTENDS Integers, Sequences, SequencesExt, Recency

CONSTANTS
  Chains,       \* the prompts: sequences of block hashes
  Quota,        \* max_bytes, in units of one exact marker
  BranchReuse,  \* branch_reuse: whether a proper prefix may be restored
  MaxFaults,    \* bound: rotten blocks, failed evaluations
  MaxCrashes,   \* bound: kills of the worker
  MaxWipes      \* bound: removals of the tree by the coordinator

ASSUME ChainsSeq == \A c \in Chains : c \in Seq(ToSet(c))
\* chained_hash: a block's hash fixes its place and everything before it.
ASSUME ChainsHashed ==
  \A c, d \in Chains : \A i \in DOMAIN c, j \in DOMAIN d :
     c[i] = d[j] => i = j /\ SubSeq(c, 1, i) = SubSeq(d, 1, j)
ASSUME BoundsNat == {Quota, MaxFaults, MaxCrashes, MaxWipes} \subseteq Nat /\ BranchReuse \in BOOLEAN

Blocks == UNION {ToSet(c) : c \in Chains}
BlockBytes == 2   \* a block with its checksum, against 1 for a marker

VARIABLES
  standing,  \* whether the store's directory exists
  blobs,     \* tensor, quarantined and temporary files, least recently used first
  sums,      \* blocks whose checksum file is in place
  rotten,    \* blocks whose tensor no longer has its checksum's digest
  marks,     \* exact markers, least recently used first
  w,         \* the worker: its step, the prompt's chain, the blocks to do, the next, those read
  fails,     \* consecutive_restore_failures
  circuit,   \* circuit_open
  faults, crashes, wipes

kvDisk == <<standing, blobs, sums, rotten, marks>>
kvBounds == <<faults, crashes, wipes>>
kvVars == <<kvDisk, w, fails, circuit, kvBounds>>

KVIdle == [pc |-> "idle", chain |-> <<>>, n |-> 0, i |-> 1, got |-> <<>>]
Tensor(b) == <<"tensor", b>>
Temp(b) == <<"temp", b>>

Pair(b) == Tensor(b) \in ToSet(blobs) /\ b \in sums

\* prune: markers go first, then files by age, until the rest fits the quota.
Bytes(m, f) == Len(m) + BlockBytes * Len(f)
Cuts(m, f) == {p \in (0..Len(m)) \X (0..Len(f)) :
                 /\ p[2] > 0 => p[1] = Len(m)
                 /\ Bytes(m, f) - p[1] - BlockBytes * p[2] <= Quota}
Cut(m, f) == CHOOSE p \in Cuts(m, f) : \A q \in Cuts(m, f) : p[1] + p[2] <= q[1] + q[2]
Prune(m, f, s, r) ==
  LET p == Cut(m, f)
      kept == SubSeq(f, p[2] + 1, Len(f))
      gone == {b \in Blocks : Tensor(b) \in ToSet(f) /\ Tensor(b) \notin ToSet(kept)}
  IN /\ marks' = SubSeq(m, p[1] + 1, Len(m))
     /\ blobs' = kept
     /\ sums' = s \ gone
     /\ rotten' = r \ gone

KVInit ==
  /\ standing = FALSE /\ blobs = <<>> /\ sums = {} /\ rotten = {} /\ marks = <<>>
  /\ w = [KVIdle EXCEPT !.pc = "down"] /\ fails = 0 /\ circuit = FALSE
  /\ faults = 0 /\ crashes = 0 /\ wipes = 0

\* Opening the store removes what a kill left behind: temporaries, tensors
\* without a checksum and checksums without a tensor.
Open ==
  /\ w.pc = "down"
  /\ LET left == Without(blobs, {Temp(b) : b \in Blocks} \cup {Tensor(b) : b \in Blocks \ sums})
     IN Prune(marks, left, {b \in sums : Tensor(b) \in ToSet(blobs)}, rotten)
  /\ standing' = TRUE /\ w' = KVIdle /\ fails' = 0 /\ circuit' = FALSE
  /\ UNCHANGED kvBounds

-----------------------------------------------------------------------------
(* Restoring: the longest prefix whose pairs are in place, or the whole    *)
(* chain and its exact marker when branches are not reused.                *)
-----------------------------------------------------------------------------
PrefixLength(c) == CHOOSE n \in 0..Len(c) :
  /\ \A k \in 1..n : Pair(c[k])
  /\ n < Len(c) => ~Pair(c[n + 1])
Usable(c) == PrefixLength(c) > 0 /\ (BranchReuse \/ (PrefixLength(c) = Len(c) /\ c \in ToSet(marks)))

\* A lookup that misses, or that is refused the memory, changes nothing.
Lookup(c) ==
  /\ w.pc = "idle" /\ ~circuit /\ Usable(c)
  /\ w' = [pc |-> "load", chain |-> c, n |-> PrefixLength(c), i |-> 1, got |-> <<>>]
  /\ marks' = IF BranchReuse THEN marks ELSE Recent(marks, c)
  /\ UNCHANGED <<standing, blobs, sums, rotten, fails, circuit, kvBounds>>

Loading(b) == w.pc = "load" /\ w.i <= w.n /\ b = w.chain[w.i]
(* mutant: the digest is not compared. *)
Verified_Unhashed(b) == Pair(b)
Verified(b) == Pair(b) /\ b \notin rotten

LoadBlock(b) ==
  /\ Loading(b) /\ Verified(b)
  /\ w' = [w EXCEPT !.i = w.i + 1, !.got = Append(w.got, [block |-> b, sound |-> b \notin rotten])]
  /\ blobs' = Recent(blobs, Tensor(b))
  /\ UNCHANGED <<standing, sums, rotten, marks, fails, circuit, kvBounds>>

\* A block that is missing or does not verify is quarantined and ends the restore.
SetAside(b) == [k \in DOMAIN blobs |-> IF blobs[k] = Tensor(b) THEN <<"quarantine", b>> ELSE blobs[k]]
(* mutants: the bad block stays where the next lookup finds it; the run of   *)
(* blocks read is cut one too short.                                       *)
Quarantine_Stays(b) ==
  /\ Loading(b) /\ ~Verified(b)
  /\ w' = [w EXCEPT !.n = w.i - 1]
  /\ UNCHANGED <<kvDisk, fails, circuit, kvBounds>>
Quarantine_Short(b) ==
  /\ Loading(b) /\ ~Verified(b)
  /\ Prune(marks, SetAside(b), sums \ {b}, rotten \ {b})
  /\ w' = [w EXCEPT !.n = w.i - 2]
  /\ UNCHANGED <<standing, fails, circuit, kvBounds>>
Quarantine(b) ==
  /\ Loading(b) /\ ~Verified(b)
  /\ Prune(marks, SetAside(b), sums \ {b}, rotten \ {b})
  /\ w' = [w EXCEPT !.n = w.i - 1]
  /\ UNCHANGED <<standing, fails, circuit, kvBounds>>

Restored == w.pc = "load" /\ w.i > w.n
Enough == w.got # <<>> /\ (BranchReuse \/ Len(w.got) = Len(w.chain))

RestoreFailed == fails' = fails + 1 /\ circuit' = (fails + 1 >= 3)
Hit ==
  /\ Restored /\ Enough
  /\ w' = [w EXCEPT !.pc = "serve"] /\ fails' = 0
  /\ UNCHANGED <<kvDisk, circuit, kvBounds>>
Failed ==
  /\ Restored /\ ~Enough
  /\ RestoreFailed /\ w' = KVIdle
  /\ UNCHANGED <<kvDisk, kvBounds>>

\* The runtime raised on the restored cache before its first token: the reply
\* is generated again from an empty cache and the failure is counted.
FallBack ==
  /\ w.pc = "serve" /\ faults < MaxFaults
  /\ RestoreFailed /\ w' = KVIdle /\ faults' = faults + 1
  /\ UNCHANGED <<kvDisk, crashes, wipes>>
Served ==
  /\ w.pc = "serve" /\ w' = KVIdle
  /\ UNCHANGED <<kvDisk, fails, circuit, kvBounds>>

-----------------------------------------------------------------------------
(* Storing the prompt of a finished reply, block by block. *)
Store(c) ==
  /\ w.pc = "idle" /\ ~circuit
  /\ w' = [pc |-> "save", chain |-> c, n |-> Len(c), i |-> 1, got |-> <<>>]
  /\ UNCHANGED <<kvDisk, fails, circuit, kvBounds>>

Saving(step, b) == w.pc = step /\ w.i <= w.n /\ b = w.chain[w.i]
KVGoto(step) == w' = [w EXCEPT !.pc = step]
NextBlock == w' = [w EXCEPT !.pc = "save", !.i = w.i + 1]

Deduplicate(b) ==
  /\ Saving("save", b) /\ Pair(b) /\ NextBlock
  /\ UNCHANGED <<kvDisk, fails, circuit, kvBounds>>
\* save: half a pair is removed, then the tensor is written under a temporary name.
WriteTemporary(b) ==
  /\ Saving("save", b) /\ ~Pair(b) /\ standing /\ BlockBytes <= Quota
  /\ blobs' = Append(Without(blobs, {Tensor(b)}), Temp(b))
  /\ sums' = sums \ {b} /\ rotten' = rotten \ {b} /\ KVGoto("replace")
  /\ UNCHANGED <<standing, marks, fails, circuit, kvBounds>>
ReplaceTensor(b) ==
  /\ Saving("replace", b) /\ standing
  /\ blobs' = Append(Without(blobs, {Temp(b)}), Tensor(b)) /\ KVGoto("sum")
  /\ UNCHANGED <<standing, sums, rotten, marks, fails, circuit, kvBounds>>
ReplaceChecksum(b) ==
  /\ Saving("sum", b) /\ standing
  /\ sums' = sums \cup {b} /\ KVGoto("prune")
  /\ UNCHANGED <<standing, blobs, rotten, marks, fails, circuit, kvBounds>>
PruneBlock(b) ==
  /\ Saving("prune", b)
  /\ Prune(marks, blobs, sums, rotten) /\ NextBlock
  /\ UNCHANGED <<standing, fails, circuit, kvBounds>>

MarkExact ==
  /\ w.pc = "save" /\ w.i > w.n
  /\ IF standing /\ \A b \in ToSet(w.chain) : Pair(b)
       THEN Prune(Recent(marks, w.chain), blobs, sums, rotten)
       ELSE UNCHANGED <<blobs, sums, rotten, marks>>
  /\ w' = KVIdle
  /\ UNCHANGED <<standing, fails, circuit, kvBounds>>

\* No memory for the block, or its directory is gone: the store is given up.
GiveUp ==
  /\ w.pc = "save" \/ (w.pc \in {"replace", "sum"} /\ ~standing)
  /\ w' = KVIdle
  /\ UNCHANGED <<kvDisk, fails, circuit, kvBounds>>
\* The live cache does not have the layout or the length of its tokens.
LayoutMismatch ==
  /\ w.pc \in {"load", "save"} /\ faults < MaxFaults
  /\ fails' = fails + 1 /\ circuit' = TRUE /\ w' = KVIdle /\ faults' = faults + 1
  /\ UNCHANGED <<kvDisk, crashes, wipes>>

-----------------------------------------------------------------------------
(* The clear request, the coordinator, the disk and the kill.              *)
Empty == blobs' = <<>> /\ sums' = {} /\ rotten' = {} /\ marks' = <<>>
Clear ==
  /\ w.pc = "idle" /\ Empty /\ standing' = TRUE /\ fails' = 0 /\ circuit' = FALSE
  /\ UNCHANGED <<w, kvBounds>>
\* Routed to a slot whose worker is not an mlx-lm one, the same request removes
\* the directories of every worker.
Wipe ==
  /\ wipes < MaxWipes /\ wipes' = wipes + 1
  /\ Empty /\ standing' = FALSE
  /\ UNCHANGED <<w, fails, circuit, faults, crashes>>
Rot(b) ==
  /\ faults < MaxFaults /\ Pair(b) /\ b \notin rotten
  /\ rotten' = rotten \cup {b} /\ faults' = faults + 1
  /\ UNCHANGED <<standing, blobs, sums, marks, w, fails, circuit, crashes, wipes>>
Kill ==
  /\ crashes < MaxCrashes /\ w.pc # "down"
  /\ w' = [KVIdle EXCEPT !.pc = "down"] /\ crashes' = crashes + 1
  /\ UNCHANGED <<kvDisk, fails, circuit, faults, wipes>>

KVNext ==
  \/ Open \/ Hit \/ Failed \/ FallBack \/ Served \/ MarkExact \/ GiveUp \/ LayoutMismatch
  \/ Clear \/ Wipe \/ Kill
  \/ \E c \in Chains : Lookup(c) \/ Store(c)
  \/ \E b \in Blocks : \/ LoadBlock(b) \/ Quarantine(b) \/ Deduplicate(b) \/ WriteTemporary(b)
                       \/ ReplaceTensor(b) \/ ReplaceChecksum(b) \/ PruneBlock(b) \/ Rot(b)

KVSpec == KVInit /\ [][KVNext]_kvVars

-----------------------------------------------------------------------------
KVTypeOK ==
  /\ standing \in BOOLEAN /\ circuit \in BOOLEAN
  /\ ToSet(blobs) \subseteq {"tensor", "quarantine", "temp"} \X Blocks
  /\ sums \subseteq Blocks /\ rotten \subseteq Blocks /\ ToSet(marks) \subseteq Chains
  /\ w.pc \in {"down", "idle", "load", "serve", "save", "replace", "sum", "prune"}
  /\ w.chain \in Chains \cup {<<>>} /\ w.n \in 0..Len(w.chain) /\ w.i \in 1..(Len(w.chain) + 1)
  /\ fails \in Nat /\ faults \in 0..MaxFaults /\ crashes \in 0..MaxCrashes /\ wipes \in 0..MaxWipes

\* What a reply is served from is a non-empty run of the first blocks of its
\* own prompt, each one with the digest its checksum names, and the whole
\* prompt when branches are not reused - after kills, rot and removed trees.
ServedSound ==
  w.pc = "serve" =>
    /\ w.got # <<>>
    /\ \A k \in DOMAIN w.got : w.got[k].block = w.chain[k] /\ w.got[k].sound
    /\ BranchReuse \/ Len(w.got) = Len(w.chain)

\* "Peak disk usage is thus bounded by quota plus the one same-directory
\* temporary": whatever is killed and wherever, files never pile up.
DiskBounded == Bytes(marks, blobs) <= Quota + BlockBytes

\* Only faults open the circuit: kills, half pairs and evictions between two
\* requests cost no failure, and a rotten block costs one, because the failure
\* that it causes puts it away.
FailuresPaid == fails <= faults + wipes
=============================================================================
