----------------------------- MODULE VlmReuse -----------------------------
(***************************************************************************)
(* Prefix reuse in the mlx-vlm worker (src/Workers/mlx_vlm_worker/         *)
(* adapter.py and prompt_cache.py).  The runtime keeps one cache between   *)
(* text requests together with the token ids it is labelled with; a        *)
(* request starts from the longest prefix the two share.  When the cache   *)
(* cannot drop trailing tokens, a snapshot taken at the end of an earlier  *)
(* turn, in memory or on disk, stands in.  A cache is modelled by the      *)
(* tokens it was computed from, so a wrong label is visible: the runtime   *)
(* then continues another text than the one it was asked for.              *)
(***************************************************************************)
EXTENDS Integers, Sequences, SequencesExt

CONSTANTS
  Token,        \* token ids
  Prompts,      \* tokenised prompts
  Windows,      \* sliding windows of the models: 0 for a part without trim
  MinReuse,     \* MIN_REUSABLE_TOKENS
  DiskTokens,   \* max_bytes, in tokens of snapshot
  WriteTokens,  \* write_budget_bytes, in tokens of snapshot
  None,
  MaxGen,       \* bound: tokens of one reply
  MaxTurns,     \* bound: requests
  MaxMishaps     \* bound: cancellations, failed reuses, rotten snapshots

ASSUME PromptsSeq == Prompts \subseteq Seq(Token) \ {<<>>}
ASSUME SizesNat == Windows \subseteq Nat /\ {MinReuse, DiskTokens, WriteTokens, MaxGen, MaxTurns, MaxMishaps} \subseteq Nat

VARIABLES
  window,      \* the sliding window of the loaded model
  ids,         \* token_ids of the retained cache, or None
  held,        \* what the retained cache was computed from, or None
  pending,     \* _pending_prompt_ids
  memo,        \* the snapshot in memory: [ids, data], or None
  disk,        \* the snapshots on disk, oldest first: [ids, data, sound]
  persisted,   \* _persisted_tokens
  written,     \* bytes_written
  turn,        \* the request: [pc, prompt, gen, live, own]
  lost,        \* whether a cache was relabelled that the request did not use
  turns, mishaps

retained == <<ids, held, pending>>
stored == <<memo, disk, persisted, written>>
reuseVars == <<window, retained, stored, turn, lost, turns, mishaps>>

NoTurn == [pc |-> "idle", prompt |-> <<>>, gen |-> <<>>, live |-> <<>>, own |-> FALSE]

Take(s, n) == SubSeq(s, 1, n)
ProperPrefix(s, t) == Len(s) < Len(t) /\ Take(t, Len(s)) = s
Shared(s, t) == CHOOSE n \in 0..Len(t) :
  /\ n <= Len(s) /\ Take(s, n) = Take(t, n)
  /\ n < Len(s) /\ n < Len(t) => s[n + 1] # t[n + 1]

ReuseInit ==
  /\ window \in Windows
  /\ ids = None /\ held = None /\ pending = None
  /\ memo = None /\ disk = <<>> /\ persisted = 0 /\ written = 0
  /\ turn = NoTurn /\ lost = FALSE /\ turns = 0 /\ mishaps = 0

ResetState == ids' = None /\ held' = None

-----------------------------------------------------------------------------
(* find_prefix_length: how many tokens of the prompt the runtime may skip. *)
Natural(p) == IF ids = None THEN 0 ELSE Shared(ids, p)
Emptied == held = None \/ held = <<>>
Cold(p) == Emptied \/ Natural(p) = 0
(* mutant: the length of the cache itself is not asked for. *)
Continues_Unmeasured(p) == ~Cold(p) /\ Natural(p) = Len(ids)
Continues(p) == ~Cold(p) /\ Natural(p) = Len(ids) /\ Len(held) <= Natural(p)

\* The runtime reuses a proper prefix only; it prefills the rest in place.
Start(p, n, cache) ==
  turn' = IF 0 < n /\ n < Len(p)
    THEN [pc |-> "run", prompt |-> p, gen |-> <<>>, live |-> cache \o SubSeq(p, n + 1, Len(p)), own |-> TRUE]
    ELSE [pc |-> "run", prompt |-> p, gen |-> <<>>, live |-> p, own |-> FALSE]
\* A reused cache is the retained one, so what is computed shows in both.
Kept(cache) == held' = IF turn'.own THEN turn'.live ELSE cache

Observe(p) ==
  /\ turn.pc = "idle" /\ turns < MaxTurns /\ turns' = turns + 1
  /\ pending' = p /\ UNCHANGED <<lost, mishaps>>

ColdStart(p) ==
  /\ Observe(p) /\ Cold(p) /\ Start(p, 0, <<>>)
  /\ UNCHANGED <<ids, held, stored>>
Continue(p) ==
  /\ Observe(p) /\ Continues(p) /\ Start(p, Natural(p), held) /\ Kept(held)
  /\ UNCHANGED <<ids, stored>>
RollsBack(p) == ~Cold(p) /\ ~Continues(p)
\* can_trim: a part with a sliding window drops tokens until it is full.  The
\* store of snapshots exists when the empty cache of the model cannot trim.
Trimmable(cache) == Len(cache) < window
Checkpoints == window = 0
Trim(p) ==
  /\ Observe(p) /\ RollsBack(p) /\ Trimmable(held)
  /\ Start(p, Natural(p), Take(held, Natural(p))) /\ Kept(held)
  /\ UNCHANGED <<ids, stored>>

\* restore_best: the snapshot in memory, else the longest one on disk.
Fits(s, p) == Len(s.ids) >= MinReuse /\ ProperPrefix(s.ids, p)
OnDisk(p) == {k \in DOMAIN disk : Fits(disk[k], p)}
Longest(p) == CHOOSE k \in OnDisk(p) : \A j \in OnDisk(p) : Len(disk[j].ids) <= Len(disk[k].ids)
InMemory(p) == memo # None /\ Fits(memo, p)

Adopt(s, p) == Start(p, Len(s.ids), s.data) /\ held' = turn'.live /\ ids' = s.ids
Restore(p) ==
  /\ Observe(p) /\ RollsBack(p) /\ ~Trimmable(held)
  /\ \/ InMemory(p) /\ Adopt(memo, p)
     \/ ~InMemory(p) /\ OnDisk(p) # {} /\ disk[Longest(p)].sound /\ Adopt(disk[Longest(p)], p)
  /\ UNCHANGED stored
\* A snapshot that cannot be read is dropped, and the next one is tried.
DropSnapshot(p) ==
  /\ turn.pc = "idle" /\ turns < MaxTurns /\ RollsBack(p) /\ ~Trimmable(held) /\ ~InMemory(p)
  /\ OnDisk(p) # {} /\ ~disk[Longest(p)].sound
  /\ disk' = RemoveAt(disk, Longest(p))
  /\ UNCHANGED <<retained, memo, persisted, written, turn, lost, turns, mishaps>>
\* The retained cache is emptied either way, so that the runtime cannot trim it.
Refuse(p) ==
  /\ Observe(p) /\ RollsBack(p) /\ ~Trimmable(held) /\ ~InMemory(p) /\ OnDisk(p) = {}
  /\ Start(p, 0, <<>>) /\ held' = <<>> /\ ids' = None
  /\ UNCHANGED stored

-----------------------------------------------------------------------------
(* Generation and its end. *)
Advance(t) ==
  /\ turn.pc = "run" /\ Len(turn.gen) < MaxGen
  /\ turn' = [turn EXCEPT !.gen = Append(turn.gen, t), !.live = Append(turn.live, t)]
  /\ held' = IF turn.own THEN turn'.live ELSE held
  /\ UNCHANGED <<ids, pending, stored, lost, turns, mishaps>>

\* persist: the newest snapshots that fit are kept, and the newest always.
Tokens(d) == FoldSeq(LAMBDA x, n : n + Len(x.ids), 0, d)
After(d, k) == SubSeq(d, k + 1, Len(d))
Evict(d) == After(d, CHOOSE k \in 0..(Len(d) - 1) :
  /\ Tokens(After(d, k)) <= DiskTokens \/ k = Len(d) - 1
  /\ k > 0 => ~(Tokens(After(d, k - 1)) <= DiskTokens))
Same(s) == {k \in DOMAIN disk : disk[k].ids = s}
Affordable(s) == Len(s) <= DiskTokens /\ written + Len(s) <= WriteTokens
ShouldPersist(s) ==
  Len(s) >= MinReuse /\ (persisted = 0 \/ 4 * Len(s) >= 5 * persisted)

Persist(s, data) ==
  IF ~ShouldPersist(s) \/ ~Affordable(s) THEN UNCHANGED <<disk, persisted, written>>
  ELSE LET rest == IF Same(s) = {} THEN disk ELSE RemoveAt(disk, CHOOSE k \in Same(s) : TRUE) IN
       /\ disk' = Evict(Append(rest, [ids |-> s, data |-> data, sound |-> TRUE]))
       /\ persisted' = Len(s) /\ written' = written + Len(s)

\* The runtime labels the cache it used, which may be one token ahead of what
\* it handed out; the snapshot of the turn is taken when the two agree.
Remember(s, data) ==
  \/ memo' = None /\ UNCHANGED <<disk, persisted, written>>   \* under memory pressure
  \/ memo' = [ids |-> s, data |-> data] /\ Persist(s, data)
Complete(ahead) ==
  /\ turn.pc = "run"
  /\ LET s == turn.prompt \o turn.gen
         data == turn.live \o ahead
     IN /\ ids' = s /\ held' = data
        /\ IF ~Checkpoints \/ Len(data) # Len(s) THEN UNCHANGED stored ELSE Remember(s, data)
  /\ turn' = NoTurn /\ UNCHANGED <<pending, lost, turns, mishaps>>

\* _settle_interrupted_cache: the retained cache gets the labels of the
\* interrupted request when it is exactly as long as they are.
Settle(ahead) ==
  /\ turn.pc = "run" /\ mishaps < MaxMishaps /\ mishaps' = mishaps + 1
  /\ LET after == IF turn.own THEN held \o ahead ELSE held
         proved == pending # None /\ held # None /\ Len(after) = Len(pending) + Len(turn.gen)
     IN IF proved
          THEN /\ ids' = pending \o turn.gen /\ held' = after
               /\ lost' = (lost \/ ~turn.own)
          ELSE ResetState /\ UNCHANGED lost
  /\ pending' = None /\ turn' = NoTurn
  /\ UNCHANGED <<stored, turns>>
\* An interruption for memory keeps neither the cache nor the snapshot.
Pressed ==
  /\ turn.pc = "run" /\ mishaps < MaxMishaps /\ mishaps' = mishaps + 1
  /\ ResetState /\ pending' = None /\ memo' = None /\ turn' = NoTurn
  /\ UNCHANGED <<disk, persisted, written, lost, turns>>
\* The reuse failed before the first token: once more, from nothing.
Retry ==
  /\ turn.pc = "run" /\ turn.gen = <<>> /\ mishaps < MaxMishaps /\ mishaps' = mishaps + 1
  /\ ResetState /\ pending' = turn.prompt
  /\ turn' = [turn EXCEPT !.live = turn.prompt, !.own = FALSE]
  /\ UNCHANGED <<stored, lost, turns>>

-----------------------------------------------------------------------------
(* The clear requests, a reload of the model, and the disk.                *)
ClearMemory ==
  /\ turn.pc = "idle" /\ ResetState /\ pending' = None /\ memo' = None
  /\ UNCHANGED <<disk, persisted, written, turn, lost, turns, mishaps>>
ClearDisk ==
  /\ turn.pc = "idle" /\ memo' = None /\ disk' = <<>> /\ written' = 0
  /\ UNCHANGED <<retained, persisted, turn, lost, turns, mishaps>>
Reload ==
  /\ ResetState /\ pending' = None /\ memo' = None /\ persisted' = 0 /\ written' = 0
  /\ turn' = NoTurn /\ mishaps < MaxMishaps /\ mishaps' = mishaps + 1
  /\ UNCHANGED <<disk, lost, turns>>
Spoil(k) ==
  /\ mishaps < MaxMishaps /\ mishaps' = mishaps + 1 /\ disk[k].sound
  /\ disk' = [j \in DOMAIN disk |-> IF j = k THEN [disk[j] EXCEPT !.sound = FALSE] ELSE disk[j]]
  /\ UNCHANGED <<retained, memo, persisted, written, turn, lost, turns>>

Ahead == {<<>>} \cup {<<t>> : t \in Token}
ReuseStep ==
  \/ \E p \in Prompts : \/ ColdStart(p) \/ Continue(p) \/ Trim(p) \/ Restore(p)
                        \/ DropSnapshot(p) \/ Refuse(p)
  \/ \E t \in Token : Advance(t)
  \/ \E a \in Ahead : Complete(a) \/ Settle(a)
  \/ Pressed \/ Retry \/ ClearMemory \/ ClearDisk \/ Reload
  \/ \E k \in DOMAIN disk : Spoil(k)
ReuseNext == ReuseStep /\ UNCHANGED window
ReuseSpec == ReuseInit /\ [][ReuseNext]_reuseVars

-----------------------------------------------------------------------------
ReuseTypeOK ==
  /\ ids \in Seq(Token) \cup {None} /\ held \in Seq(Token) \cup {None}
  /\ pending \in Prompts \cup {None}
  /\ memo = None \/ memo \in [ids : Seq(Token), data : Seq(Token)]
  /\ \A k \in DOMAIN disk : disk[k] \in [ids : Seq(Token), data : Seq(Token), sound : BOOLEAN]
  /\ persisted \in Nat /\ written \in 0..WriteTokens
  /\ turn.pc \in {"idle", "run"} /\ lost \in BOOLEAN
  /\ turns \in 0..MaxTurns /\ mishaps \in 0..MaxMishaps

\* "An unprovable pairing is silent corruption": every reply continues exactly
\* the prompt it was asked for, whatever was cancelled, restored or trimmed
\* before it.  The code breaks it: see LabelsTrue.
GeneratesFromPrompt == turn.pc = "run" => turn.live = turn.prompt \o turn.gen

\* As long as no cache was relabelled by a request that did not use it, every
\* reply continues its own prompt, and every snapshot, in memory or on disk,
\* holds the tokens it is named after: nothing poisons a later restart.
LabelsTrue ==
  ~lost => /\ GeneratesFromPrompt
           /\ memo # None => memo.data = memo.ids
           /\ \A k \in DOMAIN disk : disk[k].data = disk[k].ids
=============================================================================
