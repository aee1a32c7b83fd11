------------------------------ MODULE Recency ------------------------------
(***************************************************************************)
(* A directory of cache files as the prompt caches of the workers see it:  *)
(* the sequence of its files by modification time, the least recently used *)
(* one first (src/Workers/mlx_lm_worker/paged_cache/disk.py and            *)
(* src/Workers/mlx_lm_worker/prompt_cache.py, os.utime).                   *)
(***************************************************************************)
EXTENDS Integers, Sequences

\* The files of s that are not in S, in their order.
Without(s, S) ==
  LET left[i \in 0..Len(s)] ==
        IF i = 0 THEN <<>>
        ELSE IF s[i] \in S THEN left[i - 1] ELSE Append(left[i - 1], s[i])
  IN left[Len(s)]

\* File x is written or touched.
Recent(s, x) == Append(Without(s, {x}), x)
=============================================================================
