---------------------------- MODULE LaneService ----------------------------
(***************************************************************************)
(* What the pool's generation lanes promise: a slot generates for at most  *)
(* one request at a time and at most Conc slots generate at once.  A lane  *)
(* can pass straight from one request to the next when the first is        *)
(* recovered by the arrival of the second.                                 *)
(***************************************************************************)
EXTENDS Naturals, FiniteSets

CONSTANTS Req, Slot, Conc, None

VARIABLE holder     \* slot -> the request generating on it

Held == {s \in Slot : holder[s] # None}

Init == holder = [s \in Slot |-> None]

Grant(s, r) ==
  /\ r \notin {holder[t] : t \in Slot}
  /\ holder[s] = None => Cardinality(Held) < Conc
  /\ holder' = [holder EXCEPT ![s] = r]

Release(s) ==
  /\ holder[s] # None
  /\ holder' = [holder EXCEPT ![s] = None]

Next == \E s \in Slot : Release(s) \/ \E r \in Req : Grant(s, r)

Spec == Init /\ [][Next]_holder
=============================================================================
