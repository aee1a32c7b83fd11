----------------------------- MODULE MCGenLanes -----------------------------
(* Instances of GenLanes for TLC: slots of different models, or one slot   *)
(* of its own model beside replicas of another; requests are               *)
(* interchangeable.                                                        *)
EXTENDS GenLanes, TLC

OneEach == [s \in Slot |-> s]
Mixed == [s \in Slot |-> IF s = CHOOSE x \in Slot : TRUE THEN "single" ELSE "replicated"]
ReqSymmetry == Permutations(Req)
=============================================================================
