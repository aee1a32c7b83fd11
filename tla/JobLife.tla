------------------------------ MODULE JobLife ------------------------------
(***************************************************************************)
(* What a job's row in the database promises its readers: it is created    *)
(* queued, may run, ends once and then never changes.                      *)
(***************************************************************************)
VARIABLE row

Active == {"queued", "running"}
Terminal == {"completed", "failed", "cancelled"}

Init == row = "none"

Create == row = "none" /\ row' = "queued"
Run == row = "queued" /\ row' = "running"
End == row \in Active /\ row' \in Terminal

Next == Create \/ Run \/ End

Spec == Init /\ [][Next]_row
=============================================================================
