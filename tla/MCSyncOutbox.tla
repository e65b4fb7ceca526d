------------------------------ MODULE MCSyncOutbox ------------------------------
(* Instances of SyncOutbox for TLC: products and contents are model values. *)
EXTENDS SyncOutbox

CONSTANTS p1, p2, a, b

OneProduct == {p1}
TwoProducts == {p1, p2}
TwoContents == {a, b}

\* Each kind of fault may happen once, a deletion in the store twice.
SomeFaults == [[kind \in FaultKinds |-> 1] EXCEPT !["removed"] = 2]
NoFaults == [kind \in FaultKinds |-> 0]
=============================================================================
