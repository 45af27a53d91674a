--------------------------- MODULE MCProvisioning ---------------------------
(* Instances of Provisioning for TLC: every database its own name, or all of *)
(* them one name.  The slots of the control plane's goroutines are alike.    *)
EXTENDS Provisioning, TLC

NamesDistinct == [d \in DB |-> d]

NamesEqual == [d \in DB |-> "orders"]

SlotSymmetry == Permutations(Worker) \cup Permutations(Deleter)
=============================================================================
