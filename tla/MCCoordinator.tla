--------------------------- MODULE MCCoordinator ---------------------------
(* The coordinator on its own, driven by any reports of handed out items.   *)
EXTENDS Coordinator, TLC

Symmetric == Permutations(Workers)

============================================================================
