----------------------------- MODULE MCDataset -----------------------------
(* Instances of Dataset for TLC; rows and workers are numbered, hence no   *)
(* symmetry.                                                               *)
EXTENDS Dataset

============================================================================
