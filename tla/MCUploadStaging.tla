--------------------------- MODULE MCUploadStaging ---------------------------
(* The constants of the model-checked instances of UploadStaging.           *)
EXTENDS UploadStaging, TLC

CONSTANTS w1, w2, u1, u2

\* Processes and uploads are only ever compared for equality.
Symmetry == Permutations(Worker) \cup Permutations(Upload)
=============================================================================
