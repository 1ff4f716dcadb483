----------------------------- MODULE MCJobsList -----------------------------
(***************************************************************************)
(* Two jobs, and one the server has forgotten, for TLC.                    *)
(***************************************************************************)
EXTENDS JobsList, TLC

CONSTANTS j1, j2, gone

\* The jobs the server knows are interchangeable.
Interchangeable == Permutations(JobIds \ Gone)

=============================================================================
