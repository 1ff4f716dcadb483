----------------------------- MODULE MCJobForm -----------------------------
(***************************************************************************)
(* A few jobs and one field of each kind for TLC.                          *)
(***************************************************************************)
EXTENDS JobForm, TLC

CONSTANTS j1, j2, j3, j4

\* Jobs are interchangeable.
Interchangeable == Permutations(JobIds)

=============================================================================
