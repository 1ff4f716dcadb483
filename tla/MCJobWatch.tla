----------------------------- MODULE MCJobWatch -----------------------------
(***************************************************************************)
(* One job, one page and a few streams for TLC.                            *)
(***************************************************************************)
EXTENDS JobWatchProperties, TLC

CONSTANTS s1, s2, s3, j1, k1, v1

\* Streams are interchangeable.
Interchangeable == Permutations(Streams)

=============================================================================
