--------------------------- MODULE MCETLPipeline ----------------------------
(***************************************************************************)
(* Small instances of the ingestion pipeline for TLC.                      *)
(***************************************************************************)
EXTENDS ETLInvariant, TLC

CONSTANTS
  c1, c2,       \* handlers
  w1, w2,       \* workers
  j1, j2,       \* job ids
  k1, k2,       \* idempotency keys
  v1, v2        \* videos

\* A request for one key, and a batch for both.
Submissions == {<<k1>>, <<k1, k2>>}

\* The same key over and over.
Reruns == {<<k1>>}

JustOneVideo == {<<v1>>}

\* One video, and a list that names a video twice.
OneVideo == {<<v1>>, <<v1, v1>>}

\* Clients, workers and job ids are interchangeable in ETLPipeline; the keys
\* are not, in the requests above.
Interchangeable ==
  Permutations(Clients) \cup Permutations(Workers) \cup Permutations(JobIds)

=============================================================================
