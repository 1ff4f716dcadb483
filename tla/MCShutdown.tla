------------------------------ MODULE MCShutdown ------------------------------
(***************************************************************************)
(* One handler, one worker, three jobs and a channel of one slot for TLC:  *)
(* one job at the worker, one in the channel, and one whose handler waits. *)
(***************************************************************************)
EXTENDS Shutdown, ETLProperties

CONSTANTS c1, w1, j1, j2, j3, tab

\* A single request, and a batch that fills the channel.
Submissions == {<<"k1">>, <<"k1", "k2", "k3">>}

NoVideos == {<<>>}

\* The UUIDs that InsertJob draws are interchangeable, in the program and in
\* the properties, so it is enough to look at one order of drawing them.
DrawnInOrder ==
  /\ jobs'[j3].state # "absent" => jobs'[j2].state # "absent"
  /\ jobs'[j2].state # "absent" => jobs'[j1].state # "absent"

=============================================================================
