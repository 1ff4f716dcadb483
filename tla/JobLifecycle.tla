---------------------------- MODULE JobLifecycle ----------------------------
(***************************************************************************)
(* What the pipeline promises of a job, without the machinery that runs    *)
(* it: "queued -> running -> retrying -> done | dead", read off the        *)
(* statements of backend/db/db.go that write jobs.state, in the order      *)
(* backend/worker/worker.go allows.                                        *)
(*                                                                         *)
(*   - a key is submitted once;                                            *)
(*   - attempts are counted one by one and there are MaxAttempts of them;  *)
(*   - a snapshot is stored only once an attempt succeeded, and from then  *)
(*     on the job retries no more;                                         *)
(*   - a job becomes done only when the videos it says it inserted are the *)
(*     videos stored for it;                                               *)
(*   - done and dead are final, for the row and for its videos.            *)
(*                                                                         *)
(* ETLPipeline implements this module: ETLProofs has the proof.    *)
(***************************************************************************)
EXTENDS Naturals, FiniteSets

CONSTANTS JobIds, Keys, VideoIds, NoKey, MaxAttempts

VARIABLES
  \* What the jobs table shows of each job id.
  key, state,
  attempt,    \* failed attempts so far
  inserted,
  \* The videos stored for each job id.
  stored

vars == <<key, state, attempt, inserted, stored>>

Init ==
  /\ key      = [id \in JobIds |-> NoKey]
  /\ state    = [id \in JobIds |-> "absent"]
  /\ attempt  = [id \in JobIds |-> 0]
  /\ inserted = [id \in JobIds |-> 0]
  /\ stored   = [id \in JobIds |-> {}]

-----------------------------------------------------------------------------

Submit(id, k) ==
  /\ state[id] = "absent"
  /\ \A other \in JobIds : key[other] # k
  /\ key'   = [key EXCEPT ![id] = k]
  /\ state' = [state EXCEPT ![id] = "queued"]
  /\ UNCHANGED <<attempt, inserted, stored>>

Start(id) ==
  /\ state[id] = "queued"
  /\ state' = [state EXCEPT ![id] = "running"]
  /\ UNCHANGED <<key, attempt, inserted, stored>>

\* An attempt is under way, or about to be.
Active(id) == state[id] \in {"running", "retrying"} /\ attempt[id] < MaxAttempts

Retry(id) ==
  /\ Active(id)
  /\ stored[id] = {}
  /\ state'   = [state EXCEPT ![id] = "retrying"]
  /\ attempt' = [attempt EXCEPT ![id] = @ + 1]
  /\ UNCHANGED <<key, inserted, stored>>

Store(id, v) ==
  /\ Active(id)
  /\ v \notin stored[id]
  /\ stored' = [stored EXCEPT ![id] = @ \cup {v}]
  /\ UNCHANGED <<key, state, attempt, inserted>>

Finish(id) ==
  /\ Active(id)
  /\ state'    = [state EXCEPT ![id] = "done"]
  /\ inserted' = [inserted EXCEPT ![id] = Cardinality(stored[id])]
  /\ UNCHANGED <<key, attempt, stored>>

Kill(id) ==
  /\ state[id] \in {"queued", "running", "retrying"}
  /\ state' = [state EXCEPT ![id] = "dead"]
  /\ UNCHANGED <<key, attempt, inserted, stored>>

Next ==
  \E id \in JobIds :
     \/ \E k \in Keys : Submit(id, k)
     \/ Start(id)
     \/ Retry(id)
     \/ \E v \in VideoIds : Store(id, v)
     \/ Finish(id)
     \/ Kill(id)

Spec == Init /\ [][Next]_vars

=============================================================================
