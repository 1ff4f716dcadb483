------------------------------ MODULE Database ------------------------------
(***************************************************************************)
(* The PostgreSQL layer of the pipeline, backend/db/db.go over the two     *)
(* tables of backend/db/migrations.                                        *)
(*                                                                         *)
(* Every method of DB is one SQL statement sent outside a transaction, so  *)
(* a method is one operator here, and a caller's action applies it to the  *)
(* tables.  Whether the caller learns that the statement took effect is    *)
(* the caller's business: see Exec in module ETLPipeline.                  *)
(*                                                                         *)
(* Columns that no property depends on are left out: region, category_id,  *)
(* max_results, metadata, error_message, created_at, started_at,           *)
(* completed_at, and every column of videos but its key.                   *)
(***************************************************************************)
EXTENDS Naturals, FiniteSets

CONSTANTS
  JobIds,     \* the UUIDs that InsertJob may draw
  Keys,       \* idempotency keys
  VideoIds,   \* YouTube video ids
  NoKey       \* the key of a row that does not exist

ASSUME DatabaseAssumption ==
  /\ NoKey \notin Keys
  /\ IsFiniteSet(VideoIds)

VARIABLES
  jobs,       \* table jobs:   job_id -> row
  videos      \* table videos: job_id -> the video_ids stored for that job

-----------------------------------------------------------------------------
(* The rows.                                                               *)

LiveStates     == {"queued", "running", "retrying"}
TerminalStates == {"done", "dead"}

\* 001_create_jobs.up.sql.  retryAt says whether next_retry_at is set.
JobRow ==
  [key      : Keys \cup {NoKey},
   state    : LiveStates \cup TerminalStates \cup {"absent"},
   attempt  : Nat,
   retryAt  : BOOLEAN,
   fetched  : Nat,
   inserted : Nat]

AbsentRow == [key |-> NoKey, state |-> "absent", attempt |-> 0,
              retryAt |-> FALSE, fetched |-> 0, inserted |-> 0]

\* max_attempts is never written: every row has the default of the schema,
\* and worker.processJob has the same number as a constant of its own.
MaxAttempts == 3

Live(id)     == jobs[id].state \in LiveStates
Terminal(id) == jobs[id].state \in TerminalStates

\* GetJobByIdempotencyKey: the rows its SELECT matches.
RowsWithKey(k) == {id \in JobIds : jobs[id].key = k}

-----------------------------------------------------------------------------
(* The statements, as the table they leave behind.                         *)

\* The columns the INSERT does not name take their defaults.
InsertJob(id, k) ==
  [jobs EXCEPT ![id] = [AbsentRow EXCEPT !.key = k, !.state = "queued"]]

UpdateJobStarted(id) == [jobs EXCEPT ![id] = [@ EXCEPT !.state = "running"]]

UpdateJobCompleted(id, nFetched, nInserted) ==
  [jobs EXCEPT ![id] = [@ EXCEPT !.state    = "done",
                                 !.fetched  = nFetched,
                                 !.inserted = nInserted,
                                 !.retryAt  = FALSE]]

UpdateJobRetrying(id, n) ==
  [jobs EXCEPT ![id] = [@ EXCEPT !.state   = "retrying",
                                 !.attempt = n,
                                 !.retryAt = TRUE]]

DeadStillScheduled(id) ==         \* slip: next_retry_at is left alone
  [jobs EXCEPT ![id] = [@ EXCEPT !.state = "dead"]]

UpdateJobDead(id) ==
  [jobs EXCEPT ![id] = [@ EXCEPT !.state = "dead", !.retryAt = FALSE]]

InsertVideo(id, v) == [videos EXCEPT ![id] = @ \cup {v}]

\* The constraints that make an INSERT fail: UNIQUE (idempotency_key), and
\* PRIMARY KEY (video_id, region, job_id), where a job has one region.
KeyIsPending(k)       == \E id \in RowsWithKey(k) : Live(id)
                                  \* slip: a finished job frees its key
OnConflictDoNothing(id, v) == FALSE
                                  \* slip: a repeated video counts as inserted
KeyIsTaken(k)         == RowsWithKey(k) # {}
VideoIsTaken(id, v)   == v \in videos[id]

-----------------------------------------------------------------------------

DatabaseInit ==
  /\ jobs   = [id \in JobIds |-> AbsentRow]
  /\ videos = [id \in JobIds |-> {}]

DatabaseTypeOK ==
  /\ jobs   \in [JobIds -> JobRow]
  /\ videos \in [JobIds -> SUBSET VideoIds]

=============================================================================
