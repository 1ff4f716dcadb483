--------------------------- MODULE ETLProperties ----------------------------
(***************************************************************************)
(* What should be true of the ingestion pipeline of module ETLPipeline.    *)
(* The first part holds and is checked as such; the part at the end is     *)
(* what the repository says of the program and the program does not do.    *)
(***************************************************************************)
EXTENDS ETLPipeline

-----------------------------------------------------------------------------
(* Types.                                                                  *)

\* The totals of a batch count every request received so far exactly once,
\* but for the request the handler is working on.
BatchTally(h) ==
  h.rpc = "SubmitBatch" =>
     h.received = h.accepted + h.rejected
                  + (IF h.pc \in {"lookup", "insert"} THEN 1 ELSE 0)

\* Every variable has its type, the channel is within its capacity, and the
\* totals SubmitBatch will answer with (etl/server.go:57) add up.
TypeOK ==
  /\ DatabaseTypeOK
  /\ handler \in [Clients -> Handler]
  /\ \A c \in Clients : BatchTally(handler[c])
  /\ queue \in Seq(JobIds)
  /\ Len(queue) <= QueueCap
  /\ worker \in [Workers -> Worker]
  /\ abandoned \in SUBSET JobIds

-----------------------------------------------------------------------------
(* Safety.                                                                 *)

\* Handlers race between the lookup of a key and its insert, and crash and
\* fail in between; yet a key never has two jobs (etl/server.go:136-151 with
\* the UNIQUE constraint of the jobs table).
OneJobPerKey ==
  \A a, b \in JobIds :
     jobs[a].key = jobs[b].key /\ jobs[a].key # NoKey => a = b

\* A job is in one place of the process at most: one handler's hand, one
\* slot of the channel, or one worker.  No two workers ever run one job.
HeldOnce ==
  /\ \A c, d \in Clients : \A id \in JobIds :
        InHand(c, id) /\ InHand(d, id) => c = d
  /\ \A i, j \in DOMAIN queue : queue[i] = queue[j] => i = j
  /\ \A v, w \in Workers : \A id \in JobIds :
        AtWork(v, id) /\ AtWork(w, id) => v = w
  /\ \A id \in JobIds :
        /\ \A c \in Clients : InHand(c, id) =>
              ~ InQueue(id) /\ \A w \in Workers : ~ AtWork(w, id)
        /\ InQueue(id) => \A w \in Workers : ~ AtWork(w, id)

\* A job in the process has a live row: nothing that is done, dead or never
\* inserted waits in the channel or occupies a worker.
HeldIsLive == \A id \in JobIds : Held(id) => Live(id)

\* A live row is driven by some goroutine, unless the process stopped, the
\* insert's answer got lost, or the last update of the row failed: those
\* are the only ways to leave a job stuck in the jobs table.
NothingElseLost ==
  \A id \in JobIds : Live(id) /\ id \notin abandoned => Held(id)

\* A row has a next_retry_at exactly while it is retrying, whichever update
\* comes last (db/db.go:97-112).
RetrySchedule ==
  \A id \in JobIds : jobs[id].retryAt <=> jobs[id].state = "retrying"

\* The counters of a done job are the truth: it fetched what it inserted,
\* and the videos table has that many rows for it (worker/worker.go:75-86),
\* even when the list names a video twice.
DoneIsComplete ==
  \A id \in JobIds : jobs[id].state = "done" =>
     /\ jobs[id].fetched = jobs[id].inserted
     /\ jobs[id].inserted = Cardinality(videos[id])

\* A job that is done or dead stays as it is, row and videos, whatever the
\* handlers, the workers and restarts do.
TerminalIsFinal ==
  [][\A id \in JobIds : Terminal(id) =>
        jobs'[id] = jobs[id] /\ videos'[id] = videos[id]]_vars

\* A job the process lost hold of is never touched again: nothing resumes
\* it, and no handler or worker that forgot it still writes to it.
AbandonedIsFinal ==
  [][\A id \in abandoned :
        jobs'[id] = jobs[id] /\ videos'[id] = videos[id]]_vars

-----------------------------------------------------------------------------
(* The lifecycle of a job as the jobs table shows it.                      *)

Lifecycle == INSTANCE JobLifecycle WITH
  key      <- [id \in JobIds |-> jobs[id].key],
  state    <- [id \in JobIds |-> jobs[id].state],
  attempt  <- [id \in JobIds |-> jobs[id].attempt],
  inserted <- [id \in JobIds |-> jobs[id].inserted],
  stored   <- videos

\* The pipeline implements the lifecycle: attempts are counted up one by
\* one to MaxAttempts, videos are stored by a job that will not retry, and
\* every change of a row is one of the lifecycle's steps.
ImplementsLifecycle == Lifecycle!Spec

-----------------------------------------------------------------------------
(* Liveness, of FairSpecMain in module Shutdown.                           *)

\* Every job comes to an end, unless the process loses hold of it.
JobsSettle ==
  \A id \in JobIds : Live(id) ~> Terminal(id) \/ id \in abandoned

\* Every call of SubmitJob or SubmitBatch returns, although a full channel
\* blocks it while every worker is busy or backing off: no worker ever waits
\* for room in the channel (worker/worker.go:73, etl/server.go:78, 101).
CallsReturn ==
  \A c \in Clients : handler[c].pc # "idle" ~> handler[c].pc = "idle"

-----------------------------------------------------------------------------
(* What the repository says of the program, and the program does not do.   *)

\* README.md:111, "returning the existing job ID if found.  This makes cron
\* re-runs (e.g. after a flake) safe": a job that answers a re-run either
\* has run or is going to.
RerunIsSafe ==
  \A c \in Clients : handler[c].pc = "lookup" =>
     \A id \in RowsWithKey(handler[c].key) : Terminal(id) \/ Held(id)

=============================================================================
