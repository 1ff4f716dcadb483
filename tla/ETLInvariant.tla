---------------------------- MODULE ETLInvariant ----------------------------
(***************************************************************************)
(* Why the properties of module ETLProperties hold: an invariant of        *)
(* ETLPipeline that every step preserves on its own.  The properties say   *)
(* how the places of a job and the tables agree; what they leave out is    *)
(* where in the code each goroutine stands when they do.  TLC checks that  *)
(* it is an invariant, ETLProofs that it is inductive.                     *)
(***************************************************************************)
EXTENDS ETLProperties

\* A row r of the jobs table and the videos vs stored for it.
RowFits(r, vs) ==
  /\ r.state = "absent" => r = AbsentRow
  /\ r.state # "absent" => r.key \in Keys
  /\ r.state \in {"absent", "queued"} => r.attempt = 0 /\ vs = {}
  /\ r.attempt <= MaxAttempts
  /\ r.retryAt <=> r.state = "retrying"
  /\ r.state = "done" => r.fetched = r.inserted /\ r.inserted = Cardinality(vs)

RowOK(id) == RowFits(jobs[id], videos[id])

\* A handler past its lookup has a key; one that sends has a queued job.
HandlerOK(c) ==
  /\ handler[c].pc \in {"lookup", "insert"} => handler[c].key \in Keys
  /\ handler[c].pc = "enqueue" => /\ handler[c].id \in JobIds
                                  /\ jobs[handler[c].id].state = "queued"

\* A busy worker wk, the row r of its job and the videos vs stored for it.
WorkerFits(wk, r, vs) ==
  /\ wk.pc = "start" => r.state = "queued"
  /\ wk.pc = "dead"  => r.state \in LiveStates
  /\ wk.pc \notin {"start", "dead"} =>
       /\ r.state \in {"running", "retrying"}
       /\ wk.attempt \in 1 .. MaxAttempts
       /\ r.attempt = IF wk.pc = "sleep" THEN wk.attempt ELSE wk.attempt - 1
  /\ wk.pc \in {"start", "fetch", "retry", "sleep"} =>
       wk.inserted = 0 /\ vs = {}
  /\ wk.pc = "insert" => /\ wk.fetched  = wk.inserted + Len(wk.todo)
                         /\ wk.inserted = Cardinality(vs)

WorkerOK(w) ==
  worker[w].pc # "idle" =>
    /\ worker[w].job \in JobIds
    /\ WorkerFits(worker[w], jobs[worker[w].job], videos[worker[w].job])

QueueOK == \A i \in DOMAIN queue : jobs[queue[i]].state = "queued"

\* What the process lost hold of is a live row that is nowhere in it.
AbandonedOK == \A id \in abandoned : Live(id) /\ ~ Held(id)

\* The inductive invariant of the pipeline (etl/server.go, worker/worker.go
\* and db/db.go together).
Inv ==
  /\ TypeOK
  /\ \A id \in JobIds : RowOK(id)
  /\ \A c \in Clients : HandlerOK(c)
  /\ \A w \in Workers : WorkerOK(w)
  /\ QueueOK
  /\ AbandonedOK
  /\ OneJobPerKey
  /\ HeldOnce
  /\ NothingElseLost

=============================================================================
