---------------------------- MODULE ETLPipeline -----------------------------
(***************************************************************************)
(* The ingestion half of the pipeline, one process of cmd/server/main.go:  *)
(*                                                                         *)
(*   - handlers: the goroutines gRPC runs for SubmitJob and SubmitBatch    *)
(*     (backend/etl/server.go);                                            *)
(*   - the buffered channel jobQueue between them and the workers;         *)
(*   - workers (backend/worker/worker.go), which call YouTube and write    *)
(*     the job and its videos;                                             *)
(*   - the database, which outlives the process.                           *)
(*                                                                         *)
(* One action is the code between two calls that can block or fail: a      *)
(* statement of the database, a channel operation, a call of YouTube, a    *)
(* sleep.  Everything else in a goroutine is local and is folded into the  *)
(* action it follows.                                                      *)
(***************************************************************************)
EXTENDS Database, YouTubeClient, Sequences

CONSTANTS
  Clients,    \* handlers that can be in progress at once
  Workers,    \* numWorkers goroutines
  QueueCap,   \* capacity of jobQueue
  Requests,   \* the sequences of keys a client may submit in one call
  Listings,   \* the lists of videos YouTube may answer with
  NoJob,      \* "no job id"
  MayFail,    \* a statement may return an error, a request stream may break
  MayCrash    \* the process may stop and be started again

ASSUME PipelineAssumption ==
  /\ QueueCap \in Nat \ {0}
  /\ Requests \subseteq Seq(Keys)
  /\ Listings \subseteq Seq(VideoIds)
  /\ NoJob \notin JobIds
  /\ MayFail \in BOOLEAN
  /\ MayCrash \in BOOLEAN

VARIABLES
  handler,    \* the state of each handler
  queue,      \* jobQueue: the ids of the jobs in it (the request travels along)
  worker,     \* the state of each worker
  abandoned   \* history: ids of live rows the process lost hold of

vars == <<jobs, videos, handler, queue, worker, abandoned>>

-----------------------------------------------------------------------------
(* The two kinds of goroutines.                                            *)

Handler ==
  [rpc  : {"none", "SubmitJob", "SubmitBatch"},
   pc   : {"idle", "recv", "lookup", "insert", "enqueue"},
   todo : Seq(Keys),              \* requests still in the stream
   key  : Keys \cup {NoKey},      \* the request being processed
   id   : JobIds \cup {NoJob},    \* the job created for it
   received : Nat, accepted : Nat, rejected : Nat]

IdleHandler ==
  [rpc |-> "none", pc |-> "idle", todo |-> <<>>, key |-> NoKey, id |-> NoJob,
   received |-> 0, accepted |-> 0, rejected |-> 0]

Worker ==
  [pc       : {"idle", "start", "fetch", "retry", "sleep", "insert", "dead"},
   job      : JobIds \cup {NoJob},
   attempt  : Nat,
   answer   : Answers \cup {"none"},   \* history: what the videos came with
   todo     : Seq(VideoIds),           \* fetched, not inserted yet
   fetched  : Nat,
   inserted : Nat]

IdleWorker ==
  [pc |-> "idle", job |-> NoJob, attempt |-> 0, answer |-> "none",
   todo |-> <<>>, fetched |-> 0, inserted |-> 0]

(* The three places a job can be in on its way through the process.        *)
InHand(c, id)  == handler[c].pc = "enqueue" /\ handler[c].id = id
InQueue(id)    == \E i \in DOMAIN queue : queue[i] = id
AtWork(w, id)  == worker[w].pc # "idle" /\ worker[w].job = id

Held(id) ==
  \/ \E c \in Clients : InHand(c, id)
  \/ InQueue(id)
  \/ \E w \in Workers : AtWork(w, id)

-----------------------------------------------------------------------------
(* Handlers: ETLServer.SubmitJob, ETLServer.SubmitBatch and the helper     *)
(* processJob they share.                                                  *)

\* A call arrives: SubmitJob with one request, SubmitBatch with a stream.
Calling(rpc, pc, key, todo) ==
  [IdleHandler EXCEPT !.rpc = rpc, !.pc = pc, !.key = key, !.todo = todo]

CallSubmitJob(c, request) ==
  /\ handler[c].pc = "idle"
  /\ Len(request) = 1
  /\ handler' = [handler EXCEPT
                   ![c] = Calling("SubmitJob", "lookup", Head(request), <<>>)]
  /\ UNCHANGED <<jobs, videos, queue, worker, abandoned>>

CallSubmitBatch(c, request) ==
  /\ handler[c].pc = "idle"
  /\ handler' = [handler EXCEPT
                   ![c] = Calling("SubmitBatch", "recv", NoKey, request)]
  /\ UNCHANGED <<jobs, videos, queue, worker, abandoned>>

\* stream.Recv: the next request, the end of the stream (SendAndClose), or
\* an error that ends the call.
Received(h) ==
  [h EXCEPT !.pc = "lookup", !.key = Head(h.todo), !.todo = Tail(@),
            !.received = @ + 1]

Recv(c) ==
  /\ handler[c].pc = "recv"
  /\ \/ /\ handler[c].todo # <<>>
        /\ handler' = [handler EXCEPT ![c] = Received(@)]
     \/ /\ handler[c].todo = <<>> \/ MayFail
        /\ handler' = [handler EXCEPT ![c] = IdleHandler]
  /\ UNCHANGED <<jobs, videos, queue, worker, abandoned>>

\* What a handler does once a request is dealt with: SubmitJob returns,
\* SubmitBatch counts and goes back to the head of its loop.
StaysAfterSend(h) == h            \* slip: the job is sent again

AfterAccepted(h) ==
  IF h.rpc = "SubmitJob" THEN IdleHandler
  ELSE [h EXCEPT !.pc = "recv", !.key = NoKey, !.id = NoJob]

RejectedUncounted(h) ==           \* slip: an error is not counted
  IF h.rpc = "SubmitJob" THEN IdleHandler
  ELSE [h EXCEPT !.pc = "recv", !.key = NoKey]

AfterRejected(h) ==
  IF h.rpc = "SubmitJob" THEN IdleHandler
  ELSE [h EXCEPT !.pc = "recv", !.key = NoKey, !.rejected = @ + 1]

Reject(c) == handler' = [handler EXCEPT ![c] = AfterRejected(@)]

\* GetJobByIdempotencyKey: a row answers the request, pgx.ErrNoRows lets it
\* go on, any other error rejects it.
Missing(h) == [h EXCEPT !.pc = "insert"]

Lookup(c) ==
  /\ handler[c].pc = "lookup"
  /\ \/ /\ ~ KeyIsTaken(handler[c].key)
        /\ handler' = [handler EXCEPT ![c] = Missing(@)]
     \/ /\ KeyIsTaken(handler[c].key) \/ MayFail
        /\ Reject(c)
  /\ UNCHANGED <<jobs, videos, queue, worker, abandoned>>

\* InsertJob draws a new UUID.  The statement fails if the key has a row by
\* now, and it may fail for another reason, before or after its commit.
Created(h, id) ==
  [h EXCEPT !.pc = "enqueue", !.id = id, !.accepted = @ + 1]

Insert(c) ==
  /\ handler[c].pc = "insert"
  /\ \/ /\ ~ KeyIsTaken(handler[c].key)
        /\ \E id \in JobIds :
             /\ jobs[id].state = "absent"
             /\ jobs' = InsertJob(id, handler[c].key)
             /\ \/ /\ handler' = [handler EXCEPT ![c] = Created(@, id)]
                   /\ UNCHANGED abandoned
                \/ /\ MayFail
                   /\ Reject(c)
                   /\ abandoned' = abandoned \cup {id}
     \/ /\ KeyIsTaken(handler[c].key) \/ MayFail
        /\ Reject(c)
        /\ UNCHANGED <<jobs, abandoned>>
  /\ UNCHANGED <<videos, queue, worker>>

\* s.jobQueue <- job blocks while the channel is full, whatever becomes of
\* the caller's context.
Enqueue(c) ==
  /\ handler[c].pc = "enqueue"
  /\ Len(queue) < QueueCap
  /\ queue' = Append(queue, handler[c].id)
  /\ handler' = [handler EXCEPT ![c] = AfterAccepted(@)]
  /\ UNCHANGED <<jobs, videos, worker, abandoned>>

-----------------------------------------------------------------------------
(* Workers: Worker.Start and Worker.processJob.                            *)

At(wk, label) == [wk EXCEPT !.pc = label]

Goto(w, label) == worker' = [worker EXCEPT ![w] = At(@, label)]

FallThrough(w) == Goto(w, "dead")   \* slip: the return is missing

Release(w) == worker' = [worker EXCEPT ![w] = IdleWorker]

\* req := <-w.jobQueue
Taken(id) == [IdleWorker EXCEPT !.pc = "start", !.job = id]

Dequeue(w) ==
  /\ worker[w].pc = "idle"
  /\ queue # <<>>
  /\ queue'  = Tail(queue)
  /\ worker' = [worker EXCEPT ![w] = Taken(Head(queue))]
  /\ UNCHANGED <<jobs, videos, handler, abandoned>>

\* UpdateJobStarted, then the loop over the attempts begins.
Started(wk) == [wk EXCEPT !.pc = "fetch", !.attempt = 1]

Begin(w) ==
  /\ worker[w].pc = "start"
  /\ \/ /\ jobs'   = UpdateJobStarted(worker[w].job)
        /\ worker' = [worker EXCEPT ![w] = Started(@)]
     \/ /\ MayFail
        /\ jobs' \in {jobs, UpdateJobStarted(worker[w].job)}
        /\ Goto(w, "dead")
  /\ UNCHANGED <<videos, handler, queue, abandoned>>

\* FetchTrending: an error leads to a retry, a list of videos to inserts.
AfterFetch(wk, answer, listed) ==
  IF FetchFails(answer) THEN [wk EXCEPT !.pc = "retry"]
  ELSE LET items == ItemsOf(answer, listed) IN
       [wk EXCEPT !.pc = "insert", !.answer = answer,
                  !.todo = items, !.fetched = Len(items)]

Fetch(w) ==
  /\ worker[w].pc = "fetch"
  /\ \E answer \in Answers, listed \in Listings :
       worker' = [worker EXCEPT ![w] = AfterFetch(@, answer, listed)]
  /\ UNCHANGED <<jobs, videos, handler, queue, abandoned>>

\* UpdateJobRetrying, then time.Sleep(backoff).
Retry(w) ==
  /\ worker[w].pc = "retry"
  /\ LET after == UpdateJobRetrying(worker[w].job, worker[w].attempt) IN
     \/ jobs' = after /\ Goto(w, "sleep")
     \/ MayFail /\ jobs' \in {jobs, after} /\ Goto(w, "dead")
  /\ UNCHANGED <<videos, handler, queue, abandoned>>

\* The backoff is over: the next attempt, or the end of the loop.
OneAttemptMore(wk) ==             \* slip: attempt <= maxAttempts+1
  IF wk.attempt <= MaxAttempts
  THEN [wk EXCEPT !.pc = "fetch", !.attempt = @ + 1]
  ELSE [wk EXCEPT !.pc = "dead"]

GivesUpSilently(wk) ==            \* slip: no update after the loop
  IF wk.attempt < MaxAttempts
  THEN [wk EXCEPT !.pc = "fetch", !.attempt = @ + 1]
  ELSE IdleWorker

RetriesForever(wk) ==             \* slip: the attempt is not counted
  [wk EXCEPT !.pc = "fetch"]

AfterBackoff(wk) ==
  IF wk.attempt < MaxAttempts
  THEN [wk EXCEPT !.pc = "fetch", !.attempt = @ + 1]
  ELSE [wk EXCEPT !.pc = "dead"]

WakeRequeues(w) ==                \* slip: the channel for the next attempt
  /\ worker[w].pc = "sleep"
  /\ Len(queue) < QueueCap
  /\ queue' = Append(queue, worker[w].job)
  /\ worker' = [worker EXCEPT ![w] = IdleWorker]
  /\ UNCHANGED <<jobs, videos, handler, abandoned>>

Wake(w) ==
  /\ worker[w].pc = "sleep"
  /\ worker' = [worker EXCEPT ![w] = AfterBackoff(@)]
  /\ UNCHANGED <<jobs, videos, handler, queue, abandoned>>

\* One round of the loop over the videos: InsertVideo.
Counted(wk) == [wk EXCEPT !.todo = Tail(@), !.inserted = @ + 1]

InsertNext(w) ==
  /\ worker[w].pc = "insert"
  /\ worker[w].todo # <<>>
  /\ LET id == worker[w].job
         v  == Head(worker[w].todo)
     IN \/ /\ ~ VideoIsTaken(id, v)
           /\ videos' = InsertVideo(id, v)
           /\ \/ worker' = [worker EXCEPT ![w] = Counted(@)]
              \/ MayFail /\ Goto(w, "dead")
        \/ /\ VideoIsTaken(id, v) \/ MayFail
           /\ Goto(w, "dead")
           /\ UNCHANGED videos
  /\ UNCHANGED <<jobs, handler, queue, abandoned>>

\* UpdateJobCompleted.  Its error is dropped, and so is the job.
Complete(w) ==
  /\ worker[w].pc = "insert"
  /\ worker[w].todo = <<>>
  /\ LET id == worker[w].job IN
     \/ /\ jobs' = UpdateJobCompleted(id, worker[w].fetched, worker[w].inserted)
        /\ UNCHANGED abandoned
     \/ /\ MayFail
        /\ abandoned' = abandoned \cup {id}
        /\ UNCHANGED jobs
  /\ Release(w)
  /\ UNCHANGED <<videos, handler, queue>>

\* UpdateJobDead, whose error is dropped too.
MarkDead(w) ==
  /\ worker[w].pc = "dead"
  /\ LET id == worker[w].job IN
     \/ /\ jobs' = UpdateJobDead(id)
        /\ UNCHANGED abandoned
     \/ /\ MayFail
        /\ abandoned' = abandoned \cup {id}
        /\ UNCHANGED jobs
  /\ Release(w)
  /\ UNCHANGED <<videos, handler, queue>>

-----------------------------------------------------------------------------
(* The process.                                                            *)

\* main stops, or is killed, and runs again: etl.New makes an empty channel,
\* New workers are idle, and nothing reads the jobs table for work to resume.
Restart ==
  /\ MayCrash
  /\ handler'   = [c \in Clients |-> IdleHandler]
  /\ worker'    = [w \in Workers |-> IdleWorker]
  /\ queue'     = <<>>
  /\ abandoned' = {id \in JobIds : Live(id)}
  /\ UNCHANGED <<jobs, videos>>

Init ==
  /\ DatabaseInit
  /\ handler   = [c \in Clients |-> IdleHandler]
  /\ worker    = [w \in Workers |-> IdleWorker]
  /\ queue     = <<>>
  /\ abandoned = {}

HandlerStep(c) == Recv(c) \/ Lookup(c) \/ Insert(c) \/ Enqueue(c)

WorkerStep(w) ==
  \/ Dequeue(w) \/ Begin(w) \/ Fetch(w) \/ Retry(w) \/ Wake(w)
  \/ InsertNext(w) \/ Complete(w) \/ MarkDead(w)

Next ==
  \/ \E c \in Clients, request \in Requests :
       CallSubmitJob(c, request) \/ CallSubmitBatch(c, request)
  \/ \E c \in Clients : HandlerStep(c)
  \/ \E w \in Workers : WorkerStep(w)
  \/ Restart

Spec == Init /\ [][Next]_vars

=============================================================================
