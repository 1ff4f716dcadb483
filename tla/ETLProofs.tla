----------------------------- MODULE ETLProofs ------------------------------
(***************************************************************************)
(* Proofs about ETLPipeline, for every number of clients, workers, jobs,   *)
(* keys and videos, every capacity of the channel, every request and every *)
(* answer, with and without failures and crashes.                          *)
(*                                                                         *)
(* Inv is inductive.  Where a job is (in a handler's hand, in the channel, *)
(* at work) changes in few ways; the first lemmas prove Inv once for each  *)
(* of them, and an action then only has to show which one it is.           *)
(*                                                                         *)
(* The last part is about Shutdown, main around the pipeline, for every    *)
(* number of watchers.  main adds one step, Exit, and only takes steps     *)
(* away: the invariant of the pipeline is one of the whole process, and    *)
(* what it says of live rows tells what a clean stop leaves behind.        *)
(***************************************************************************)
EXTENDS ETLInvariant, Shutdown, TLAPS, FiniteSetTheorems, SequenceTheorems

-----------------------------------------------------------------------------
(* The records.                                                            *)

LEMMA IdleRecords == IdleHandler \in Handler /\ IdleWorker \in Worker
  BY EmptySeq DEF IdleHandler, Handler, IdleWorker, Worker

\* Updates of a handler keep its type.
LEMMA HandlerUpdates ==
  ASSUME NEW h \in Handler
  PROVE  /\ \A k \in Keys, s \in Seq(Keys), n \in Nat :
              [h EXCEPT !.pc = "lookup", !.key = k, !.todo = s,
                        !.received = n] \in Handler
         /\ \A n \in Nat : [h EXCEPT !.pc = "recv", !.key = NoKey,
                                     !.rejected = n] \in Handler
         /\ \A id \in JobIds, n \in Nat :
              [h EXCEPT !.pc = "enqueue", !.id = id, !.accepted = n] \in Handler
  BY DEF Handler

-----------------------------------------------------------------------------
(* A step of a handler that holds no job before or after it.               *)

LEMMA HandlerKeepsOut ==
  ASSUME Inv, NEW c \in Clients, NEW h \in Handler,
         handler[c].pc # "enqueue", h.pc # "enqueue",
         h.pc \in {"lookup", "insert"} => h.key \in Keys,
         BatchTally(h),
         handler' = [handler EXCEPT ![c] = h],
         UNCHANGED <<jobs, videos, queue, worker, abandoned>>
  PROVE  Inv'
<1> USE DEF Inv
<1>1. TypeOK'
  <2>1. handler' \in [Clients -> Handler]
    BY DEF TypeOK
  <2>2. \A d \in Clients : BatchTally(handler[d])'
    BY DEF TypeOK, BatchTally
  <2> QED BY <2>1, <2>2 DEF TypeOK, DatabaseTypeOK
<1>2. \A d \in Clients, id \in JobIds : InHand(d, id)' <=> InHand(d, id)
  BY DEF InHand, TypeOK
<1>3. \A id \in JobIds : InQueue(id)' <=> InQueue(id)
  BY DEF InQueue
<1>4. \A w \in Workers, id \in JobIds : AtWork(w, id)' <=> AtWork(w, id)
  BY DEF AtWork
<1>5. \A id \in JobIds : Held(id)' <=> Held(id)
  BY <1>2, <1>3, <1>4 DEF Held
<1>6. \A id \in JobIds : RowOK(id)'
  BY DEF RowOK
<1>7. \A d \in Clients : HandlerOK(d)'
  BY DEF HandlerOK, TypeOK
<1>8. (\A w \in Workers : WorkerOK(w)') /\ QueueOK'
  BY DEF WorkerOK, QueueOK
<1>9. AbandonedOK' /\ NothingElseLost' 
  BY <1>5 DEF AbandonedOK, NothingElseLost, Live, TypeOK
<1>10. OneJobPerKey'
  BY DEF OneJobPerKey
<1>11. HeldOnce'
  BY <1>2, <1>3, <1>4 DEF HeldOnce
<1> QED BY <1>1, <1>6, <1>7, <1>8, <1>9, <1>10, <1>11

\* What AfterRejected leaves is such a step.
LEMMA RejectedOut ==
  ASSUME Inv, NEW c \in Clients, handler[c].pc \in {"lookup", "insert"}
  PROVE  /\ AfterRejected(handler[c]) \in Handler
         /\ AfterRejected(handler[c]).pc \notin {"lookup", "insert", "enqueue"}
         /\ BatchTally(AfterRejected(handler[c]))
<1>1. handler[c] \in Handler /\ BatchTally(handler[c])
  BY DEF Inv, TypeOK
<1>2. CASE handler[c].rpc = "SubmitJob"
  BY <1>2, IdleRecords DEF AfterRejected, IdleHandler, BatchTally
<1>3. CASE handler[c].rpc # "SubmitJob"
  <2> DEFINE h == [handler[c] EXCEPT !.pc = "recv", !.key = NoKey,
                                     !.rejected = @ + 1]
  <2>1. AfterRejected(handler[c]) = h
    BY <1>3 DEF AfterRejected
  <2>2. h \in Handler
    <3>1. handler[c].rejected + 1 \in Nat
      BY <1>1 DEF Handler
    <3> QED BY <1>1, <3>1, HandlerUpdates
  <2>3. h.pc = "recv" /\ BatchTally(h)
    BY <1>1 DEF Handler, BatchTally
  <2> QED BY <2>1, <2>2, <2>3
<1> QED BY <1>2, <1>3

LEMMA CallStep ==
  ASSUME Inv, NEW c \in Clients, NEW request \in Requests,
         CallSubmitJob(c, request) \/ CallSubmitBatch(c, request)
  PROVE  Inv'
<1>1. request \in Seq(Keys)
  BY PipelineAssumption
<1>2. CASE CallSubmitJob(c, request)
  <2> DEFINE h == Calling("SubmitJob", "lookup", Head(request), <<>>)
  <2>1. Head(request) \in Keys
    <3>1. Len(request) = 1
      BY <1>2 DEF CallSubmitJob
    <3>2. request # <<>>
      BY <1>1, <3>1
    <3> QED BY <1>1, <3>2
  <2>2. h \in Handler /\ h.pc = "lookup" /\ h.key \in Keys /\ BatchTally(h)
    BY <2>1, IdleRecords DEF Calling, IdleHandler, Handler, BatchTally
  <2>3. /\ handler[c].pc # "enqueue"
        /\ handler' = [handler EXCEPT ![c] = h]
        /\ UNCHANGED <<jobs, videos, queue, worker, abandoned>>
    BY <1>2 DEF CallSubmitJob
  <2> QED BY <2>2, <2>3, HandlerKeepsOut
<1>3. CASE CallSubmitBatch(c, request)
  <2> DEFINE h == Calling("SubmitBatch", "recv", NoKey, request)
  <2>1. h \in Handler
    BY <1>1, IdleRecords DEF Calling, IdleHandler, Handler
  <2>2. h.pc = "recv" /\ BatchTally(h)
    BY DEF Calling, IdleHandler, BatchTally
  <2>3. /\ handler[c].pc # "enqueue"
        /\ handler' = [handler EXCEPT ![c] = h]
        /\ UNCHANGED <<jobs, videos, queue, worker, abandoned>>
    BY <1>3 DEF CallSubmitBatch
  <2> QED BY <2>1, <2>2, <2>3, HandlerKeepsOut
<1> QED BY <1>2, <1>3

LEMMA RecvStep ==
  ASSUME Inv, NEW c \in Clients, Recv(c)
  PROVE  Inv'
<1>1. /\ handler[c] \in Handler
      /\ BatchTally(handler[c])
      /\ handler[c].pc = "recv"
      /\ UNCHANGED <<jobs, videos, queue, worker, abandoned>>
  BY DEF Recv, Inv, TypeOK
<1>2. CASE /\ handler[c].todo # <<>>
           /\ handler' = [handler EXCEPT ![c] = Received(handler[c])]
  <2>1. handler[c].todo \in Seq(Keys)
    BY <1>1 DEF Handler
  <2>2. Head(handler[c].todo) \in Keys /\ Tail(handler[c].todo) \in Seq(Keys)
    BY <1>2, <2>1
  <2>3. Received(handler[c]) \in Handler
    <3>1. handler[c].received + 1 \in Nat
      BY <1>1 DEF Handler
    <3> QED BY <1>1, <2>2, <3>1, HandlerUpdates DEF Received
  <2>4. /\ Received(handler[c]).pc = "lookup"
        /\ Received(handler[c]).key \in Keys
    BY <1>1, <2>2 DEF Received, Handler
  <2>5. BatchTally(Received(handler[c]))
    BY <1>1 DEF Received, Handler, BatchTally
  <2> QED BY <1>1, <1>2, <2>3, <2>4, <2>5, HandlerKeepsOut
<1>3. CASE handler' = [handler EXCEPT ![c] = IdleHandler]
  <2>1. IdleHandler.pc = "idle" /\ BatchTally(IdleHandler)
    BY DEF IdleHandler, BatchTally
  <2> QED BY <1>1, <1>3, <2>1, IdleRecords, HandlerKeepsOut
<1> QED BY <1>2, <1>3 DEF Recv

LEMMA LookupStep ==
  ASSUME Inv, NEW c \in Clients, Lookup(c)
  PROVE  Inv'
<1>1. /\ handler[c] \in Handler
      /\ BatchTally(handler[c])
      /\ handler[c].key \in Keys
      /\ handler[c].pc = "lookup"
      /\ UNCHANGED <<jobs, videos, queue, worker, abandoned>>
  BY DEF Lookup, Inv, TypeOK, HandlerOK
<1>2. CASE handler' = [handler EXCEPT ![c] = Missing(handler[c])]
  <2>1. /\ Missing(handler[c]) \in Handler
        /\ Missing(handler[c]).pc = "insert"
        /\ Missing(handler[c]).key \in Keys
        /\ BatchTally(Missing(handler[c]))
    BY <1>1 DEF Missing, Handler, BatchTally
  <2> QED BY <1>1, <1>2, <2>1, HandlerKeepsOut
<1>3. CASE Reject(c)
  BY <1>1, <1>3, RejectedOut, HandlerKeepsOut DEF Reject
<1> QED BY <1>2, <1>3 DEF Lookup

-----------------------------------------------------------------------------
(* A step of a worker that has the same job before and after it.           *)

LEMMA WorkerKeepsJob ==
  ASSUME Inv, NEW w \in Workers, NEW wk \in Worker,
         worker[w].pc # "idle", wk.pc # "idle", wk.job = worker[w].job,
         NEW r \in JobRow, NEW vs \in SUBSET VideoIds,
         r.key = jobs[wk.job].key, r.state \in LiveStates,
         worker' = [worker EXCEPT ![w] = wk],
         jobs'   = [jobs EXCEPT ![wk.job] = r],
         videos' = [videos EXCEPT ![wk.job] = vs],
         UNCHANGED <<handler, queue, abandoned>>,
         RowFits(r, vs), WorkerFits(wk, r, vs)
  PROVE  Inv'
<1> USE DEF Inv
<1> DEFINE j == wk.job
<1>1. j \in JobIds /\ jobs[j].state \in LiveStates /\ AtWork(w, j)
  BY DEF WorkerOK, WorkerFits, LiveStates, AtWork, TypeOK, Worker
<1>2. TypeOK'
  BY <1>1 DEF TypeOK, DatabaseTypeOK, BatchTally
<1>3. \A d \in Clients, id \in JobIds : InHand(d, id)' <=> InHand(d, id)
  BY DEF InHand
<1>4. \A id \in JobIds : InQueue(id)' <=> InQueue(id)
  BY DEF InQueue
<1>5. \A v \in Workers, id \in JobIds : AtWork(v, id)' <=> AtWork(v, id)
  BY DEF AtWork, TypeOK
<1>6. \A id \in JobIds : Held(id)' <=> Held(id)
  BY <1>3, <1>4, <1>5 DEF Held
<1>7. \A id \in JobIds : id # j => jobs'[id] = jobs[id] /\ videos'[id] = videos[id]
  BY <1>1 DEF TypeOK, DatabaseTypeOK
<1>8. jobs'[j] = r /\ videos'[j] = vs
  BY <1>1 DEF TypeOK, DatabaseTypeOK
<1>9. \A id \in JobIds : RowOK(id)'
  BY <1>7, <1>8 DEF RowOK
<1>10. \A d \in Clients : HandlerOK(d)'
  <2> TAKE d \in Clients
  <2>1. handler[d].pc = "enqueue" => handler[d].id # j
    BY <1>1 DEF HeldOnce, InHand, HandlerOK
  <2> QED BY <1>7, <2>1 DEF HandlerOK
<1>11. \A v \in Workers : WorkerOK(v)'
  <2> TAKE v \in Workers
  <2>1. CASE v = w
    BY <1>1, <1>8, <2>1 DEF WorkerOK, TypeOK
  <2>2. CASE v # w
    <3>1. worker'[v] = worker[v]
      BY <2>2 DEF TypeOK
    <3>2. worker[v].pc # "idle" => worker[v].job \in JobIds /\ worker[v].job # j
      BY <1>1, <2>2 DEF HeldOnce, AtWork, WorkerOK
    <3> QED BY <1>7, <3>1, <3>2 DEF WorkerOK
  <2> QED BY <2>1, <2>2
<1>12. QueueOK'
  <2>1. \A i \in DOMAIN queue : queue[i] \in JobIds /\ queue[i] # j
    BY <1>1 DEF HeldOnce, InQueue, TypeOK
  <2> QED BY <1>7, <2>1 DEF QueueOK
<1>13. \A id \in JobIds : Live(id)' <=> Live(id)
  BY <1>1, <1>7, <1>8 DEF Live
<1>14. AbandonedOK' /\ NothingElseLost'
  BY <1>6, <1>13 DEF AbandonedOK, NothingElseLost, TypeOK
<1>15. OneJobPerKey'
  <2>1. \A id \in JobIds : jobs'[id].key = jobs[id].key
    BY <1>7, <1>8
  <2> QED BY <2>1 DEF OneJobPerKey
<1>16. HeldOnce'
  BY <1>3, <1>4, <1>5 DEF HeldOnce
<1> QED BY <1>2, <1>9, <1>10, <1>11, <1>12, <1>14, <1>15, <1>16

\* What is known of a worker with a job, its row and its videos.
LEMMA BusyWorker ==
  ASSUME Inv, NEW w \in Workers, worker[w].pc # "idle"
  PROVE  LET j == worker[w].job IN
         /\ worker[w] \in Worker
         /\ j \in JobIds
         /\ jobs[j] \in JobRow /\ videos[j] \in SUBSET VideoIds
         /\ jobs[j].state \in LiveStates
         /\ jobs   = [jobs EXCEPT ![j] = jobs[j]]
         /\ videos = [videos EXCEPT ![j] = videos[j]]
         /\ RowFits(jobs[j], videos[j])
         /\ WorkerFits(worker[w], jobs[j], videos[j])
<1>1. worker[w] \in Worker /\ worker[w].job \in JobIds
  BY DEF Inv, TypeOK, WorkerOK
<1>2. WorkerFits(worker[w], jobs[worker[w].job], videos[worker[w].job])
  BY DEF Inv, WorkerOK
<1>3. jobs[worker[w].job].state \in LiveStates
  BY <1>1, <1>2 DEF WorkerFits, Worker, LiveStates
<1> QED BY <1>1, <1>2, <1>3 DEF Inv, TypeOK, DatabaseTypeOK, RowOK

\* A worker that gives up keeps the job until UpdateJobDead.
LEMMA WorkerGivesUp ==
  ASSUME Inv, NEW w \in Workers, worker[w].pc # "idle", Goto(w, "dead"),
         NEW r \in JobRow, NEW vs \in SUBSET VideoIds,
         r.key = jobs[worker[w].job].key, r.state \in LiveStates,
         RowFits(r, vs),
         jobs'   = [jobs EXCEPT ![worker[w].job] = r],
         videos' = [videos EXCEPT ![worker[w].job] = vs],
         UNCHANGED <<handler, queue, abandoned>>
  PROVE  Inv'
<1> DEFINE wk == At(worker[w], "dead")
<1>1. worker[w] \in Worker
  BY BusyWorker
<1>2. wk \in Worker /\ wk.pc = "dead" /\ wk.job = worker[w].job
  BY <1>1 DEF At, Worker
<1>3. WorkerFits(wk, r, vs)
  BY <1>2 DEF WorkerFits
<1>4. worker' = [worker EXCEPT ![w] = wk]
  BY DEF Goto
<1> HIDE DEF wk
<1> QED BY <1>2, <1>3, <1>4, WorkerKeepsJob

LEMMA BeginStep ==
  ASSUME Inv, NEW w \in Workers, Begin(w)
  PROVE  Inv'
<1> DEFINE wk == worker[w]
           j  == wk.job
           r  == [jobs[j] EXCEPT !.state = "running"]
<1>1. wk.pc = "start" /\ UNCHANGED <<videos, handler, queue, abandoned>>
  BY DEF Begin
<1>2. /\ wk \in Worker /\ j \in JobIds
      /\ jobs[j] \in JobRow /\ videos[j] \in SUBSET VideoIds
      /\ jobs[j].state \in LiveStates
      /\ jobs   = [jobs EXCEPT ![j] = jobs[j]]
      /\ videos = [videos EXCEPT ![j] = videos[j]]
      /\ RowFits(jobs[j], videos[j]) /\ WorkerFits(wk, jobs[j], videos[j])
  BY <1>1, BusyWorker
<1>3. /\ r \in JobRow /\ r.key = jobs[j].key /\ r.state \in LiveStates
      /\ RowFits(r, videos[j])
  BY <1>1, <1>2 DEF JobRow, LiveStates, RowFits, WorkerFits
<1>4. UpdateJobStarted(j) = [jobs EXCEPT ![j] = r]
  BY DEF UpdateJobStarted
<1>5. CASE jobs' = UpdateJobStarted(j) /\ worker' = [worker EXCEPT ![w] = Started(wk)]
  <2>1. /\ Started(wk) \in Worker
        /\ Started(wk).pc = "fetch" /\ Started(wk).job = j
    BY <1>2 DEF Started, Worker
  <2>2. WorkerFits(Started(wk), r, videos[j])
    BY <1>1, <1>2 DEF Started, Worker, WorkerFits, RowFits, MaxAttempts, JobRow
  <2> DEFINE new == Started(wk)
  <2>3. /\ new \in Worker /\ new.pc # "idle" /\ new.job = wk.job
        /\ WorkerFits(new, r, videos[j])
    BY <2>1, <2>2
  <2>4. worker' = [worker EXCEPT ![w] = new]
    BY <1>5
  <2> HIDE DEF new
  <2>5. /\ jobs'   = [jobs EXCEPT ![new.job] = r]
        /\ videos' = [videos EXCEPT ![new.job] = videos[j]]
        /\ r.key = jobs[new.job].key
    BY <1>1, <1>2, <1>3, <1>4, <1>5, <2>3
  <2> HIDE DEF r
  <2> QED BY <1>1, <1>2, <1>3, <2>3, <2>4, <2>5, WorkerKeepsJob
<1>6. CASE jobs' = jobs /\ Goto(w, "dead")
  BY <1>1, <1>2, <1>6, WorkerGivesUp
<1>7. CASE jobs' = UpdateJobStarted(j) /\ Goto(w, "dead")
  BY <1>1, <1>2, <1>3, <1>4, <1>7, WorkerGivesUp
<1> QED BY <1>5, <1>6, <1>7 DEF Begin

LEMMA FetchStep ==
  ASSUME Inv, NEW w \in Workers, Fetch(w)
  PROVE  Inv'
<1> DEFINE wk == worker[w]
           j  == wk.job
<1>1. wk.pc = "fetch" /\ UNCHANGED <<jobs, videos, handler, queue, abandoned>>
  BY DEF Fetch
<1>2. /\ wk \in Worker /\ j \in JobIds
      /\ jobs[j] \in JobRow /\ videos[j] \in SUBSET VideoIds
      /\ jobs[j].state \in LiveStates
      /\ jobs   = [jobs EXCEPT ![j] = jobs[j]]
      /\ videos = [videos EXCEPT ![j] = videos[j]]
      /\ RowFits(jobs[j], videos[j]) /\ WorkerFits(wk, jobs[j], videos[j])
  BY <1>1, BusyWorker
<1>3. PICK answer \in Answers, listed \in Listings :
         worker' = [worker EXCEPT ![w] = AfterFetch(wk, answer, listed)]
  BY DEF Fetch
<1> DEFINE new == AfterFetch(wk, answer, listed)
<1>4. /\ new \in Worker /\ new.pc # "idle" /\ new.job = j
      /\ WorkerFits(new, jobs[j], videos[j])
  <2>1. CASE FetchFails(answer)
    <3>1. new = [wk EXCEPT !.pc = "retry"]
      BY <2>1 DEF AfterFetch
    <3> QED BY <1>1, <1>2, <3>1 DEF Worker, WorkerFits
  <2>2. CASE ~ FetchFails(answer)
    <3> DEFINE items == ItemsOf(answer, listed)
    <3>1. items \in Seq(VideoIds)
      BY PipelineAssumption, EmptySeq DEF ItemsOf
    <3>2. Len(items) \in Nat
      BY <3>1
    <3>3. new = [wk EXCEPT !.pc = "insert", !.answer = answer,
                           !.todo = items, !.fetched = Len(items)]
      BY <2>2 DEF AfterFetch
    <3> HIDE DEF items
    <3>4. new \in Worker
      BY <1>2, <3>1, <3>2, <3>3 DEF Worker
    <3>5. /\ new.pc = "insert" /\ new.job = j /\ new.attempt = wk.attempt
          /\ new.fetched = Len(new.todo) /\ new.inserted = wk.inserted
      BY <1>2, <3>3 DEF Worker
    <3>6. wk.inserted = 0 /\ videos[j] = {}
      BY <1>1, <1>2 DEF WorkerFits
    <3>7. Cardinality({}) = 0
      BY FS_EmptySet
    <3>8. /\ jobs[j].state \in {"running", "retrying"}
          /\ wk.attempt \in 1 .. MaxAttempts
          /\ jobs[j].attempt = wk.attempt - 1
      BY <1>1, <1>2 DEF WorkerFits
    <3>9. Len(new.todo) \in Nat
      BY <3>4 DEF Worker
    <3>10. WorkerFits(new, jobs[j], videos[j])
      BY <3>5, <3>6, <3>7, <3>8, <3>9 DEF WorkerFits
    <3> QED BY <3>4, <3>5, <3>10
  <2> QED BY <2>1, <2>2
<1> QED BY <1>1, <1>2, <1>3, <1>4, WorkerKeepsJob

LEMMA RetryStep ==
  ASSUME Inv, NEW w \in Workers, Retry(w)
  PROVE  Inv'
<1> DEFINE wk == worker[w]
           j  == wk.job
           r  == [jobs[j] EXCEPT !.state = "retrying", !.attempt = wk.attempt,
                                 !.retryAt = TRUE]
<1>1. wk.pc = "retry" /\ UNCHANGED <<videos, handler, queue, abandoned>>
  BY DEF Retry
<1>2. /\ wk \in Worker /\ j \in JobIds
      /\ jobs[j] \in JobRow /\ videos[j] \in SUBSET VideoIds
      /\ jobs[j].state \in LiveStates
      /\ jobs   = [jobs EXCEPT ![j] = jobs[j]]
      /\ videos = [videos EXCEPT ![j] = videos[j]]
      /\ RowFits(jobs[j], videos[j]) /\ WorkerFits(wk, jobs[j], videos[j])
  BY <1>1, BusyWorker
<1>3. /\ r \in JobRow /\ r.key = jobs[j].key /\ r.state \in LiveStates
      /\ RowFits(r, videos[j])
  <2>1. wk.attempt \in Nat /\ wk.attempt <= MaxAttempts
    BY <1>1, <1>2 DEF WorkerFits, Worker, MaxAttempts
  <2>2. r \in JobRow /\ r.key = jobs[j].key /\ r.state \in LiveStates
    BY <1>2, <2>1 DEF JobRow, LiveStates
  <2>3. RowFits(r, videos[j])
    BY <1>2, <2>1 DEF JobRow, LiveStates, RowFits
  <2> QED BY <2>2, <2>3
<1>4. UpdateJobRetrying(j, wk.attempt) = [jobs EXCEPT ![j] = r]
  BY DEF UpdateJobRetrying
<1>5. CASE jobs' = UpdateJobRetrying(j, wk.attempt) /\ Goto(w, "sleep")
  <2>1. /\ At(wk, "sleep") \in Worker
        /\ At(wk, "sleep").pc = "sleep" /\ At(wk, "sleep").job = j
    BY <1>2 DEF At, Worker
  <2>2. WorkerFits(At(wk, "sleep"), r, videos[j])
    BY <1>1, <1>2 DEF At, Worker, WorkerFits, JobRow
  <2> DEFINE new == At(wk, "sleep")
  <2>3. /\ new \in Worker /\ new.pc # "idle" /\ new.job = wk.job
        /\ WorkerFits(new, r, videos[j])
    BY <2>1, <2>2
  <2>4. worker' = [worker EXCEPT ![w] = new]
    BY <1>5 DEF Goto
  <2> HIDE DEF new
  <2>5. /\ jobs'   = [jobs EXCEPT ![new.job] = r]
        /\ videos' = [videos EXCEPT ![new.job] = videos[j]]
        /\ r.key = jobs[new.job].key
    BY <1>1, <1>2, <1>3, <1>4, <1>5, <2>3
  <2> HIDE DEF r
  <2> QED BY <1>1, <1>2, <1>3, <2>3, <2>4, <2>5, WorkerKeepsJob
<1>6. CASE jobs' = jobs /\ Goto(w, "dead")
  BY <1>1, <1>2, <1>6, WorkerGivesUp
<1>7. CASE jobs' = UpdateJobRetrying(j, wk.attempt) /\ Goto(w, "dead")
  BY <1>1, <1>2, <1>3, <1>4, <1>7, WorkerGivesUp
<1>8. \/ jobs' = UpdateJobRetrying(j, wk.attempt) /\ Goto(w, "sleep")
      \/ jobs' = jobs /\ Goto(w, "dead")
      \/ jobs' = UpdateJobRetrying(j, wk.attempt) /\ Goto(w, "dead")
  BY Zenon DEF Retry
<1> QED BY <1>5, <1>6, <1>7, <1>8

LEMMA WakeStep ==
  ASSUME Inv, NEW w \in Workers, Wake(w)
  PROVE  Inv'
<1> DEFINE wk  == worker[w]
           j   == wk.job
           new == AfterBackoff(wk)
<1>1. /\ wk.pc = "sleep"
      /\ worker' = [worker EXCEPT ![w] = new]
      /\ UNCHANGED <<jobs, videos, handler, queue, abandoned>>
  BY DEF Wake
<1>2. /\ wk \in Worker /\ j \in JobIds
      /\ jobs[j] \in JobRow /\ videos[j] \in SUBSET VideoIds
      /\ jobs[j].state \in LiveStates
      /\ jobs   = [jobs EXCEPT ![j] = jobs[j]]
      /\ videos = [videos EXCEPT ![j] = videos[j]]
      /\ RowFits(jobs[j], videos[j]) /\ WorkerFits(wk, jobs[j], videos[j])
  BY <1>1, BusyWorker
<1>3. /\ new \in Worker /\ new.pc # "idle" /\ new.job = j
      /\ WorkerFits(new, jobs[j], videos[j])
  <2>1. CASE wk.attempt < MaxAttempts
    <3>1. new = [wk EXCEPT !.pc = "fetch", !.attempt = @ + 1]
      BY <2>1 DEF AfterBackoff
    <3>2. wk.attempt + 1 \in Nat
      BY <1>2 DEF Worker
    <3>3. new \in Worker
      BY <1>2, <3>1, <3>2 DEF Worker
    <3>4. /\ new.pc = "fetch" /\ new.job = j /\ new.attempt = wk.attempt + 1
          /\ new.inserted = wk.inserted
      BY <1>2, <3>1 DEF Worker
    <3>5. WorkerFits(new, jobs[j], videos[j])
      BY <1>1, <1>2, <2>1, <3>4 DEF WorkerFits, MaxAttempts
    <3> QED BY <3>3, <3>4, <3>5
  <2>2. CASE ~ (wk.attempt < MaxAttempts)
    BY <1>2, <2>2 DEF AfterBackoff, Worker, WorkerFits
  <2> QED BY <2>1, <2>2
<1> QED BY <1>1, <1>2, <1>3, WorkerKeepsJob

LEMMA InsertNextStep ==
  ASSUME Inv, NEW w \in Workers, InsertNext(w)
  PROVE  Inv'
<1> DEFINE wk  == worker[w]
           j   == wk.job
           v   == Head(wk.todo)
           vs  == videos[j] \cup {v}
           new == Counted(wk)
<1>1. /\ wk.pc = "insert" /\ wk.todo # <<>>
      /\ UNCHANGED <<jobs, handler, queue, abandoned>>
  BY DEF InsertNext
<1>2. /\ wk \in Worker /\ j \in JobIds
      /\ jobs[j] \in JobRow /\ videos[j] \in SUBSET VideoIds
      /\ jobs[j].state \in LiveStates
      /\ jobs   = [jobs EXCEPT ![j] = jobs[j]]
      /\ videos = [videos EXCEPT ![j] = videos[j]]
      /\ RowFits(jobs[j], videos[j]) /\ WorkerFits(wk, jobs[j], videos[j])
  BY <1>1, BusyWorker
<1>3. wk.todo \in Seq(VideoIds)
  BY <1>2 DEF Worker
<1>4. /\ v \in VideoIds /\ Tail(wk.todo) \in Seq(VideoIds)
      /\ Len(Tail(wk.todo)) = Len(wk.todo) - 1
      /\ Len(wk.todo) \in Nat
  BY <1>1, <1>3
<1>5. vs \in SUBSET VideoIds /\ InsertVideo(j, v) = [videos EXCEPT ![j] = vs]
  BY <1>2, <1>4 DEF InsertVideo
<1>6. jobs[j].state \in {"running", "retrying"}
  BY <1>1, <1>2 DEF WorkerFits
<1>7. RowFits(jobs[j], vs)
  BY <1>2, <1>6 DEF RowFits
<1>8. CASE /\ ~ VideoIsTaken(j, v)
           /\ videos' = InsertVideo(j, v)
           /\ worker' = [worker EXCEPT ![w] = new]
  <2>1. wk.inserted + 1 \in Nat
    BY <1>2 DEF Worker
  <2>2. /\ new.pc = "insert" /\ new.job = j /\ new.attempt = wk.attempt
        /\ new.todo = Tail(wk.todo) /\ new.fetched = wk.fetched
        /\ new.inserted = wk.inserted + 1
    BY <1>1, <1>2 DEF Counted, Worker
  <2>3. new \in Worker
    <3>1. \A s \in Seq(VideoIds), n \in Nat :
             [wk EXCEPT !.todo = s, !.inserted = n] \in Worker
      BY <1>2 DEF Worker
    <3> QED BY <1>4, <2>1, <3>1 DEF Counted
  <2>4. Cardinality(vs) = Cardinality(videos[j]) + 1
    <3>1. IsFiniteSet(videos[j])
      BY <1>2, FS_Subset, DatabaseAssumption
    <3>2. v \notin videos[j]
      BY <1>8 DEF VideoIsTaken
    <3> QED BY <3>1, <3>2, FS_AddElement
  <2>5. /\ wk.fetched  = wk.inserted + Len(wk.todo)
        /\ wk.inserted = Cardinality(videos[j])
        /\ wk.attempt \in 1 .. MaxAttempts
        /\ jobs[j].attempt = wk.attempt - 1
    BY <1>1, <1>2 DEF WorkerFits
  <2>6. new.fetched = new.inserted + Len(new.todo)
    <3>1. wk.inserted \in Nat /\ wk.fetched \in Nat
      BY <1>2 DEF Worker
    <3>2. Len(wk.todo) \in Nat /\ Len(new.todo) = Len(wk.todo) - 1
      BY <1>4, <2>2
    <3>3. new.inserted = wk.inserted + 1 /\ new.fetched = wk.fetched
      BY <2>2
    <3>4. wk.fetched = wk.inserted + Len(wk.todo)
      BY <2>5
    <3> HIDE DEF new, wk
    <3> QED BY <3>1, <3>2, <3>3, <3>4
  <2>7. new.inserted = Cardinality(vs)
    BY <2>2, <2>4, <2>5
  <2>8. WorkerFits(new, jobs[j], vs)
    BY <1>6, <2>2, <2>5, <2>6, <2>7 DEF WorkerFits
  <2>9. /\ jobs'   = [jobs EXCEPT ![j] = jobs[j]]
        /\ videos' = [videos EXCEPT ![j] = vs]
        /\ worker' = [worker EXCEPT ![w] = new]
        /\ UNCHANGED <<handler, queue, abandoned>>
    BY <1>1, <1>2, <1>5, <1>8
  <2>10. wk.pc # "idle" /\ new.pc # "idle" /\ new.job = j
    BY <1>1, <2>2
  <2> HIDE DEF v, vs, new
  <2> QED BY <1>2, <1>5, <1>7, <2>3, <2>8, <2>9, <2>10, WorkerKeepsJob
<1>9. CASE videos' = InsertVideo(j, v) /\ Goto(w, "dead")
  BY <1>1, <1>2, <1>5, <1>7, <1>9, WorkerGivesUp
<1>10. CASE videos' = videos /\ Goto(w, "dead")
  <2>1. /\ jobs'   = [jobs EXCEPT ![j] = jobs[j]]
        /\ videos' = [videos EXCEPT ![j] = videos[j]]
        /\ UNCHANGED <<handler, queue, abandoned>>
        /\ wk.pc # "idle"
    BY <1>1, <1>2, <1>10
  <2> HIDE DEF v, vs, new
  <2> QED BY <1>2, <1>10, <2>1, WorkerGivesUp
<1>11. \/ /\ ~ VideoIsTaken(j, v)
          /\ videos' = InsertVideo(j, v)
          /\ worker' = [worker EXCEPT ![w] = new]
       \/ videos' = InsertVideo(j, v) /\ Goto(w, "dead")
       \/ videos' = videos /\ Goto(w, "dead")
  BY Zenon DEF InsertNext
<1> QED BY <1>8, <1>9, <1>10, <1>11

-----------------------------------------------------------------------------
(* A step of a worker that lets go of its job.                             *)

LEMMA HeldJobIsLive ==
  ASSUME Inv, NEW id \in JobIds, Held(id)
  PROVE  Live(id) /\ id \notin abandoned
<1>1. ASSUME NEW c \in Clients, InHand(c, id) PROVE Live(id)
  BY <1>1 DEF Inv, HandlerOK, InHand, Live, LiveStates
<1>2. ASSUME InQueue(id) PROVE Live(id)
  BY <1>2 DEF Inv, QueueOK, InQueue, Live, LiveStates
<1>3. ASSUME NEW w \in Workers, AtWork(w, id) PROVE Live(id)
  BY <1>3, BusyWorker DEF AtWork, Live
<1>4. id \notin abandoned
  BY DEF Inv, AbandonedOK
<1> QED BY <1>1, <1>2, <1>3, <1>4 DEF Held

LEMMA WorkerReleases ==
  ASSUME Inv, NEW w \in Workers, worker[w].pc # "idle", Release(w),
         NEW r \in JobRow, r.key = jobs[worker[w].job].key,
         RowFits(r, videos[worker[w].job]),
         jobs' = [jobs EXCEPT ![worker[w].job] = r],
         UNCHANGED <<videos, handler, queue>>,
         \/ r.state \in TerminalStates /\ abandoned' = abandoned
         \/ /\ r.state \in LiveStates
            /\ abandoned' = abandoned \cup {worker[w].job}
  PROVE  Inv'
<1> USE DEF Inv
<1>0. PICK j \in JobIds : j = worker[w].job
  BY BusyWorker
<1>1. AtWork(w, j) /\ Held(j)
  BY <1>0 DEF AtWork, Held
<1>2. Live(j) /\ j \notin abandoned
  BY <1>1, HeldJobIsLive
<1>3. worker' = [worker EXCEPT ![w] = IdleWorker]
  BY DEF Release
<1>4. IdleWorker \in Worker /\ IdleWorker.pc = "idle"
  BY IdleRecords DEF IdleWorker
<1>5. TypeOK'
  BY <1>0, <1>3, <1>4 DEF TypeOK, DatabaseTypeOK, BatchTally
<1>6. \A d \in Clients, id \in JobIds : InHand(d, id)' <=> InHand(d, id)
  BY DEF InHand
<1>7. \A id \in JobIds : InQueue(id)' <=> InQueue(id)
  BY DEF InQueue
<1>8. \A v \in Workers, id \in JobIds : AtWork(v, id)' <=> AtWork(v, id) /\ v # w
  BY <1>3, <1>4 DEF AtWork, TypeOK
<1>9. \A id \in JobIds : Held(id)' <=> Held(id) /\ id # j
  BY <1>1, <1>6, <1>7, <1>8 DEF Held, HeldOnce, AtWork
<1>10. \A id \in JobIds : id # j => jobs'[id] = jobs[id]
  BY <1>0 DEF TypeOK, DatabaseTypeOK
<1>11. jobs'[j] = r
  BY <1>0 DEF TypeOK, DatabaseTypeOK
<1>12. \A id \in JobIds : RowOK(id)'
  BY <1>0, <1>10, <1>11 DEF RowOK
<1>13. \A d \in Clients : HandlerOK(d)'
  <2> TAKE d \in Clients
  <2>1. handler[d].pc = "enqueue" => handler[d].id # j
    BY <1>1 DEF HeldOnce, InHand, HandlerOK
  <2> QED BY <1>10, <2>1 DEF HandlerOK
<1>14. \A v \in Workers : WorkerOK(v)'
  <2> TAKE v \in Workers
  <2>1. CASE v = w
    BY <1>3, <1>4, <2>1 DEF WorkerOK, TypeOK
  <2>2. CASE v # w
    <3>1. worker'[v] = worker[v]
      BY <1>3, <2>2 DEF TypeOK
    <3>2. worker[v].pc # "idle" => worker[v].job \in JobIds /\ worker[v].job # j
      BY <1>1, <2>2 DEF HeldOnce, AtWork, WorkerOK
    <3> QED BY <1>10, <3>1, <3>2 DEF WorkerOK
  <2> QED BY <2>1, <2>2
<1>15. QueueOK'
  <2>1. \A i \in DOMAIN queue : queue[i] \in JobIds /\ queue[i] # j
    BY <1>1 DEF HeldOnce, InQueue, TypeOK
  <2> QED BY <1>10, <2>1 DEF QueueOK
<1>16. \A id \in JobIds : id # j => (Live(id)' <=> Live(id))
  BY <1>10 DEF Live
<1>17. Live(j)' <=> j \in abandoned'
  <2>1. Live(j)' <=> r.state \in LiveStates
    BY <1>11 DEF Live
  <2>2. r.state \in TerminalStates => r.state \notin LiveStates
    BY DEF LiveStates, TerminalStates
  <2> QED BY <1>0, <1>2, <2>1, <2>2
<1>18. \A id : id # j => (id \in abandoned' <=> id \in abandoned)
  BY <1>0
<1>19. AbandonedOK'
  <2> SUFFICES ASSUME NEW id \in abandoned' PROVE Live(id)' /\ ~ Held(id)'
    BY DEF AbandonedOK
  <2>1. id \in JobIds
    BY <1>5 DEF TypeOK
  <2> QED BY <1>9, <1>16, <1>17, <1>18, <2>1 DEF AbandonedOK
<1>20. NothingElseLost'
  <2> SUFFICES ASSUME NEW id \in JobIds, Live(id)', id \notin abandoned'
               PROVE  Held(id)'
    BY DEF NothingElseLost
  <2> QED BY <1>9, <1>16, <1>17, <1>18 DEF NothingElseLost
<1>21. OneJobPerKey'
  <2>1. \A id \in JobIds : jobs'[id].key = jobs[id].key
    BY <1>0, <1>10, <1>11
  <2> QED BY <2>1 DEF OneJobPerKey
<1>22. HeldOnce'
  BY <1>6, <1>7, <1>8 DEF HeldOnce
<1> QED BY <1>5, <1>12, <1>13, <1>14, <1>15, <1>19, <1>20, <1>21, <1>22

LEMMA CompleteStep ==
  ASSUME Inv, NEW w \in Workers, Complete(w)
  PROVE  Inv'
<1> DEFINE wk == worker[w]
           j  == wk.job
           r  == [jobs[j] EXCEPT !.state = "done", !.fetched = wk.fetched,
                                 !.inserted = wk.inserted, !.retryAt = FALSE]
<1>1. /\ wk.pc = "insert" /\ wk.todo = <<>>
      /\ Release(w) /\ UNCHANGED <<videos, handler, queue>>
  BY DEF Complete
<1>2. /\ wk \in Worker /\ j \in JobIds
      /\ jobs[j] \in JobRow /\ videos[j] \in SUBSET VideoIds
      /\ jobs[j].state \in LiveStates
      /\ jobs = [jobs EXCEPT ![j] = jobs[j]]
      /\ RowFits(jobs[j], videos[j]) /\ WorkerFits(wk, jobs[j], videos[j])
  BY <1>1, BusyWorker
<1>3. CASE jobs' = UpdateJobCompleted(j, wk.fetched, wk.inserted)
           /\ abandoned' = abandoned
  <2>1. wk.fetched \in Nat /\ wk.inserted \in Nat
    BY <1>2 DEF Worker
  <2>2. wk.fetched = wk.inserted /\ wk.inserted = Cardinality(videos[j])
    BY <1>1, <1>2, <2>1, EmptySeq DEF WorkerFits
  <2>3. r \in JobRow /\ r.key = jobs[j].key /\ r.state \in TerminalStates
    BY <1>2, <2>1 DEF JobRow, TerminalStates
  <2>4. RowFits(r, videos[j])
    BY <1>2, <2>2 DEF RowFits, JobRow, LiveStates
  <2>5. jobs' = [jobs EXCEPT ![j] = r]
    BY <1>3 DEF UpdateJobCompleted
  <2> HIDE DEF r
  <2> QED BY <1>1, <1>3, <2>3, <2>4, <2>5, WorkerReleases
<1>4. CASE jobs' = jobs /\ abandoned' = abandoned \cup {j}
  <2>1. jobs' = [jobs EXCEPT ![j] = jobs[j]]
    BY <1>2, <1>4
  <2> QED BY <1>1, <1>2, <1>4, <2>1, WorkerReleases
<1>5. \/ jobs' = UpdateJobCompleted(j, wk.fetched, wk.inserted)
         /\ abandoned' = abandoned
      \/ jobs' = jobs /\ abandoned' = abandoned \cup {j}
  BY Zenon DEF Complete
<1> QED BY <1>3, <1>4, <1>5

LEMMA MarkDeadStep ==
  ASSUME Inv, NEW w \in Workers, MarkDead(w)
  PROVE  Inv'
<1> DEFINE wk == worker[w]
           j  == wk.job
           r  == [jobs[j] EXCEPT !.state = "dead", !.retryAt = FALSE]
<1>1. wk.pc = "dead" /\ Release(w) /\ UNCHANGED <<videos, handler, queue>>
  BY DEF MarkDead
<1>2. /\ j \in JobIds
      /\ jobs[j] \in JobRow /\ jobs[j].state \in LiveStates
      /\ jobs = [jobs EXCEPT ![j] = jobs[j]]
      /\ RowFits(jobs[j], videos[j])
  BY <1>1, BusyWorker
<1>3. CASE jobs' = UpdateJobDead(j) /\ abandoned' = abandoned
  <2>1. r \in JobRow /\ r.key = jobs[j].key /\ r.state \in TerminalStates
    BY <1>2 DEF JobRow, TerminalStates
  <2>2. RowFits(r, videos[j])
    BY <1>2 DEF RowFits, JobRow, LiveStates
  <2>3. jobs' = [jobs EXCEPT ![j] = r]
    BY <1>3 DEF UpdateJobDead
  <2> HIDE DEF r
  <2> QED BY <1>1, <1>3, <2>1, <2>2, <2>3, WorkerReleases
<1>4. CASE jobs' = jobs /\ abandoned' = abandoned \cup {j}
  <2>1. jobs' = [jobs EXCEPT ![j] = jobs[j]]
    BY <1>2, <1>4
  <2> QED BY <1>1, <1>2, <1>4, <2>1, WorkerReleases
<1>5. \/ jobs' = UpdateJobDead(j) /\ abandoned' = abandoned
      \/ jobs' = jobs /\ abandoned' = abandoned \cup {j}
  BY Zenon DEF MarkDead
<1> QED BY <1>3, <1>4, <1>5

-----------------------------------------------------------------------------
(* The channel.                                                            *)

LEMMA EnqueueStep ==
  ASSUME Inv, NEW c \in Clients, Enqueue(c)
  PROVE  Inv'
<1> USE DEF Inv
<1> DEFINE h == AfterAccepted(handler[c])
<1>1. PICK j \in JobIds : j = handler[c].id
  BY DEF HandlerOK, Enqueue
<1>2. /\ handler[c] \in Handler /\ BatchTally(handler[c])
      /\ handler[c].pc = "enqueue" /\ InHand(c, j)
      /\ Len(queue) < QueueCap
      /\ queue' = Append(queue, j)
      /\ handler' = [handler EXCEPT ![c] = h]
      /\ UNCHANGED <<jobs, videos, worker, abandoned>>
  BY <1>1 DEF Enqueue, TypeOK, InHand
<1>3. h \in Handler /\ h.pc \in {"idle", "recv"} /\ BatchTally(h)
  <2>1. CASE handler[c].rpc = "SubmitJob"
    BY <2>1, IdleRecords DEF AfterAccepted, IdleHandler, BatchTally
  <2>2. CASE handler[c].rpc # "SubmitJob"
    BY <1>2, <2>2 DEF AfterAccepted, Handler, BatchTally
  <2> QED BY <2>1, <2>2
<1> HIDE DEF h
<1>4. /\ queue \in Seq(JobIds) /\ queue' \in Seq(JobIds)
      /\ Len(queue') = Len(queue) + 1
      /\ DOMAIN queue = 1 .. Len(queue) /\ DOMAIN queue' = 1 .. Len(queue) + 1
      /\ \A i \in DOMAIN queue : queue'[i] = queue[i]
      /\ queue'[Len(queue) + 1] = j
  BY <1>1, <1>2, AppendProperties DEF TypeOK
<1>5. TypeOK'
  <2>1. Len(queue') <= QueueCap
    BY <1>2, <1>4, PipelineAssumption
  <2> QED BY <1>2, <1>3, <1>4, <2>1 DEF TypeOK, DatabaseTypeOK, BatchTally
<1>6. \A d \in Clients, id \in JobIds : InHand(d, id)' <=> InHand(d, id) /\ d # c
  BY <1>2, <1>3 DEF InHand, TypeOK
<1>7. \A id \in JobIds : InQueue(id)' <=> InQueue(id) \/ id = j
  BY <1>4 DEF InQueue
<1>8. \A w \in Workers, id \in JobIds : AtWork(w, id)' <=> AtWork(w, id)
  BY <1>2 DEF AtWork
<1>9. \A id \in JobIds : InHand(c, id) => id = j
  BY <1>1 DEF InHand
<1>10. \A id \in JobIds : Held(id)' <=> Held(id)
  BY <1>2, <1>6, <1>7, <1>8, <1>9 DEF Held
<1>11. \A id \in JobIds : RowOK(id)'
  BY <1>2 DEF RowOK
<1>12. \A d \in Clients : HandlerOK(d)'
  BY <1>2, <1>3 DEF HandlerOK, TypeOK
<1>13. \A w \in Workers : WorkerOK(w)'
  BY <1>2 DEF WorkerOK
<1>14. QueueOK'
  <2>1. jobs[j].state = "queued"
    BY <1>1, <1>2 DEF HandlerOK
  <2> QED BY <1>2, <1>4, <2>1 DEF QueueOK
<1>15. AbandonedOK' /\ NothingElseLost'
  BY <1>2, <1>10 DEF AbandonedOK, NothingElseLost, Live, TypeOK
<1>16. OneJobPerKey'
  BY <1>2 DEF OneJobPerKey
<1>17. \A a, b \in DOMAIN queue' : queue'[a] = queue'[b] => a = b
  <2>1. \A a \in DOMAIN queue : queue[a] # j
    BY <1>2 DEF HeldOnce, InQueue
  <2> QED BY <1>4, <2>1 DEF HeldOnce
<1>18. HeldOnce'
  BY <1>2, <1>6, <1>7, <1>8, <1>9, <1>17 DEF HeldOnce
<1> QED BY <1>5, <1>11, <1>12, <1>13, <1>14, <1>15, <1>16, <1>18

LEMMA DequeueStep ==
  ASSUME Inv, NEW w \in Workers, Dequeue(w)
  PROVE  Inv'
<1> USE DEF Inv
<1>1. PICK j \in JobIds : j = Head(queue)
  BY DEF Dequeue, TypeOK
<1> DEFINE wk == Taken(j)
<1>2. /\ worker[w].pc = "idle" /\ queue # <<>>
      /\ queue' = Tail(queue)
      /\ worker' = [worker EXCEPT ![w] = wk]
      /\ UNCHANGED <<jobs, videos, handler, abandoned>>
  BY <1>1 DEF Dequeue
<1>3. /\ wk \in Worker /\ wk.pc = "start" /\ wk.job = j /\ wk.inserted = 0
  BY IdleRecords DEF Taken, IdleWorker, Worker
<1> HIDE DEF wk
<1>4. /\ queue \in Seq(JobIds) /\ queue' \in Seq(JobIds)
      /\ Len(queue) \in Nat \ {0}
      /\ Len(queue') = Len(queue) - 1
      /\ DOMAIN queue = 1 .. Len(queue) /\ DOMAIN queue' = 1 .. Len(queue) - 1
      /\ \A i \in DOMAIN queue' : queue'[i] = queue[i + 1]
      /\ queue[1] = j
  <2>1. queue \in Seq(JobIds) /\ queue # <<>>
    BY <1>2 DEF TypeOK
  <2>2. /\ Tail(queue) \in Seq(JobIds) /\ Len(Tail(queue)) = Len(queue) - 1
        /\ \A i \in 1 .. Len(Tail(queue)) : Tail(queue)[i] = queue[i + 1]
    BY <2>1, HeadTailProperties
  <2>3. Len(queue) \in Nat \ {0} /\ queue[1] = j
    BY <1>1, <2>1
  <2> QED BY <1>2, <2>1, <2>2, <2>3
<1>5. TypeOK'
  BY <1>2, <1>3, <1>4, PipelineAssumption DEF TypeOK, DatabaseTypeOK, BatchTally
<1>6. \A d \in Clients, id \in JobIds : InHand(d, id)' <=> InHand(d, id)
  BY <1>2 DEF InHand
<1>7. \A a, b \in DOMAIN queue : queue[a] = queue[b] => a = b
  BY DEF HeldOnce
<1>8. \A id \in JobIds : InQueue(id)' <=> InQueue(id) /\ id # j
  <2> TAKE id \in JobIds
  <2>1. ASSUME NEW i \in DOMAIN queue', queue'[i] = id
        PROVE  InQueue(id) /\ id # j
    <3>1. i + 1 \in DOMAIN queue /\ 1 \in DOMAIN queue /\ i + 1 # 1
      BY <1>4, <2>1
    <3> QED BY <1>4, <1>7, <2>1, <3>1 DEF InQueue
  <2>2. ASSUME NEW i \in DOMAIN queue, queue[i] = id, id # j
        PROVE  InQueue(id)'
    <3>1. i # 1 /\ i - 1 \in DOMAIN queue' /\ queue'[i - 1] = queue[i]
      BY <1>4, <2>2
    <3> QED BY <2>2, <3>1 DEF InQueue
  <2> QED BY <2>1, <2>2 DEF InQueue
<1>9. \A v \in Workers, id \in JobIds :
         AtWork(v, id)' <=> AtWork(v, id) \/ (v = w /\ id = j)
  BY <1>2, <1>3 DEF AtWork, TypeOK
<1>10. InQueue(j)
  BY <1>4 DEF InQueue
<1>11. \A id \in JobIds : Held(id)' <=> Held(id)
  BY <1>6, <1>8, <1>9, <1>10 DEF Held
<1>12. \A id \in JobIds : RowOK(id)'
  BY <1>2 DEF RowOK
<1>13. \A d \in Clients : HandlerOK(d)'
  BY <1>2 DEF HandlerOK
<1>14. \A v \in Workers : WorkerOK(v)'
  <2>1. jobs[j].state = "queued"
    BY <1>4 DEF QueueOK
  <2>2. videos[j] = {}
    BY <2>1 DEF RowOK, RowFits
  <2>3. WorkerFits(wk, jobs[j], videos[j])
    BY <1>3, <2>1, <2>2 DEF WorkerFits
  <2> QED BY <1>2, <1>3, <2>3 DEF WorkerOK, TypeOK
<1>15. QueueOK'
  <2> SUFFICES ASSUME NEW i \in DOMAIN queue' PROVE jobs'[queue'[i]].state = "queued"
    BY DEF QueueOK
  <2>1. i + 1 \in DOMAIN queue /\ queue'[i] = queue[i + 1]
    BY <1>4
  <2> QED BY <1>2, <2>1 DEF QueueOK
<1>16. AbandonedOK' /\ NothingElseLost'
  BY <1>2, <1>11 DEF AbandonedOK, NothingElseLost, Live, TypeOK
<1>17. OneJobPerKey'
  BY <1>2 DEF OneJobPerKey
<1>18. \A a, b \in DOMAIN queue' : queue'[a] = queue'[b] => a = b
  <2> SUFFICES ASSUME NEW a \in DOMAIN queue', NEW b \in DOMAIN queue',
                      queue'[a] = queue'[b]
               PROVE  a = b
    OBVIOUS
  <2>1. a + 1 \in DOMAIN queue /\ b + 1 \in DOMAIN queue /\ a \in Nat /\ b \in Nat
    BY <1>4
  <2>2. queue[a + 1] = queue[b + 1]
    BY <1>4
  <2> QED BY <1>7, <2>1, <2>2
<1>19. HeldOnce'
  <2>1. \A v \in Workers : ~ AtWork(v, j)
    BY <1>10 DEF HeldOnce
  <2>2. \A d \in Clients : ~ InHand(d, j)
    BY <1>10 DEF HeldOnce
  <2>3. \A id \in JobIds : ~ AtWork(w, id)
    BY <1>2 DEF AtWork
  <2> QED BY <1>6, <1>8, <1>9, <1>18, <2>1, <2>2, <2>3 DEF HeldOnce
<1> QED BY <1>5, <1>12, <1>13, <1>14, <1>15, <1>16, <1>17, <1>19

-----------------------------------------------------------------------------
(* A new row, and the process as a whole.                                  *)

LEMMA RowCreated ==
  ASSUME Inv, NEW c \in Clients, NEW j \in JobIds, NEW k \in Keys,
         NEW h \in Handler,
         jobs[j].state = "absent", ~ KeyIsTaken(k), handler[c].pc = "insert",
         BatchTally(h), h.pc \notin {"lookup", "insert"},
         jobs'    = InsertJob(j, k),
         handler' = [handler EXCEPT ![c] = h],
         UNCHANGED <<videos, queue, worker>>,
         \/ h.pc = "enqueue" /\ h.id = j /\ abandoned' = abandoned
         \/ h.pc # "enqueue" /\ abandoned' = abandoned \cup {j}
  PROVE  Inv'
<1> USE DEF Inv
<1> DEFINE r == [AbsentRow EXCEPT !.key = k, !.state = "queued"]
<1>1. /\ r \in JobRow /\ r.key = k /\ r.state = "queued" /\ r.attempt = 0
      /\ r.retryAt = FALSE
  BY DEF AbsentRow, JobRow, LiveStates
<1>2. jobs' = [jobs EXCEPT ![j] = r]
  BY DEF InsertJob
<1> HIDE DEF r
<1>3. jobs'[j] = r /\ \A id \in JobIds : id # j => jobs'[id] = jobs[id]
  BY <1>2 DEF TypeOK, DatabaseTypeOK
<1>4. TypeOK'
  BY <1>1, <1>2 DEF TypeOK, DatabaseTypeOK, BatchTally
<1>5. ~ Held(j) /\ j \notin abandoned
  BY HeldJobIsLive DEF Live, LiveStates, AbandonedOK
<1>6. \A d \in Clients, id \in JobIds :
         InHand(d, id)' <=> InHand(d, id) \/ (d = c /\ id = j /\ h.pc = "enqueue")
  BY DEF InHand, TypeOK
<1>7. \A id \in JobIds : InQueue(id)' <=> InQueue(id)
  BY DEF InQueue
<1>8. \A w \in Workers, id \in JobIds : AtWork(w, id)' <=> AtWork(w, id)
  BY DEF AtWork
<1>9. \A id \in JobIds : Held(id)' <=> Held(id) \/ (id = j /\ h.pc = "enqueue")
  BY <1>6, <1>7, <1>8 DEF Held
<1>10. \A id \in JobIds : RowOK(id)'
  <2>1. RowFits(r, videos[j])
    BY <1>1 DEF RowOK, RowFits, MaxAttempts
  <2> QED BY <1>3, <2>1 DEF RowOK
<1>11. \A d \in Clients : HandlerOK(d)'
  <2> TAKE d \in Clients
  <2>1. CASE d = c
    BY <1>1, <1>3, <2>1 DEF HandlerOK, TypeOK
  <2>2. CASE d # c
    BY <1>1, <1>3, <2>2 DEF HandlerOK, TypeOK
  <2> QED BY <2>1, <2>2
<1>12. \A w \in Workers : WorkerOK(w)'
  <2> TAKE w \in Workers
  <2>1. worker[w].pc # "idle" => worker[w].job \in JobIds /\ worker[w].job # j
    BY <1>5 DEF Held, AtWork, WorkerOK
  <2> QED BY <1>3, <2>1 DEF WorkerOK
<1>13. QueueOK'
  <2>1. \A i \in DOMAIN queue : queue[i] \in JobIds /\ queue[i] # j
    BY <1>5 DEF Held, InQueue, TypeOK
  <2> QED BY <1>3, <2>1 DEF QueueOK
<1>14. \A id \in JobIds : id # j => (Live(id)' <=> Live(id))
  BY <1>3 DEF Live
<1>15. Live(j)'
  BY <1>1, <1>3 DEF Live, LiveStates
<1>16. AbandonedOK'
  <2> SUFFICES ASSUME NEW id \in abandoned' PROVE Live(id)' /\ ~ Held(id)'
    BY DEF AbandonedOK
  <2>1. id \in JobIds
    BY <1>4 DEF TypeOK
  <2>2. id \in abandoned \/ (id = j /\ h.pc # "enqueue")
    OBVIOUS
  <2> QED BY <1>5, <1>9, <1>14, <1>15, <2>1, <2>2 DEF AbandonedOK
<1>17. NothingElseLost'
  <2> SUFFICES ASSUME NEW id \in JobIds, Live(id)', id \notin abandoned'
               PROVE  Held(id)'
    BY DEF NothingElseLost
  <2>1. CASE id = j
    BY <1>9, <2>1
  <2>2. CASE id # j
    BY <1>9, <1>14, <2>2 DEF NothingElseLost
  <2> QED BY <2>1, <2>2
<1>18. OneJobPerKey'
  <2>1. \A id \in JobIds : jobs[id].key # k
    BY DEF KeyIsTaken, RowsWithKey
  <2> QED BY <1>1, <1>3, <2>1 DEF OneJobPerKey
<1>19. HeldOnce'
  <2>1. (\A d \in Clients : ~ InHand(d, j)) /\ ~ InQueue(j)
        /\ (\A w \in Workers : ~ AtWork(w, j))
    BY <1>5 DEF Held
  <2>2. \A id \in JobIds : ~ InHand(c, id)
    BY DEF InHand
  <2> QED BY <1>6, <1>7, <1>8, <2>1, <2>2 DEF HeldOnce
<1> QED BY <1>4, <1>10, <1>11, <1>12, <1>13, <1>16, <1>17, <1>18, <1>19

LEMMA InsertStep ==
  ASSUME Inv, NEW c \in Clients, Insert(c)
  PROVE  Inv'
<1> DEFINE k   == handler[c].key
           new(id) == Created(handler[c], id)
           out == AfterRejected(handler[c])
<1>1. /\ handler[c] \in Handler /\ BatchTally(handler[c])
      /\ handler[c].pc = "insert" /\ k \in Keys
      /\ UNCHANGED <<videos, queue, worker>>
  BY DEF Insert, Inv, TypeOK, HandlerOK
<1>2. out \in Handler /\ out.pc \notin {"lookup", "insert", "enqueue"} /\ BatchTally(out)
  BY <1>1, RejectedOut
<1>3. ASSUME NEW j \in JobIds
      PROVE  /\ new(j) \in Handler /\ new(j).pc = "enqueue" /\ new(j).id = j
             /\ BatchTally(new(j))
  <2>1. handler[c].accepted + 1 \in Nat
    BY <1>1 DEF Handler
  <2>2. new(j) \in Handler
    BY <1>1, <2>1, HandlerUpdates DEF Created
  <2>3. new(j).pc = "enqueue" /\ new(j).id = j
    BY <1>1 DEF Created, Handler
  <2>4. BatchTally(new(j))
    BY <1>1 DEF Created, Handler, BatchTally
  <2> QED BY <2>2, <2>3, <2>4
<1> HIDE DEF new, out
<1>4. CASE \E j \in JobIds :
              /\ ~ KeyIsTaken(k) /\ jobs[j].state = "absent"
              /\ jobs' = InsertJob(j, k)
              /\ handler' = [handler EXCEPT ![c] = new(j)]
              /\ abandoned' = abandoned
  BY <1>1, <1>3, <1>4, RowCreated
<1>5. CASE \E j \in JobIds :
              /\ ~ KeyIsTaken(k) /\ jobs[j].state = "absent"
              /\ jobs' = InsertJob(j, k)
              /\ handler' = [handler EXCEPT ![c] = out]
              /\ abandoned' = abandoned \cup {j}
  BY <1>1, <1>2, <1>5, RowCreated
<1>6. CASE /\ handler' = [handler EXCEPT ![c] = out]
           /\ UNCHANGED <<jobs, abandoned>>
  BY <1>1, <1>2, <1>6, HandlerKeepsOut
<1> QED BY <1>4, <1>5, <1>6, Zenon DEF Insert, Reject, new, out

LEMMA RestartStep ==
  ASSUME Inv, Restart
  PROVE  Inv'
<1> USE DEF Inv
<1>1. /\ handler' = [c \in Clients |-> IdleHandler]
      /\ worker'  = [w \in Workers |-> IdleWorker]
      /\ queue'   = <<>>
      /\ abandoned' = {id \in JobIds : Live(id)}
      /\ UNCHANGED <<jobs, videos>>
  BY DEF Restart
<1>2. IdleHandler.pc = "idle" /\ IdleWorker.pc = "idle" /\ BatchTally(IdleHandler)
  BY DEF IdleHandler, IdleWorker, BatchTally
<1>3. DOMAIN queue' = {} /\ Len(queue') = 0 /\ queue' \in Seq(JobIds)
  BY <1>1
<1>4. TypeOK'
  BY <1>1, <1>2, <1>3, IdleRecords, PipelineAssumption
     DEF TypeOK, DatabaseTypeOK, BatchTally
<1>5. \A id \in JobIds : /\ \A c \in Clients : ~ InHand(c, id)'
                         /\ ~ InQueue(id)'
                         /\ \A w \in Workers : ~ AtWork(w, id)'
  BY <1>1, <1>2, <1>3 DEF InHand, InQueue, AtWork
<1>6. \A id \in JobIds : ~ Held(id)'
  BY <1>5 DEF Held
<1>7. (\A id \in JobIds : RowOK(id)') /\ OneJobPerKey'
  BY <1>1 DEF RowOK, OneJobPerKey
<1>8. (\A c \in Clients : HandlerOK(c)') /\ (\A w \in Workers : WorkerOK(w)')
  BY <1>1, <1>2 DEF HandlerOK, WorkerOK
<1>9. QueueOK'
  BY <1>3 DEF QueueOK
<1>10. AbandonedOK' /\ NothingElseLost'
  BY <1>1, <1>6 DEF AbandonedOK, NothingElseLost, Live
<1>11. HeldOnce'
  BY <1>3, <1>5 DEF HeldOnce
<1> QED BY <1>4, <1>7, <1>8, <1>9, <1>10, <1>11

LEMMA InvInit == Init => Inv
<1> SUFFICES ASSUME Init PROVE Inv
  OBVIOUS
<1> USE DEF Init, DatabaseInit
<1>1. IdleHandler.pc = "idle" /\ IdleWorker.pc = "idle" /\ BatchTally(IdleHandler)
  BY DEF IdleHandler, IdleWorker, BatchTally
<1>2. AbsentRow \in JobRow /\ AbsentRow.state = "absent" /\ AbsentRow.key = NoKey
      /\ AbsentRow.attempt = 0 /\ AbsentRow.retryAt = FALSE
  BY DEF AbsentRow, JobRow
<1>3. DOMAIN queue = {} /\ Len(queue) = 0 /\ queue \in Seq(JobIds)
  OBVIOUS
<1>4. TypeOK
  BY <1>1, <1>2, <1>3, IdleRecords, PipelineAssumption
     DEF TypeOK, DatabaseTypeOK
<1>5. \A id \in JobIds : /\ \A c \in Clients : ~ InHand(c, id)
                         /\ ~ InQueue(id)
                         /\ \A w \in Workers : ~ AtWork(w, id)
  BY <1>1, <1>3 DEF InHand, InQueue, AtWork
<1>6. \A id \in JobIds : RowOK(id)
  BY <1>2 DEF RowOK, RowFits, MaxAttempts
<1>7. (\A c \in Clients : HandlerOK(c)) /\ (\A w \in Workers : WorkerOK(w))
  BY <1>1 DEF HandlerOK, WorkerOK
<1>8. QueueOK /\ AbandonedOK
  BY <1>3 DEF QueueOK, AbandonedOK
<1>9. OneJobPerKey /\ NothingElseLost
  BY <1>2 DEF OneJobPerKey, NothingElseLost, Live, LiveStates
<1>10. HeldOnce
  BY <1>3, <1>5 DEF HeldOnce
<1> QED BY <1>4, <1>6, <1>7, <1>8, <1>9, <1>10 DEF Inv

LEMMA InvStep == Inv /\ [Next]_vars => Inv'
<1> SUFFICES ASSUME Inv, [Next]_vars PROVE Inv'
  OBVIOUS
<1>1. ASSUME NEW c \in Clients, NEW request \in Requests,
             CallSubmitJob(c, request) \/ CallSubmitBatch(c, request)
      PROVE  Inv'
  BY <1>1, CallStep
<1>2. ASSUME NEW c \in Clients, HandlerStep(c)
      PROVE  Inv'
  BY <1>2, RecvStep, LookupStep, InsertStep, EnqueueStep DEF HandlerStep
<1>3. ASSUME NEW w \in Workers, WorkerStep(w)
      PROVE  Inv'
  BY <1>3, DequeueStep, BeginStep, FetchStep, RetryStep, WakeStep,
     InsertNextStep, CompleteStep, MarkDeadStep DEF WorkerStep
<1>4. CASE UNCHANGED vars
  <2> USE <1>4 DEF vars
  <2>1. TypeOK' /\ OneJobPerKey' /\ QueueOK'
    BY DEF Inv, TypeOK, DatabaseTypeOK, BatchTally, OneJobPerKey, QueueOK
  <2>2. /\ \A c \in Clients, id \in JobIds : InHand(c, id)' <=> InHand(c, id)
        /\ \A id \in JobIds : InQueue(id)' <=> InQueue(id)
        /\ \A w \in Workers, id \in JobIds : AtWork(w, id)' <=> AtWork(w, id)
    BY DEF InHand, InQueue, AtWork
  <2>3. \A id \in JobIds : Held(id)' <=> Held(id)
    BY <2>2 DEF Held
  <2>4. HeldOnce'
    BY <2>2 DEF Inv, HeldOnce
  <2>5. AbandonedOK' /\ NothingElseLost'
    BY <2>3 DEF Inv, TypeOK, AbandonedOK, NothingElseLost, Live
  <2>6. (\A id \in JobIds : RowOK(id)') /\ (\A c \in Clients : HandlerOK(c)')
        /\ (\A w \in Workers : WorkerOK(w)')
    BY DEF Inv, RowOK, HandlerOK, WorkerOK
  <2> QED BY <2>1, <2>4, <2>5, <2>6 DEF Inv
<1> QED BY <1>1, <1>2, <1>3, <1>4, RestartStep DEF Next

\* Inv is an invariant of the pipeline: wherever the goroutines stand, the
\* tables and the places of the jobs agree with it.
THEOREM Invariance == Spec => []Inv
  BY InvInit, InvStep, PTL DEF Spec

-----------------------------------------------------------------------------
(* The safety properties.                                                  *)

\* Every variable keeps its type, the channel stays within its capacity, and
\* the totals of a batch add up.
THEOREM TypeCorrectness == Spec => []TypeOK
  BY Invariance, PTL DEF Inv

\* A key never has two jobs, however handlers race, fail and restart.
THEOREM KeysAreUnique == Spec => []OneJobPerKey
  BY Invariance, PTL DEF Inv

\* No job is ever in two places: no two workers run it, and it is never
\* queued twice or queued while it runs.
THEOREM NoJobTwice == Spec => []HeldOnce
  BY Invariance, PTL DEF Inv

\* Whatever a handler sends, the channel carries or a worker runs has a live
\* row.
THEOREM HeldJobsAreLive == Spec => []HeldIsLive
<1>1. Inv => HeldIsLive
  BY HeldJobIsLive DEF HeldIsLive
<1> QED BY <1>1, Invariance, PTL

\* A crash, a lost answer to the insert and a failed last update are the
\* only ways to strand a live row.
THEOREM NothingElseIsLost == Spec => []NothingElseLost
  BY Invariance, PTL DEF Inv

\* A row has a next_retry_at exactly while it is retrying.
THEOREM RetryScheduleHolds == Spec => []RetrySchedule
<1>1. Inv => RetrySchedule
  BY DEF Inv, RowOK, RowFits, RetrySchedule
<1> QED BY <1>1, Invariance, PTL

\* A done job has stored every video it fetched, and says so.
THEOREM DoneJobsAreComplete == Spec => []DoneIsComplete
<1>1. Inv => DoneIsComplete
  BY DEF Inv, RowOK, RowFits, DoneIsComplete
<1> QED BY <1>1, Invariance, PTL

-----------------------------------------------------------------------------
(* Who writes to a row.                                                    *)

\* Rows and videos change in two ways only: a handler inserts an absent row,
\* or the one worker that has the job writes.
LEMMA OnlyTheWorkerWrites ==
  ASSUME Inv, [Next]_vars, NEW id \in JobIds,
         jobs[id].state # "absent", \A w \in Workers : ~ AtWork(w, id)
  PROVE  jobs'[id] = jobs[id] /\ videos'[id] = videos[id]
<1> USE DEF Inv, TypeOK, DatabaseTypeOK
<1>1. CASE UNCHANGED <<jobs, videos>>
  BY <1>1
<1>2. ASSUME NEW c \in Clients, Insert(c)
      PROVE  jobs'[id] = jobs[id] /\ videos'[id] = videos[id]
  <2>1. CASE jobs' = jobs
    BY <1>2, <2>1 DEF Insert
  <2>2. ASSUME NEW j \in JobIds, jobs[j].state = "absent",
               jobs' = InsertJob(j, handler[c].key)
        PROVE  jobs'[id] = jobs[id]
    BY <2>2 DEF InsertJob
  <2> QED BY <1>2, <2>1, <2>2 DEF Insert
<1>3. ASSUME NEW w \in Workers, worker[w].pc # "idle"
      PROVE  worker[w].job # id
  BY <1>3 DEF AtWork
<1>4. ASSUME NEW w \in Workers, WorkerStep(w)
      PROVE  jobs'[id] = jobs[id] /\ videos'[id] = videos[id]
  <2>1. CASE Dequeue(w) \/ Fetch(w) \/ Wake(w)
    BY <2>1 DEF Dequeue, Fetch, Wake
  <2>2. CASE Begin(w)
    BY <1>3, <2>2 DEF Begin, UpdateJobStarted
  <2>3. CASE Retry(w)
    BY <1>3, <2>3 DEF Retry, UpdateJobRetrying
  <2>4. CASE InsertNext(w)
    BY <1>3, <2>4 DEF InsertNext, InsertVideo
  <2>5. CASE Complete(w)
    BY <1>3, <2>5 DEF Complete, UpdateJobCompleted
  <2>6. CASE MarkDead(w)
    BY <1>3, <2>6 DEF MarkDead, UpdateJobDead
  <2> QED BY <1>4, <2>1, <2>2, <2>3, <2>4, <2>5, <2>6 DEF WorkerStep
<1>5. CASE \E c \in Clients, request \in Requests :
              CallSubmitJob(c, request) \/ CallSubmitBatch(c, request)
  BY <1>1, <1>5 DEF CallSubmitJob, CallSubmitBatch
<1>6. ASSUME NEW c \in Clients, Recv(c) \/ Lookup(c) \/ Enqueue(c)
      PROVE  UNCHANGED <<jobs, videos>>
  BY <1>6 DEF Recv, Lookup, Enqueue
<1>7. Restart => UNCHANGED <<jobs, videos>>
  BY DEF Restart
<1>8. UNCHANGED vars => UNCHANGED <<jobs, videos>>
  BY DEF vars
<1> QED BY <1>1, <1>2, <1>4, <1>5, <1>6, <1>7, <1>8 DEF Next, HandlerStep

\* A job that is done or dead never changes again.
THEOREM TerminalJobsAreFinal == Spec => TerminalIsFinal
<1>1. Inv /\ [Next]_vars =>
        [\A id \in JobIds : Terminal(id) =>
            jobs'[id] = jobs[id] /\ videos'[id] = videos[id]]_vars
  <2> SUFFICES ASSUME Inv, [Next]_vars, NEW id \in JobIds, Terminal(id)
               PROVE  jobs'[id] = jobs[id] /\ videos'[id] = videos[id]
    OBVIOUS
  <2>1. jobs[id].state # "absent" /\ ~ Live(id)
    BY DEF Terminal, TerminalStates, Live, LiveStates
  <2>2. \A w \in Workers : ~ AtWork(w, id)
    BY <2>1, HeldJobIsLive DEF Held
  <2> QED BY <2>1, <2>2, OnlyTheWorkerWrites
<1> QED BY <1>1, Invariance, PTL DEF Spec, TerminalIsFinal

\* A job the process lost hold of never changes again.
THEOREM AbandonedJobsAreFinal == Spec => AbandonedIsFinal
<1>1. Inv /\ [Next]_vars =>
        [\A id \in abandoned :
            jobs'[id] = jobs[id] /\ videos'[id] = videos[id]]_vars
  <2> SUFFICES ASSUME Inv, [Next]_vars, NEW id \in abandoned
               PROVE  jobs'[id] = jobs[id] /\ videos'[id] = videos[id]
    OBVIOUS
  <2>1. id \in JobIds /\ Live(id) /\ ~ Held(id)
    BY DEF Inv, TypeOK, AbandonedOK
  <2>2. jobs[id].state # "absent" /\ \A w \in Workers : ~ AtWork(w, id)
    BY <2>1 DEF Live, LiveStates, Held
  <2> QED BY <2>1, <2>2, OnlyTheWorkerWrites
<1> QED BY <1>1, Invariance, PTL DEF Spec, AbandonedIsFinal

-----------------------------------------------------------------------------
(* The pipeline implements the lifecycle.                                  *)

\* The columns after a write to row j, whether the write changes them or not.
LEMMA Columns ==
  ASSUME Inv, NEW j \in JobIds, NEW r, jobs' = [jobs EXCEPT ![j] = r]
  PROVE  /\ [id \in JobIds |-> jobs[id].key]'
              = [[id \in JobIds |-> jobs[id].key] EXCEPT ![j] = r.key]
         /\ [id \in JobIds |-> jobs[id].state]'
              = [[id \in JobIds |-> jobs[id].state] EXCEPT ![j] = r.state]
         /\ [id \in JobIds |-> jobs[id].attempt]'
              = [[id \in JobIds |-> jobs[id].attempt] EXCEPT ![j] = r.attempt]
         /\ [id \in JobIds |-> jobs[id].inserted]'
              = [[id \in JobIds |-> jobs[id].inserted] EXCEPT ![j] = r.inserted]
         /\ r.key = jobs[j].key => UNCHANGED [id \in JobIds |-> jobs[id].key]
         /\ r.attempt = jobs[j].attempt
              => UNCHANGED [id \in JobIds |-> jobs[id].attempt]
         /\ r.inserted = jobs[j].inserted
              => UNCHANGED [id \in JobIds |-> jobs[id].inserted]
  BY DEF Inv, TypeOK, DatabaseTypeOK

LEMMA SubmitMaps ==
  ASSUME Inv, NEW j \in JobIds, NEW k \in Keys,
         jobs[j].state = "absent", ~ KeyIsTaken(k),
         jobs' = InsertJob(j, k), UNCHANGED videos
  PROVE  Lifecycle!Submit(j, k)
<1>1. PICK r : r = [AbsentRow EXCEPT !.key = k, !.state = "queued"]
  OBVIOUS
<1>2. jobs' = [jobs EXCEPT ![j] = r]
  BY <1>1 DEF InsertJob
<1>3. jobs[j] = AbsentRow
  BY DEF Inv, RowOK, RowFits
<1>4. r.key = k /\ r.state = "queued" /\ r.attempt = jobs[j].attempt
      /\ r.inserted = jobs[j].inserted
  BY <1>1, <1>3 DEF AbsentRow
<1>5. \A other \in JobIds : jobs[other].key # k
  BY DEF KeyIsTaken, RowsWithKey
<1>6. [id \in JobIds |-> jobs[id].key]'
        = [[id \in JobIds |-> jobs[id].key] EXCEPT ![j] = k]
  BY <1>2, <1>4, Columns
<1>7. [id \in JobIds |-> jobs[id].state]'
        = [[id \in JobIds |-> jobs[id].state] EXCEPT ![j] = "queued"]
  <2>1. [id \in JobIds |-> jobs[id].state]'
          = [[id \in JobIds |-> jobs[id].state] EXCEPT ![j] = r.state]
    BY <1>2, Columns
  <2> QED BY <1>4, <2>1
<1>8. UNCHANGED <<[id \in JobIds |-> jobs[id].attempt],
                  [id \in JobIds |-> jobs[id].inserted], videos>>
  BY <1>2, <1>4, Columns
<1>9. [id \in JobIds |-> jobs[id].state][j] = "absent"
  OBVIOUS
<1>10. \A other \in JobIds : [id \in JobIds |-> jobs[id].key][other] # k
  BY <1>5
<1> QED BY <1>6, <1>7, <1>8, <1>9, <1>10 DEF Lifecycle!Submit

\* A write that changes the state of row j and none of its other columns.
LEMMA StateMaps ==
  ASSUME Inv, NEW j \in JobIds, NEW r, jobs' = [jobs EXCEPT ![j] = r],
         r.key = jobs[j].key, r.attempt = jobs[j].attempt,
         r.inserted = jobs[j].inserted
  PROVE  /\ [id \in JobIds |-> jobs[id].state]'
              = [[id \in JobIds |-> jobs[id].state] EXCEPT ![j] = r.state]
         /\ UNCHANGED <<[id \in JobIds |-> jobs[id].key],
                        [id \in JobIds |-> jobs[id].attempt],
                        [id \in JobIds |-> jobs[id].inserted]>>
<1>1. [id \in JobIds |-> jobs[id].state]'
        = [[id \in JobIds |-> jobs[id].state] EXCEPT ![j] = r.state]
  BY Columns
<1>2. UNCHANGED [id \in JobIds |-> jobs[id].key]
  BY Columns
<1>3. UNCHANGED [id \in JobIds |-> jobs[id].attempt]
  BY Columns
<1>4. UNCHANGED [id \in JobIds |-> jobs[id].inserted]
  BY Columns
<1> QED BY <1>1, <1>2, <1>3, <1>4

LEMMA StartMaps ==
  ASSUME Inv, NEW j \in JobIds, jobs[j].state = "queued",
         jobs' = UpdateJobStarted(j), UNCHANGED videos
  PROVE  Lifecycle!Start(j)
<1>1. PICK r : r = [jobs[j] EXCEPT !.state = "running"]
  OBVIOUS
<1>2. jobs' = [jobs EXCEPT ![j] = r]
  BY <1>1 DEF UpdateJobStarted
<1>3. /\ r.key = jobs[j].key /\ r.state = "running"
      /\ r.attempt = jobs[j].attempt /\ r.inserted = jobs[j].inserted
  BY <1>1 DEF Inv, TypeOK, DatabaseTypeOK, JobRow
<1>4. /\ [id \in JobIds |-> jobs[id].state]'
           = [[id \in JobIds |-> jobs[id].state] EXCEPT ![j] = r.state]
      /\ UNCHANGED <<[id \in JobIds |-> jobs[id].key],
                     [id \in JobIds |-> jobs[id].attempt],
                     [id \in JobIds |-> jobs[id].inserted]>>
  BY <1>2, <1>3, StateMaps
<1>5. [id \in JobIds |-> jobs[id].state][j] = "queued"
  OBVIOUS
<1> QED BY <1>3, <1>4, <1>5 DEF Lifecycle!Start

LEMMA KillMaps ==
  ASSUME Inv, NEW j \in JobIds, jobs[j].state \in LiveStates,
         jobs' = UpdateJobDead(j), UNCHANGED videos
  PROVE  Lifecycle!Kill(j)
<1>1. PICK r : r = [jobs[j] EXCEPT !.state = "dead", !.retryAt = FALSE]
  OBVIOUS
<1>2. jobs' = [jobs EXCEPT ![j] = r]
  BY <1>1 DEF UpdateJobDead
<1>3. /\ r.key = jobs[j].key /\ r.state = "dead"
      /\ r.attempt = jobs[j].attempt /\ r.inserted = jobs[j].inserted
  BY <1>1 DEF Inv, TypeOK, DatabaseTypeOK, JobRow
<1>4. /\ [id \in JobIds |-> jobs[id].state]'
           = [[id \in JobIds |-> jobs[id].state] EXCEPT ![j] = r.state]
      /\ UNCHANGED <<[id \in JobIds |-> jobs[id].key],
                     [id \in JobIds |-> jobs[id].attempt],
                     [id \in JobIds |-> jobs[id].inserted]>>
  BY <1>2, <1>3, StateMaps
<1>5. [id \in JobIds |-> jobs[id].state][j] \in {"queued", "running", "retrying"}
  BY DEF LiveStates
<1> QED BY <1>3, <1>4, <1>5 DEF Lifecycle!Kill

LEMMA RetryMaps ==
  ASSUME Inv, NEW j \in JobIds, NEW n,
         jobs[j].state \in {"running", "retrying"}, videos[j] = {},
         n = jobs[j].attempt + 1, jobs[j].attempt < MaxAttempts,
         jobs' = UpdateJobRetrying(j, n), UNCHANGED videos
  PROVE  Lifecycle!Retry(j)
<1>1. PICK r : r = [jobs[j] EXCEPT !.state = "retrying", !.attempt = n,
                                   !.retryAt = TRUE]
  OBVIOUS
<1>2. jobs' = [jobs EXCEPT ![j] = r]
  BY <1>1 DEF UpdateJobRetrying
<1>3. /\ r.key = jobs[j].key /\ r.state = "retrying"
      /\ r.attempt = n /\ r.inserted = jobs[j].inserted
  BY <1>1 DEF Inv, TypeOK, DatabaseTypeOK, JobRow
<1>4. [id \in JobIds |-> jobs[id].state]'
        = [[id \in JobIds |-> jobs[id].state] EXCEPT ![j] = "retrying"]
  <2>1. [id \in JobIds |-> jobs[id].state]'
          = [[id \in JobIds |-> jobs[id].state] EXCEPT ![j] = r.state]
    BY <1>2, Columns
  <2> QED BY <1>3, <2>1
<1>5. [id \in JobIds |-> jobs[id].attempt]'
        = [[id \in JobIds |-> jobs[id].attempt] EXCEPT ![j] = @ + 1]
  <2>1. [id \in JobIds |-> jobs[id].attempt]'
          = [[id \in JobIds |-> jobs[id].attempt] EXCEPT ![j] = r.attempt]
    BY <1>2, Columns
  <2>2. [id \in JobIds |-> jobs[id].attempt][j] + 1 = r.attempt
    BY <1>3
  <2> QED BY <2>1, <2>2
<1>6. UNCHANGED <<[id \in JobIds |-> jobs[id].key],
                  [id \in JobIds |-> jobs[id].inserted], videos>>
  BY <1>2, <1>3, Columns
<1>7. /\ [id \in JobIds |-> jobs[id].state][j] \in {"running", "retrying"}
      /\ [id \in JobIds |-> jobs[id].attempt][j] < MaxAttempts
  OBVIOUS
<1> QED BY <1>4, <1>5, <1>6, <1>7 DEF Lifecycle!Retry, Lifecycle!Active

LEMMA FinishMaps ==
  ASSUME Inv, NEW j \in JobIds, NEW m, NEW n,
         jobs[j].state \in {"running", "retrying"},
         jobs[j].attempt < MaxAttempts, n = Cardinality(videos[j]),
         jobs' = UpdateJobCompleted(j, m, n), UNCHANGED videos
  PROVE  Lifecycle!Finish(j)
<1>1. PICK r : r = [jobs[j] EXCEPT !.state = "done", !.fetched = m,
                                   !.inserted = n, !.retryAt = FALSE]
  OBVIOUS
<1>2. jobs' = [jobs EXCEPT ![j] = r]
  BY <1>1 DEF UpdateJobCompleted
<1>3. /\ r.key = jobs[j].key /\ r.state = "done"
      /\ r.attempt = jobs[j].attempt /\ r.inserted = n
  BY <1>1 DEF Inv, TypeOK, DatabaseTypeOK, JobRow
<1>4. [id \in JobIds |-> jobs[id].state]'
        = [[id \in JobIds |-> jobs[id].state] EXCEPT ![j] = "done"]
  <2>1. [id \in JobIds |-> jobs[id].state]'
          = [[id \in JobIds |-> jobs[id].state] EXCEPT ![j] = r.state]
    BY <1>2, Columns
  <2> QED BY <1>3, <2>1
<1>5. [id \in JobIds |-> jobs[id].inserted]'
        = [[id \in JobIds |-> jobs[id].inserted] EXCEPT
             ![j] = Cardinality(videos[j])]
  <2>1. [id \in JobIds |-> jobs[id].inserted]'
          = [[id \in JobIds |-> jobs[id].inserted] EXCEPT ![j] = r.inserted]
    BY <1>2, Columns
  <2> QED BY <1>3, <2>1
<1>6. UNCHANGED <<[id \in JobIds |-> jobs[id].key],
                  [id \in JobIds |-> jobs[id].attempt], videos>>
  BY <1>2, <1>3, Columns
<1>7. /\ [id \in JobIds |-> jobs[id].state][j] \in {"running", "retrying"}
      /\ [id \in JobIds |-> jobs[id].attempt][j] < MaxAttempts
  OBVIOUS
<1> QED BY <1>4, <1>5, <1>6, <1>7
    DEF Lifecycle!Finish, Lifecycle!Active, Lifecycle!Cardinality, Cardinality

\* Where the worker of a job is tells which step of the lifecycle its write
\* to the database is.
LEMMA WorkerMaps ==
  ASSUME Inv, NEW w \in Workers, WorkerStep(w)
  PROVE  \/ UNCHANGED <<jobs, videos>>
         \/ \E j \in JobIds :
              \/ Lifecycle!Start(j) \/ Lifecycle!Retry(j)
              \/ Lifecycle!Finish(j) \/ Lifecycle!Kill(j)
              \/ \E v \in VideoIds : Lifecycle!Store(j, v)
<1>1. CASE worker[w].pc = "idle"
  <2>1. Dequeue(w)
    BY <1>1 DEF WorkerStep, Begin, Fetch, Retry, Wake, InsertNext, Complete,
                MarkDead
  <2> QED BY <2>1 DEF Dequeue
<1>2. CASE worker[w].pc # "idle"
  <2> DEFINE wk == worker[w]
  <2>1. PICK j \in JobIds : j = wk.job
    BY <1>2, BusyWorker
  <2>2. /\ wk \in Worker /\ jobs[j] \in JobRow
        /\ jobs[j].state \in LiveStates
        /\ RowFits(jobs[j], videos[j]) /\ WorkerFits(wk, jobs[j], videos[j])
    BY <1>2, <2>1, BusyWorker
  <2>3. CASE Dequeue(w) \/ Fetch(w) \/ Wake(w)
    BY <2>3 DEF Dequeue, Fetch, Wake
  <2>4. CASE Begin(w)
    <3>1. jobs[j].state = "queued" /\ UNCHANGED videos
      BY <2>2, <2>4 DEF Begin, WorkerFits
    <3>2. CASE jobs' = UpdateJobStarted(j)
      BY <3>1, <3>2, StartMaps
    <3> QED BY <2>1, <2>4, <3>1, <3>2 DEF Begin
  <2>5. CASE Retry(w)
    <3>1. /\ jobs[j].state \in {"running", "retrying"} /\ UNCHANGED videos
          /\ wk.attempt \in 1 .. MaxAttempts
          /\ jobs[j].attempt = wk.attempt - 1
          /\ videos[j] = {}
      BY <2>2, <2>5 DEF Retry, WorkerFits
    <3>2. wk.attempt = jobs[j].attempt + 1 /\ jobs[j].attempt < MaxAttempts
      BY <2>2, <3>1 DEF JobRow, MaxAttempts
    <3>3. CASE jobs' = UpdateJobRetrying(j, wk.attempt)
      BY <3>1, <3>2, <3>3, RetryMaps
    <3> QED BY <2>1, <2>5, <3>1, <3>3 DEF Retry
  <2>6. CASE InsertNext(w)
    <3> DEFINE v == Head(wk.todo)
    <3>1. /\ jobs[j].state \in {"running", "retrying"}
          /\ jobs' = jobs
          /\ wk.attempt \in 1 .. MaxAttempts
          /\ jobs[j].attempt = wk.attempt - 1
      BY <2>2, <2>6 DEF InsertNext, WorkerFits
    <3>2. v \in VideoIds
      <4>1. wk.todo \in Seq(VideoIds) /\ wk.todo # <<>>
        BY <2>2, <2>6 DEF InsertNext, Worker
      <4> QED BY <4>1
    <3>3. CASE ~ VideoIsTaken(j, v) /\ videos' = InsertVideo(j, v)
      <4>1. jobs[j].attempt < MaxAttempts
        BY <2>2, <3>1 DEF JobRow, MaxAttempts
      <4>2. Lifecycle!Store(j, v)
        BY <3>1, <3>3, <4>1
           DEF Lifecycle!Store, Lifecycle!Active, VideoIsTaken, InsertVideo
      <4> QED BY <3>2, <4>2
    <3> QED BY <2>1, <2>6, <3>1, <3>3 DEF InsertNext
  <2>7. CASE Complete(w)
    <3>1. /\ jobs[j].state \in {"running", "retrying"} /\ UNCHANGED videos
          /\ wk.attempt \in 1 .. MaxAttempts
          /\ jobs[j].attempt = wk.attempt - 1
          /\ wk.inserted = Cardinality(videos[j])
      BY <2>2, <2>7 DEF Complete, WorkerFits
    <3>2. jobs[j].attempt < MaxAttempts
      BY <2>2, <3>1 DEF JobRow, MaxAttempts
    <3>3. CASE jobs' = UpdateJobCompleted(j, wk.fetched, wk.inserted)
      BY <3>1, <3>2, <3>3, FinishMaps
    <3> QED BY <2>1, <2>7, <3>1, <3>3 DEF Complete
  <2>8. CASE MarkDead(w)
    <3>1. CASE jobs' = UpdateJobDead(j) /\ UNCHANGED videos
      BY <2>2, <3>1, KillMaps
    <3> QED BY <2>1, <2>8, <3>1 DEF MarkDead
  <2> QED BY <2>3, <2>4, <2>5, <2>6, <2>7, <2>8 DEF WorkerStep
<1> QED BY <1>1, <1>2

\* Every step of the pipeline is a step of the lifecycle, or none of its.
LEMMA StepMaps ==
  ASSUME Inv, [Next]_vars
  PROVE  Lifecycle!Next \/ UNCHANGED Lifecycle!vars
<1>1. CASE UNCHANGED <<jobs, videos>>
  BY <1>1 DEF Lifecycle!vars
<1>2. CASE \E c \in Clients, request \in Requests :
              CallSubmitJob(c, request) \/ CallSubmitBatch(c, request)
  BY <1>1, <1>2 DEF CallSubmitJob, CallSubmitBatch
<1>3. ASSUME NEW c \in Clients, Recv(c) \/ Lookup(c) \/ Enqueue(c)
      PROVE  UNCHANGED <<jobs, videos>>
  BY <1>3 DEF Recv, Lookup, Enqueue
<1>4. ASSUME NEW c \in Clients, Insert(c)
      PROVE  UNCHANGED <<jobs, videos>> \/ Lifecycle!Next
  <2>1. handler[c].key \in Keys /\ UNCHANGED videos
    BY <1>4 DEF Insert, Inv, HandlerOK
  <2>2. CASE jobs' = jobs
    BY <2>1, <2>2
  <2>3. ASSUME NEW j \in JobIds, jobs[j].state = "absent",
               ~ KeyIsTaken(handler[c].key),
               jobs' = InsertJob(j, handler[c].key)
        PROVE  Lifecycle!Next
    BY <2>1, <2>3, SubmitMaps DEF Lifecycle!Next
  <2> QED BY <1>4, <2>1, <2>2, <2>3 DEF Insert
<1>5. ASSUME NEW w \in Workers, WorkerStep(w)
      PROVE  UNCHANGED <<jobs, videos>> \/ Lifecycle!Next
  BY <1>5, WorkerMaps DEF Lifecycle!Next
<1>6. Restart => UNCHANGED <<jobs, videos>>
  BY DEF Restart
<1>7. UNCHANGED vars => UNCHANGED <<jobs, videos>>
  BY DEF vars
<1> QED BY <1>1, <1>2, <1>3, <1>4, <1>5, <1>6, <1>7 DEF Next, HandlerStep

\* Every behaviour of the pipeline is a behaviour of the lifecycle: attempts
\* count up to MaxAttempts, videos are stored by a job that retries no more,
\* done tells the number of videos stored, done and dead are final.
THEOREM PipelineImplementsLifecycle == Spec => ImplementsLifecycle
<1>1. Init => Lifecycle!Init
  BY DEF Init, DatabaseInit, Lifecycle!Init, AbsentRow
<1>2. Inv /\ [Next]_vars => [Lifecycle!Next]_(Lifecycle!vars)
  BY StepMaps
<1> QED BY <1>1, <1>2, Invariance, PTL DEF Spec, ImplementsLifecycle, Lifecycle!Spec

-----------------------------------------------------------------------------
(* main: signals, clean stops, crashes and starts.                         *)

\* Where main is, and what each watcher follows.
MainTypeOK ==
  /\ main \in {"serving", "stopping", "exited"}
  /\ watched \in [Watchers -> JobIds \cup {NoJob}]

\* A process that has ended runs nothing, and every row that is live by then is
\* abandoned.
EndedIsQuiet ==
  main = "exited" =>
    /\ \A c \in Clients : ~ Busy(c)
    /\ \A w \in Workers : worker[w] = IdleWorker
    /\ queue = <<>>
    /\ \A v \in Watchers : watched[v] = NoJob
    /\ abandoned = {id \in JobIds : Live(id)}

MainInv == Inv /\ MainTypeOK /\ EndedIsQuiet

-----------------------------------------------------------------------------

\* What main, handlers and workers do is a step of the pipeline, or the exit.
LEMMA MainStep ==
  ASSUME [NextMain]_<<vars, mainVars>>
  PROVE  [Next]_vars \/ Exit
<1>1. CASE Call
  BY <1>1 DEF Call, Next
<1>2. CASE Signal \/ Start \/ \E v \in Watchers : Watch(v) \/ WatchEnds(v) \/ WatcherLeaves(v)
  BY <1>2 DEF Signal, Start, Watch, WatchEnds, WatcherLeaves
<1>3. CASE Crash
  BY <1>3 DEF Crash, Next
<1>4. CASE (\E c \in Clients : Handle(c)) \/ (\E w \in Workers : Work(w))
  BY <1>4 DEF Handle, Work, Next
<1> QED BY <1>1, <1>2, <1>3, <1>4 DEF NextMain

\* The exit empties the channel and stops the workers; nothing was at a
\* handler, and every live row is abandoned.
LEMMA ExitKeepsInv ==
  ASSUME Inv, Exit
  PROVE  Inv'
<1>1. /\ worker'  = [w \in Workers |-> IdleWorker]
      /\ queue'   = <<>>
      /\ abandoned' = {id \in JobIds : Live(id)}
      /\ UNCHANGED <<jobs, videos, handler>>
      /\ \A c \in Clients : handler[c].pc = "idle"
  BY DEF Exit, AllReturned, Busy
<1>2. IdleWorker.pc = "idle" /\ DOMAIN queue' = {} /\ Len(queue') = 0
      /\ queue' \in Seq(JobIds)
  BY <1>1 DEF IdleWorker
<1>3. TypeOK'
  BY <1>1, <1>2, IdleRecords, PipelineAssumption
     DEF Inv, TypeOK, DatabaseTypeOK, BatchTally
<1>4. \A id \in JobIds : /\ \A c \in Clients : ~ InHand(c, id)'
                         /\ ~ InQueue(id)'
                         /\ \A w \in Workers : ~ AtWork(w, id)'
  BY <1>1, <1>2 DEF InHand, InQueue, AtWork
<1>5. \A id \in JobIds : ~ Held(id)'
  BY <1>4 DEF Held
<1>6. (\A id \in JobIds : RowOK(id)') /\ OneJobPerKey'
  BY <1>1 DEF Inv, RowOK, OneJobPerKey
<1>7. (\A c \in Clients : HandlerOK(c)') /\ (\A w \in Workers : WorkerOK(w)')
  BY <1>1, <1>2 DEF Inv, HandlerOK, WorkerOK
<1>8. QueueOK' /\ HeldOnce'
  BY <1>2, <1>4 DEF QueueOK, HeldOnce
<1>9. AbandonedOK' /\ NothingElseLost'
  BY <1>1, <1>5 DEF AbandonedOK, NothingElseLost, Live
<1> QED BY <1>3, <1>6, <1>7, <1>8, <1>9 DEF Inv

\* main and the watchers keep their types.
LEMMA MainTypes ==
  ASSUME MainTypeOK, [NextMain]_<<vars, mainVars>>
  PROVE  MainTypeOK'
<1> USE DEF MainTypeOK
<1>1. CASE Call \/ (\E c \in Clients : Handle(c)) \/ (\E w \in Workers : Work(w))
  BY <1>1 DEF Call, Handle, Work, mainVars
<1>2. CASE Signal \/ Exit \/ Crash \/ Start
  BY <1>2 DEF Signal, Exit, Crash, Start
<1>3. CASE \E v \in Watchers : Watch(v) \/ WatchEnds(v) \/ WatcherLeaves(v)
  BY <1>3 DEF Watch, WatchEnds, WatcherLeaves
<1>4. CASE UNCHANGED <<vars, mainVars>>
  BY <1>4 DEF mainVars
<1> QED BY <1>1, <1>2, <1>3, <1>4 DEF NextMain

\* Nothing moves between an exit and the next start.
LEMMA EndedStaysQuiet ==
  ASSUME EndedIsQuiet, MainTypeOK, [NextMain]_<<vars, mainVars>>
  PROVE  EndedIsQuiet'
<1> SUFFICES ASSUME main' = "exited" PROVE EndedIsQuiet'
  BY DEF EndedIsQuiet
<1>1. CASE Exit
  BY <1>1 DEF Exit, AllReturned, Busy, EndedIsQuiet, Live
<1>2. CASE UNCHANGED <<vars, main>> /\ (UNCHANGED watched \/ \E v \in Watchers :
                WatchEnds(v) \/ WatcherLeaves(v) \/ Watch(v))
  <2>1. main = "exited"
    BY <1>2
  <2>2. UNCHANGED watched
    BY <1>2, <2>1 DEF EndedIsQuiet, WatchEnds, WatcherLeaves, Watch
  <2> QED BY <1>2, <2>1, <2>2 DEF EndedIsQuiet, Busy, Live, vars
<1>3. ~ Call /\ ~ Signal /\ ~ Crash /\ ~ Start
  BY DEF Call, Signal, Crash, Start, mainVars
<1>4. (\A c \in Clients : ~ Handle(c)) /\ \A w \in Workers : ~ Work(w)
  BY DEF Handle, Work, Running, mainVars
<1>5. CASE \E v \in Watchers : Watch(v) \/ WatchEnds(v) \/ WatcherLeaves(v)
  BY <1>2, <1>5 DEF Watch, WatchEnds, WatcherLeaves
<1>6. CASE UNCHANGED <<vars, mainVars>>
  BY <1>2, <1>6 DEF mainVars
<1> QED BY <1>1, <1>3, <1>4, <1>5, <1>6 DEF NextMain

-----------------------------------------------------------------------------
(* The theorems.                                                           *)

\* The invariant of the pipeline, through signals, stops, crashes and starts.
THEOREM MainInvariance == SpecMain => []MainInv
<1>1. InitMain => MainInv
  BY InvInit DEF InitMain, MainInv, MainTypeOK, EndedIsQuiet
<1>2. MainInv /\ [NextMain]_<<vars, mainVars>> => MainInv'
  <2> SUFFICES ASSUME MainInv, [NextMain]_<<vars, mainVars>> PROVE MainInv'
    OBVIOUS
  <2>1. Inv'
    BY MainStep, InvStep, ExitKeepsInv DEF MainInv
  <2> QED BY <2>1, MainTypes, EndedStaysQuiet DEF MainInv
<1> QED BY <1>1, <1>2, PTL DEF SpecMain

\* With main around it the pipeline still implements the lifecycle of a job:
\* done and dead are final across stops and starts, and no stop makes a job
\* run again (main.go:121-123).
THEOREM ProcessImplementsLifecycle == SpecMain => ImplementsLifecycle
<1>1. InitMain => Lifecycle!Init
  BY DEF InitMain, Init, DatabaseInit, Lifecycle!Init, AbsentRow
<1>2. MainInv /\ [NextMain]_<<vars, mainVars>> => [Lifecycle!Next]_(Lifecycle!vars)
  <2> SUFFICES ASSUME MainInv, [NextMain]_<<vars, mainVars>>
               PROVE  Lifecycle!Next \/ UNCHANGED Lifecycle!vars
    OBVIOUS
  <2>1. CASE [Next]_vars
    BY <2>1, StepMaps DEF MainInv
  <2>2. CASE Exit
    BY <2>2 DEF Exit, Lifecycle!vars
  <2> QED BY <2>1, <2>2, MainStep
<1> QED BY <1>1, <1>2, MainInvariance, PTL
        DEF SpecMain, ImplementsLifecycle, Lifecycle!Spec

\* A clean stop loses only jobs that were accepted and not finished: they are
\* in the channel or at a worker, and none of them at a handler
\* (main.go:121-123).
THEOREM StopsLoseTheAccepted == SpecMain => StopLosesTheAccepted
<1>1. MainInv /\ [NextMain]_<<vars, mainVars>> =>
        [main' = "exited" /\ main # "exited" =>
           \A id \in abandoned' \ abandoned :
              InQueue(id) \/ \E w \in Workers : AtWork(w, id)]_<<vars, mainVars>>
  <2> SUFFICES ASSUME MainInv, NextMain, main' = "exited", main # "exited",
                      NEW id \in abandoned' \ abandoned
               PROVE  InQueue(id) \/ \E w \in Workers : AtWork(w, id)
    OBVIOUS
  <2>1. Exit
    <3>1. ~ Call /\ ~ Signal /\ ~ Crash /\ ~ Start
      BY DEF Call, Signal, Crash, Start, mainVars
    <3>2. \A v \in Watchers : ~ Watch(v) /\ ~ WatchEnds(v) /\ ~ WatcherLeaves(v)
      BY DEF Watch, WatchEnds, WatcherLeaves
    <3>3. (\A c \in Clients : ~ Handle(c)) /\ \A w \in Workers : ~ Work(w)
      BY DEF Handle, Work, mainVars
    <3> QED BY <3>1, <3>2, <3>3 DEF NextMain
  <2>2. id \in JobIds /\ Live(id) /\ id \notin abandoned
    BY <2>1 DEF Exit
  <2>3. Held(id)
    BY <2>2 DEF MainInv, Inv, NothingElseLost
  <2>4. \A c \in Clients : ~ InHand(c, id)
    BY <2>1 DEF Exit, AllReturned, Busy, InHand
  <2> QED BY <2>3, <2>4 DEF Held
<1> QED BY <1>1, MainInvariance, PTL DEF SpecMain, StopLosesTheAccepted

\* Between an exit and the next start nothing runs, and the rows that were live
\* at the exit are those abandoned (main.go:121-123, etl/server.go:29-34).
THEOREM ExitLeavesNothingRunning == SpecMain => []EndedIsQuiet
<1>1. MainInv => EndedIsQuiet
  BY DEF MainInv
<1> QED BY <1>1, MainInvariance, PTL

=============================================================================
