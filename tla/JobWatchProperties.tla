------------------------- MODULE JobWatchProperties -------------------------
(***************************************************************************)
(* What a watcher of a job, and the page that shows it, can rely on.       *)
(***************************************************************************)
EXTENDS JobWatch

\* How far a state is on the way through the lifecycle.
Rank == [s \in States |->
           CASE s = "queued" -> 1 [] s = "running" -> 2
             [] s = "retrying" -> 3 [] OTHER -> 4]

\* Every variable has its type, and no update is delivered before it is sent.
TypeOK ==
  /\ history \in Seq(States)
  /\ stream \in [Streams -> Stream]
  /\ \A s \in Streams : stream[s].taken <= Len(stream[s].sent)
  /\ page \in Page
  /\ faults \in 0 .. MaxFaults

\* A stream moves strictly forward, over states the row really had, although
\* it misses some (etl/server.go:115-119).
SentInOrder ==
  \A s \in Streams : LET sent == stream[s].sent IN
     /\ \A i, j \in DOMAIN sent :
           i < j => Rank[sent[i].state] < Rank[sent[j].state]
     /\ \A i \in DOMAIN sent :
           \E h \in DOMAIN history : history[h] = sent[i].state

\* A stream that ends without an error has sent the end of the job, with
\* the counters of the row (etl/server.go:122-124).
EndIsSent ==
  \A s \in Streams : stream[s].pc = "done" =>
     stream[s].sent # <<>> /\ stream[s].sent[Len(stream[s].sent)] = Current

\* What the page shows never goes back, although every change of state closes
\* its stream and opens another, streams end and break, and two answers of
\* getJobStatus come in between (job-detail.tsx:62-95).
PageNeverGoesBack ==
  [][page.shown # NoStatus /\ page'.shown # NoStatus =>
        Rank[page.shown.state] <= Rank[page'.shown.state]]_vars

\* A page that shows the job done or dead is right, counters included.
EndIsReal == IsEnd(page.shown.state) => page.shown = Current

\* Of FairSpec.  The page of a job that has ended comes to show the end and
\* keeps showing it, unless it could not be loaded or its stream was refused.
PageLearnsTheEnd ==
  (RowExists /\ IsEnd(state[Job])) ~>
     [](page.shown = Current \/ Body = "error and a way back" \/ page.es = "refused")

\* Of FairSpec.  A stream nobody listens to is not polled for ever, even if
\* the job never ends (etl/server.go:104-108).
HandlersReturn ==
  \A s \in Streams :
     InProgress(s) /\ s \notin page.listening ~> ~ InProgress(s)

\* The badge says "Live" only while an EventSource is open or being opened for
\* the state shown, whatever was refused, lost or closed before
\* (job-detail.tsx:66, 83, 88, 93).
LiveIsConnected ==
  Badge = "Live" => page.es \in {"connecting", "open"} \/ page.effect # page.shown.state

\* Of FairSpec.  The details of a job that ended, which no update carries, come
\* with the end if no request fails and nobody leaves (job-detail.tsx:84-85).
EndBringsDetails ==
  IsEnd(page.shown.state) ~> (page.attempt = attempt[Job] \/ faults > 0)

=============================================================================
