------------------------------ MODULE JobWatch ------------------------------
(***************************************************************************)
(* Following one job from the browser: the job page                        *)
(* (frontend/components/job-detail.tsx), its EventSource                   *)
(* (frontend/lib/api.ts), the gateway that turns a gRPC stream into        *)
(* server-sent events (backend/api/server.go), and ETLServer.WatchJob,     *)
(* which polls the row of the job (backend/etl/server.go).                 *)
(*                                                                         *)
(* The row changes as JobLifecycle says; that the pipeline changes it in   *)
(* no other way is what ETLProofs proves.  A stream is one run of WatchJob *)
(* with the two hops behind it, which keep the order of the updates.       *)
(*                                                                         *)
(* A browser that lost its stream waits seconds before it opens another,   *)
(* and React runs the effects of a render in milliseconds: no stream is    *)
(* opened while an effect waits to run.                                    *)
(***************************************************************************)
EXTENDS Naturals, Sequences

CONSTANTS
  JobIds, Keys, VideoIds, NoKey, MaxAttempts,   \* those of JobLifecycle
  Job,          \* the job watched
  Streams,      \* runs of WatchJob that can be in progress at once
  MaxFaults     \* bound on lost connections, failed calls and reloads

ASSUME WatchAssumption == Job \in JobIds /\ MaxAttempts \in Nat /\ MaxFaults \in Nat

VARIABLES
  key, state, attempt, inserted, stored,        \* those of JobLifecycle
  history,      \* history: the states the row has had, oldest first
  stream,       \* the runs of WatchJob
  page,         \* the job page
  faults        \* lost connections, failed calls and reloads so far

Row == INSTANCE JobLifecycle

rowVars == <<key, state, attempt, inserted, stored, history>>
vars    == <<rowVars, stream, page, faults>>

-----------------------------------------------------------------------------
(* What GetJobByID reads and a JobUpdate carries.                          *)

States   == {"queued", "running", "retrying", "done", "dead"}
IsEnd(s) == s \in {"done", "dead"}

Status   == [state : States, inserted : Nat]
NoStatus == [state |-> "none", inserted |-> 0]

\* SELECT ... WHERE job_id = $1; no row is an error.
NoRowIsARow == TRUE               \* slip: pgx.ErrNoRows is dropped
RowExists   == state[Job] # "absent"
Current     == [state |-> state[Job], inserted |-> inserted[Job]]

\* What getJobStatus answers beside them.
JobStatus == [status : Status, attempt : 0 .. MaxAttempts]
NoReply   == [status |-> NoStatus, attempt |-> 0]
WholeJob  == [status |-> Current, attempt |-> attempt[Job]]

JobStep ==
  /\ Row!Next
  /\ history' = IF state'[Job] = state[Job] THEN history
                ELSE Append(history, state'[Job])
  /\ UNCHANGED <<stream, page, faults>>

Fault == faults < MaxFaults /\ faults' = faults + 1

-----------------------------------------------------------------------------
(* The server: WatchJob.                                                   *)

\* sent are the updates sent so far, of which the page has had taken.
Stream == [pc : {"off", "poll", "sleep", "done", "failed"},
           sent : Seq(Status), taken : Nat]

Fresh == [pc |-> "poll", sent |-> <<>>, taken |-> 0]

InProgress(s) == stream[s].pc \in {"poll", "sleep"}

\* stream.Context().Done(): the client closed the stream or is gone.
NeverDone(s)   == FALSE           \* slip: the context is not looked at
ContextDone(s) == s \notin page.listening

\* lastState, which starts as JOB_STATE_UNSPECIFIED.
LastState(st) ==
  IF st.sent = <<>> THEN "none" ELSE st.sent[Len(st.sent)].state

SendsAlways(st, status) ==        \* slip: no comparison with lastState
  [st EXCEPT !.sent = Append(@, status),
             !.pc   = IF IsEnd(status.state) THEN "done" ELSE "sleep"]

EndsUnsent(st, status) ==         \* slip: the end is noticed before the send
  [st EXCEPT !.sent = IF status.state = LastState(st) \/ IsEnd(status.state)
                      THEN @ ELSE Append(@, status),
             !.pc   = IF IsEnd(status.state) THEN "done" ELSE "sleep"]

Polled(st, status) ==
  [st EXCEPT !.sent = IF status.state = LastState(st) THEN @
                      ELSE Append(@, status),
             !.pc   = IF IsEnd(status.state) THEN "done" ELSE "sleep"]

\* One round of the loop: the row is read and, if its state is new, sent.
Poll(s) ==
  /\ stream[s].pc = "poll"
  /\ \/ /\ ~ ContextDone(s)
        /\ RowExists
        /\ stream' = [stream EXCEPT ![s] = Polled(@, Current)]
        /\ UNCHANGED faults
     \/ /\ \/ (ContextDone(s) \/ ~ RowExists) /\ UNCHANGED faults
           \/ Fault
        /\ stream' = [stream EXCEPT ![s].pc = "failed"]
  /\ UNCHANGED <<rowVars, page>>

\* time.Sleep(2 * time.Second)
Wake(s) ==
  /\ stream[s].pc = "sleep"
  /\ stream' = [stream EXCEPT ![s].pc = "poll"]
  /\ UNCHANGED <<rowVars, page, faults>>

-----------------------------------------------------------------------------
(* The page.                                                               *)

Page ==
  [load      : {"loading", "loaded", "failed"},
   shown     : Status \cup {NoStatus},    \* job: its state and counters
   attempt   : 0 .. MaxAttempts,          \* job: its attempt
   effect    : States \cup {"none"},      \* job?.state when the effect last ran
   es        : {"closed", "connecting", "open", "refused"},
   listening : SUBSET Streams,            \* streams with a listener attached
   live      : BOOLEAN,                   \* liveConnected
   asked     : BOOLEAN,                   \* getJobStatus is on its way
   reply     : JobStatus \cup {NoReply}]  \* and so is its answer

NewPage ==
  [load |-> "loading", shown |-> NoStatus, attempt |-> 0, effect |-> "none",
   es |-> "closed", listening |-> {}, live |-> FALSE,
   asked |-> TRUE, reply |-> NoReply]

-----------------------------------------------------------------------------
(* What is rendered.                                                       *)

Body == CASE page.load = "loading" -> "spinner"
          [] page.load = "failed"  -> "error and a way back"
          [] page.load = "loaded"  -> "job"

Badge ==
  IF Body # "job" \/ IsEnd(page.shown.state) THEN "none"
  ELSE IF page.live THEN "Live" ELSE "Connecting"

-----------------------------------------------------------------------------

\* getJobStatus, at the server: GetJobStatus reads the row.
Answer ==
  /\ page.asked
  /\ \/ /\ RowExists
        /\ page' = [page EXCEPT !.asked = FALSE, !.reply = WholeJob]
        /\ UNCHANGED faults
     \/ /\ (~ RowExists /\ UNCHANGED faults) \/ Fault
        /\ page' = [page EXCEPT !.asked = FALSE,
                                !.load  = IF @ = "loading" THEN "failed" ELSE @]
  /\ UNCHANGED <<rowVars, stream>>

\* getJobStatus, at the page: the whole job is replaced.
Arrive ==
  /\ page.reply # NoReply
  /\ page' = [page EXCEPT !.load = "loaded", !.shown = page.reply.status,
                          !.attempt = page.reply.attempt, !.reply = NoReply]
  /\ UNCHANGED <<rowVars, stream, faults>>

\* The cleanup of the effect closes the EventSource.
NoCleanup(p) == p                 \* slip: stop() is not called
Cleanup(p)   == [p EXCEPT !.listening = {}, !.es = "closed", !.live = FALSE]

\* The effect runs whenever job?.state has changed.
Effect ==
  /\ page.load = "loaded"
  /\ page.effect # page.shown.state
  /\ page' = [Cleanup(page) EXCEPT
                !.effect = page.shown.state,
                !.es = IF IsEnd(page.shown.state) THEN @ ELSE "connecting",
                !.live = ~ IsEnd(page.shown.state)]
  /\ UNCHANGED <<rowVars, stream, faults>>

\* An EventSource opens a stream, for the first time or again.
Connect(s) ==
  /\ page.es = "connecting"
  /\ page.effect = page.shown.state
  /\ ~ InProgress(s) /\ s \notin page.listening
  /\ stream' = [stream EXCEPT ![s] = Fresh]
  /\ page' = [page EXCEPT !.es = "open", !.listening = @ \cup {s}]
  /\ UNCHANGED <<rowVars, faults>>

\* onerror
Ignored(live) == live             \* slip: watchJob is not given onError
OnError(live) == FALSE

\* The gateway answers with a status of 500: the EventSource gives up.
Refuse ==
  /\ page.es = "connecting"
  /\ Fault
  /\ page' = [page EXCEPT !.es = "refused", !.live = OnError(@)]
  /\ UNCHANGED <<rowVars, stream>>

\* An "update" event: the state and the counters of the job are replaced;
\* at the end the whole job is asked for.
StateOnly(p, update) ==           \* slip: the counters stay as they were
  [p EXCEPT !.shown.state = update.state, !.asked = @ \/ IsEnd(update.state)]

KeepsDetails(p, update) ==        \* slip: the whole job is not asked for
  [p EXCEPT !.shown = update, !.live = @ /\ ~ IsEnd(update.state)]

OnUpdate(p, update) ==
  [p EXCEPT !.shown = update, !.asked = @ \/ IsEnd(update.state),
            !.live = @ /\ ~ IsEnd(update.state)]

Deliver(s) ==
  /\ s \in page.listening
  /\ stream[s].taken < Len(stream[s].sent)
  /\ page' = OnUpdate(page, stream[s].sent[stream[s].taken + 1])
  /\ stream' = [stream EXCEPT ![s].taken = @ + 1]
  /\ UNCHANGED <<rowVars, faults>>

\* The stream is over for the page, and the EventSource will open another.
GivesUp(p, s) ==                  \* slip: onerror closes the EventSource
  [p EXCEPT !.listening = @ \ {s}, !.es = "closed"]

Lost(p, s) ==
  [p EXCEPT !.listening = @ \ {s}, !.es = "connecting", !.live = OnError(@)]

\* WatchJob has returned and every update has been delivered.
StreamEnds(s) ==
  /\ s \in page.listening
  /\ ~ InProgress(s)
  /\ stream[s].taken = Len(stream[s].sent)
  /\ page' = Lost(page, s)
  /\ UNCHANGED <<rowVars, stream, faults>>

\* The connection breaks, and the updates on their way are lost.
ConnectionBreaks(s) ==
  /\ s \in page.listening
  /\ Fault
  /\ page' = Lost(page, s)
  /\ UNCHANGED <<rowVars, stream>>

\* The page is left or loaded again.
Reload ==
  /\ Fault
  /\ page' = NewPage
  /\ UNCHANGED <<rowVars, stream>>

-----------------------------------------------------------------------------

Init ==
  /\ Row!Init
  /\ history = <<>>
  /\ stream  = [s \in Streams |-> [Fresh EXCEPT !.pc = "off"]]
  /\ page    = NewPage
  /\ faults  = 0

StreamStep(s) ==
  Poll(s) \/ Wake(s) \/ Connect(s) \/ Deliver(s) \/ StreamEnds(s)
  \/ ConnectionBreaks(s)

Next ==
  \/ JobStep
  \/ \E s \in Streams : StreamStep(s)
  \/ Answer \/ Arrive \/ Effect \/ Refuse \/ Reload

Spec == Init /\ [][Next]_vars

\* Handlers run and statements return; the network delivers; React runs
\* effects; an EventSource that lost its stream tries again.  The job itself
\* may stop for ever in any state.
Fairness ==
  /\ \A s \in Streams : WF_vars(Poll(s) \/ Wake(s))
  /\ \A s \in Streams : WF_vars(Deliver(s) \/ StreamEnds(s))
  /\ WF_vars(\E s \in Streams : Connect(s))
  /\ WF_vars(Answer) /\ WF_vars(Arrive) /\ WF_vars(Effect)

FairSpec == Spec /\ Fairness

=============================================================================
