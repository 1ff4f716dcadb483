------------------------------- MODULE Shutdown -------------------------------
(***************************************************************************)
(* The end of main (backend/cmd/server/main.go) over the pipeline: after a *)
(* signal GracefulStop takes no new calls and waits for those in progress, *)
(* submissions and watchers alike, while the workers go on; then main      *)
(* returns, and what is in the channel and at the workers is gone.         *)
(*                                                                         *)
(* A watcher is a run of WatchJob (see JobWatch); the calls of the         *)
(* analytics service, for which main waits afterwards, are single queries. *)
(***************************************************************************)
EXTENDS ETLPipeline

CONSTANT Watchers        \* watchers that can be in progress at once

VARIABLES
  main,                  \* where main is
  watched                \* the job each watcher follows, or NoJob

mainVars == <<main, watched>>

Busy(c) == handler[c].pc # "idle"

\* A call arrives while the server serves.
Call ==
  /\ main = "serving"
  /\ \E c \in Clients, request \in Requests :
        CallSubmitJob(c, request) \/ CallSubmitBatch(c, request)
  /\ UNCHANGED mainVars

Watch(v) ==
  /\ main = "serving" /\ watched[v] = NoJob
  /\ \E id \in JobIds :
        /\ jobs[id].state # "absent"
        /\ watched' = [watched EXCEPT ![v] = id]
  /\ UNCHANGED <<vars, main>>

OnlyDone(id) == jobs[id].state = "done"  \* slip: dead is not looked for
Ended(id)    == Terminal(id)

\* WatchJob returns after it sent the end, or its client leaves.
WatchEnds(v) ==
  /\ watched[v] # NoJob /\ Ended(watched[v])
  /\ watched' = [watched EXCEPT ![v] = NoJob]
  /\ UNCHANGED <<vars, main>>

WatcherLeaves(v) ==
  /\ watched[v] # NoJob
  /\ watched' = [watched EXCEPT ![v] = NoJob]
  /\ UNCHANGED <<vars, main>>

\* Handlers and workers go on until main returns.
Running == main # "exited"

Handle(c) == Running /\ HandlerStep(c) /\ UNCHANGED mainVars
Work(w)   == Running /\ WorkerStep(w) /\ UNCHANGED mainVars

\* <-quit
Signal ==
  /\ main = "serving"
  /\ main' = "stopping"
  /\ UNCHANGED <<vars, watched>>

\* GracefulStop has nothing left to wait for.
ForWatchers == \A v \in Watchers : watched[v] = NoJob   \* slip: only for these
AllReturned == (\A c \in Clients : ~ Busy(c)) /\ (\A v \in Watchers : watched[v] = NoJob)

Exit ==
  /\ main = "stopping"
  /\ AllReturned
  /\ main' = "exited"
  /\ worker' = [w \in Workers |-> IdleWorker]
  /\ queue'  = <<>>
  /\ abandoned' = {id \in JobIds : Live(id)}
  /\ UNCHANGED <<jobs, videos, handler, watched>>

\* Killed, after a signal or without one, and run again: calls break off.
Crash ==
  /\ Restart
  /\ main' = "serving"
  /\ watched' = [v \in Watchers |-> NoJob]

\* The next process.
Start ==
  /\ main = "exited"
  /\ main' = "serving"
  /\ UNCHANGED <<vars, watched>>

InitMain == Init /\ main = "serving" /\ watched = [v \in Watchers |-> NoJob]

NextMain ==
  \/ Call \/ Signal \/ Exit \/ Crash \/ Start
  \/ \E v \in Watchers : Watch(v) \/ WatchEnds(v) \/ WatcherLeaves(v)
  \/ \E c \in Clients : Handle(c)
  \/ \E w \in Workers : Work(w)

SpecMain == InitMain /\ [][NextMain]_<<vars, mainVars>>

\* Goroutines are scheduled fairly, statements, sleeps and calls of YouTube
\* return, and WatchJob looks again and again; clients need not leave.  A
\* handler waits for the channel like for the rest: a job is sent once, and
\* JobIds is finite, so only so many others can be sent before its own.
FairSpecMain ==
  /\ SpecMain
  /\ \A c \in Clients : WF_vars(Handle(c))
  /\ \A w \in Workers : WF_vars(Work(w))
  /\ \A v \in Watchers : WF_watched(WatchEnds(v))
  /\ WF_main(Exit)

-----------------------------------------------------------------------------

\* Of FairSpecMain.  A stop ends, although handlers wait for room in the
\* channel and watchers for the end of their jobs, unless a watcher of an
\* abandoned job stays (main.go:121, etl/server.go:43, 78, 101).
StopEnds ==
  (main = "stopping") ~>
    \/ main # "stopping"
    \/ \E v \in Watchers : watched[v] \in abandoned

\* A clean stop loses nothing but jobs that were accepted and not finished:
\* none of them is at a handler, and their rows stay live (main.go:121-123).
StopLosesTheAccepted ==
  [][main' = "exited" /\ main # "exited" =>
       \A id \in abandoned' \ abandoned : InQueue(id) \/ \E w \in Workers : AtWork(w, id)]_<<vars, mainVars>>

=============================================================================
