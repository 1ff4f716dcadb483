------------------------------ MODULE JobsList ------------------------------
(***************************************************************************)
(* The list of recent jobs (frontend/components/jobs-list.tsx): every five *)
(* seconds, and when the user asks, each stored job is asked for and the   *)
(* list replaced by the answers.  A poll does not wait for the one before. *)
(*                                                                         *)
(* A job is known by how many changes it has gone through; jobs are stored *)
(* by other tabs meanwhile.  The event job_submitted, for which the list   *)
(* has a listener, is sent by nothing in the repository.                   *)
(***************************************************************************)
EXTENDS JobStorage, Arrays

CONSTANTS
  JobIds,
  Gone,          \* jobs the server does not know
  MaxChanges,    \* bound on the changes of a job
  MaxPolls,      \* bound on the polls in flight
  MaxFaults      \* bound on the requests that fail

ASSUME ListAssumption ==
  Gone \subseteq JobIds /\ MaxChanges \in Nat /\ MaxPolls \in Nat \ {0} /\ MaxFaults \in Nat

VARIABLES
  stored,        \* localStorage: the ids
  changes,       \* the server: how far each job is
  polls,         \* the polls in flight, in the order they started
  jobs,          \* the rows of the list
  loading, refreshing, lastUpdated,
  faults

vars == <<stored, changes, polls, jobs, loading, refreshing, lastUpdated, faults>>

Levels == 0 .. MaxChanges
Pending == -1           \* the request is on its way
Rejected == -2          \* it failed

Replies  == Levels \cup {Pending, Rejected}

Row  == [job : JobIds, level : Levels]
\* alone (history): no other poll was in flight at any time with this one.
Poll == [ids : Seq(JobIds), alone : BOOLEAN, reply : [JobIds -> Replies]]

-----------------------------------------------------------------------------
(* What is rendered.                                                       *)

Caption == IF lastUpdated THEN "Last updated" ELSE "Auto-refreshes every 5 seconds"

Body == IF loading THEN "spinner" ELSE IF jobs = <<>> THEN "No jobs yet" ELSE "table"

-----------------------------------------------------------------------------
(* fetchJobs.                                                              *)

NewPoll == [ids |-> stored, alone |-> TRUE,
            reply |-> [job \in JobIds |-> Pending]]

\* Up to the requests; without ids the list is empty at once.
Start(silent) ==
  /\ Len(polls) < MaxPolls
  /\ IF stored = <<>>
     THEN /\ jobs' = <<>>
          /\ loading' = FALSE /\ refreshing' = FALSE
          /\ UNCHANGED polls
     ELSE /\ polls' = Append([i \in DOMAIN polls |-> [polls[i] EXCEPT !.alone = FALSE]],
                             [NewPoll EXCEPT !.alone = polls = <<>>])
          /\ refreshing' = (refreshing \/ ~ silent)
          /\ UNCHANGED <<jobs, loading>>
  /\ UNCHANGED <<stored, changes, lastUpdated, faults>>

\* setInterval, and the button, which is disabled while it turns.
Interval == Start(TRUE)
Refresh  == ~ refreshing /\ Start(FALSE)

\* getJobStatus asks for cache: "no-store".
FromCache(job) == 0 .. changes[job]          \* slip: an earlier answer may be reused
NoStore(job)   == {changes[job]}

\* Promise.allSettled: the rows are the jobs whose requests succeeded.
NoneIfOneFails(poll) ==                      \* slip: Promise.all
  IF \E i \in DOMAIN poll.ids : poll.reply[poll.ids[i]] = Rejected THEN <<>>
  ELSE poll.ids
Fulfilled(poll) ==
  Kept(poll.ids, { i \in DOMAIN poll.ids : poll.reply[poll.ids[i]] # Rejected })

Rows(poll) ==
  [i \in DOMAIN Fulfilled(poll) |->
     [job |-> Fulfilled(poll)[i], level |-> poll.reply[Fulfilled(poll)[i]]]]

\* A reply; after the last one the list is replaced.
Replied(i, job, reply) ==
  LET poll == [polls[i] EXCEPT !.reply[job] = reply] IN
  IF \E id \in Range(poll.ids) : poll.reply[id] = Pending
  THEN /\ polls' = [polls EXCEPT ![i] = poll]
       /\ UNCHANGED <<jobs, loading, refreshing, lastUpdated>>
  ELSE /\ polls' = RemoveAt(polls, i)
       /\ jobs' = Rows(poll)
       /\ lastUpdated' = TRUE
       /\ loading' = FALSE /\ refreshing' = FALSE

Reply(i, job) ==
  /\ job \in Range(polls[i].ids) /\ polls[i].reply[job] = Pending
  /\ \/ /\ job \notin Gone
        /\ \E level \in NoStore(job) : Replied(i, job, level)
        /\ UNCHANGED faults
     \/ /\ \/ job \in Gone /\ UNCHANGED faults
           \/ faults < MaxFaults /\ faults' = faults + 1
        /\ Replied(i, job, Rejected)
  /\ UNCHANGED <<stored, changes>>

-----------------------------------------------------------------------------
(* Everybody else.                                                         *)

JobChanges(job) ==
  /\ job \notin Gone /\ changes[job] < MaxChanges
  /\ changes' = [changes EXCEPT ![job] = @ + 1]
  /\ UNCHANGED <<stored, polls, jobs, loading, refreshing, lastUpdated, faults>>

Submit(job) ==
  /\ job \notin Range(stored)
  /\ stored' = storeJobId(stored, job)
  /\ UNCHANGED <<changes, polls, jobs, loading, refreshing, lastUpdated, faults>>

\* The first render, and its effect: fetchJobs(false).
Init ==
  /\ stored \in {<<>>} \cup { <<job>> : job \in JobIds }
  /\ changes = [job \in JobIds |-> 0]
  /\ polls = IF stored = <<>> THEN <<>> ELSE << NewPoll >>
  /\ jobs = <<>>
  /\ loading = (stored # <<>>) /\ refreshing = (stored # <<>>)
  /\ lastUpdated = FALSE
  /\ faults = 0

PollEnds == \E i \in DOMAIN polls : \E job \in JobIds : Reply(i, job)

Next ==
  \/ Interval \/ Refresh \/ PollEnds
  \/ \E job \in JobIds : JobChanges(job) \/ Submit(job)

Spec == Init /\ [][Next]_vars

\* The clock ticks, and requests end; submitting and the jobs may stop.
FairSpec == Spec /\ WF_vars(Interval) /\ WF_vars(PollEnds)

-----------------------------------------------------------------------------

NoRowGoesBack ==
  \A i \in DOMAIN jobs, j \in DOMAIN jobs' :
    jobs[i].job = jobs'[j].job => jobs[i].level <= jobs'[j].level

\* A poll that was in flight with no other takes no row back, whatever came
\* before it (jobs-list.tsx:72-91).
SinglePollsAdvance ==
  [][(\E i \in DOMAIN polls : polls[i].alone) => NoRowGoesBack]_vars

CaughtUp ==
  /\ Body # "spinner"
  /\ stored # <<>> => Caption = "Last updated"
  /\ [i \in DOMAIN jobs |-> jobs[i].job] = SelectSeq(stored, LAMBDA job : job \notin Gone)
  /\ \A i \in DOMAIN jobs : jobs[i].level = changes[jobs[i].job]

\* Of FairSpec.  When jobs, other tabs and failures come to rest, the list
\* comes to show every stored job the server knows as it is, under a caption
\* that tells of an update, and stays so: a job the server does not know costs
\* the others nothing (jobs-list.tsx:82-97, 108-141).
CatchesUp == <>[][UNCHANGED stored]_vars => <>[]CaughtUp

=============================================================================
