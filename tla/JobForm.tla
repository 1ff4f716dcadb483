------------------------------ MODULE JobForm ------------------------------
(***************************************************************************)
(* Submitting a job from the browser: the form                             *)
(* (frontend/components/job-form.tsx), the key it makes of its fields and  *)
(* the hour (frontend/lib/jobs.ts), what it keeps in localStorage and the  *)
(* page it goes to.                                                        *)
(*                                                                         *)
(* Of the ETL service one thing is used: a key has at most one job, and a  *)
(* request with the key of a job is answered with that job                 *)
(* (ETLProofs!KeysAreUnique).  Requests and answers may be lost, the user  *)
(* may go to another page while a request is on its way, which stops       *)
(* neither the request nor what follows its answer, or load the page       *)
(* again, which does.                                                      *)
(***************************************************************************)
EXTENDS JobStorage

CONSTANTS
  Regions, Categories,               \* what the fields offer
  JobIds,
  PerHour,                           \* time is counted in parts of an hour
  FirstTime, LastTime,               \* bounds on the time that passes
  MaxRequests,                       \* bound on the requests on their way
  MaxCalls                           \* bound on the answers that arrive

\* What writing a number of six digits behind another one does to the latter.
Shift == 1000000

ASSUME FormAssumption ==
  /\ Regions # {} /\ Categories # {} /\ Categories \subseteq Nat
  /\ {"pending", "error"} \cap JobIds = {}
  /\ PerHour \in Nat \ {0} /\ FirstTime \in Nat /\ LastTime \in Nat
  /\ FirstTime <= LastTime
  /\ 10 * FirstTime >= Shift * PerHour     \* since 1981 and until 2084 an hour
  /\ LastTime < Shift * PerHour            \* is a number of six digits
  /\ MaxRequests \in Nat \ {0} /\ MaxCalls \in Nat

VARIABLES
  fields,       \* region, categoryId; maxResults takes no part in what follows
  loading, error,
  page,         \* "home", or the job whose page is shown, or "other"
  requests,     \* submissions that have not ended
  jobs,         \* the server's rows, and the time of the click that made each
  stored,       \* localStorage
  calls,        \* history: the calls of storeJobId
  now           \* Date.now()

vars == <<fields, loading, error, page, requests, jobs, stored, calls, now>>

Fields  == [region : Regions, category : Categories]
Times   == FirstTime .. LastTime
Request == [asked : Fields, at : Times, shown : BOOLEAN,
            answer : JobIds \cup {"pending", "error"}]
Row     == [job : JobIds, key : Regions \X Nat, asked : Fields, at : Times]

Hour(time) == time \div PerHour

\* slips: the category is left out; the hour is
KeyOfRegion(asked, time) == <<asked.region, Hour(time)>>
KeyOfMoment(asked, time) == <<asked.region, asked.category * Shift + time>>

\* generateIdempotencyKey: region, category and hour, written one after the
\* other with nothing between them.  A region is letters, so what follows it
\* is one number.  That half a SHA-256 tells the keys of one hour apart is
\* taken for granted.
Key(asked, time) == <<asked.region, asked.category * Shift + Hour(time)>>

-----------------------------------------------------------------------------
(* The form.                                                               *)

\* What the first render of the form shows.
FreshForm ==
  /\ fields' = CHOOSE f \in Fields : TRUE
  /\ loading' = FALSE
  /\ error' = FALSE

\* The button: disabled while a submission is on its way.
Button == IF loading THEN "Submitting" ELSE "Submit Job"

\* The fields stay enabled all the time.
Edit ==
  /\ page = "home"
  /\ \E new \in Fields : new # fields /\ fields' = new
  /\ UNCHANGED <<loading, error, page, requests, jobs, stored, calls, now>>

\* handleSubmit up to submitJob: the fields of this render and the time.
handleSubmit ==
  /\ page = "home"
  /\ Button = "Submit Job"
  /\ Len(requests) < MaxRequests /\ Len(calls) + Len(requests) < MaxCalls
  /\ requests' = Append(requests, [asked |-> fields, at |-> now,
                                   shown |-> TRUE, answer |-> "pending"])
  /\ loading' = TRUE
  /\ error' = FALSE
  /\ UNCHANGED <<fields, page, jobs, stored, calls, now>>

-----------------------------------------------------------------------------
(* The server.                                                             *)

\* SubmitJob: the job of the key, made if there is none.  The call may fail
\* before or after the job is made.
Serve(i) ==
  LET request == requests[i]
      key     == Key(request.asked, request.at)
      found   == { row \in jobs : row.key = key }
  IN
  /\ request.answer = "pending"
  /\ \/ /\ found = {}
        /\ \E job \in JobIds \ { row.job : row \in jobs }, answered \in BOOLEAN :
             /\ jobs' = jobs \cup {[job   |-> job, key |-> key,
                                   asked |-> request.asked, at |-> request.at]}
             /\ requests' = [requests EXCEPT ![i].answer =
                               IF answered THEN job ELSE "error"]
     \/ /\ \E row \in found : requests' = [requests EXCEPT ![i].answer = row.job]
        /\ UNCHANGED jobs
  /\ UNCHANGED <<fields, loading, error, page, stored, calls, now>>

-----------------------------------------------------------------------------
(* The rest of handleSubmit, when the answer is there.                     *)

\* No request belongs to the form that is shown.
Left(rs) == [j \in DOMAIN rs |-> [rs[j] EXCEPT !.shown = FALSE]]

\* storeJobId, router.push
Answered(i) ==
  LET job == requests[i].answer IN
  /\ job \in JobIds
  /\ stored' = storeJobId(stored, job)
  /\ calls' = Append(calls, job)
  /\ page' = job
  /\ requests' = Left(RemoveAt(requests, i))
  /\ FreshForm
  /\ UNCHANGED <<jobs, now>>

\* An error, or no answer at all; of a form that is gone nothing is set.
Failed(i) ==
  /\ requests[i].answer \in {"pending", "error"}
  /\ requests' = RemoveAt(requests, i)
  /\ IF requests[i].shown
     THEN error' = TRUE /\ loading' = FALSE
     ELSE UNCHANGED <<error, loading>>
  /\ UNCHANGED <<fields, page, jobs, stored, calls, now>>

-----------------------------------------------------------------------------
(* The user, and time.                                                     *)

\* A link: the form goes, its requests go on.
Navigate ==
  /\ page' \in {"home", "other"} /\ page' # page
  /\ requests' = Left(requests)
  /\ FreshForm
  /\ UNCHANGED <<jobs, stored, calls, now>>

Reload ==
  /\ requests # <<>>
  /\ requests' = <<>>
  /\ FreshForm
  /\ UNCHANGED <<page, jobs, stored, calls, now>>

TimePasses ==
  /\ now < LastTime
  /\ now' = now + 1
  /\ UNCHANGED <<fields, loading, error, page, requests, jobs, stored, calls>>

Init ==
  /\ fields = CHOOSE f \in Fields : TRUE
  /\ loading = FALSE /\ error = FALSE
  /\ page = "home"
  /\ requests = <<>>
  /\ jobs = {}
  /\ stored = <<>>
  /\ calls = <<>>
  /\ now = FirstTime

RequestEnds == \E i \in DOMAIN requests : Serve(i) \/ Answered(i) \/ Failed(i)

Next == Edit \/ handleSubmit \/ RequestEnds \/ Navigate \/ Reload \/ TimePasses

Spec == Init /\ [][Next]_vars

-----------------------------------------------------------------------------

\* The browser keeps the jobs it was last answered with, each once, newest
\* first, in whatever order the answers come (jobs-list.tsx:31-41).
KeepsTheRecent == IsRecent(stored, calls)

\* Clicks in one hour for one region and category make one job, however often
\* answers are lost and the user submits again (lib/jobs.ts:73-86).
OneJobAnHour ==
  \A a, b \in jobs : a.asked = b.asked /\ Hour(a.at) = Hour(b.at) => a = b

\* An answer is a job made for the region, the category and the hour of the
\* click: no other fields run into the same key, and the ones shown may be
\* edited while the request is on its way (job-form.tsx:41-53).
AnswerIsAsked ==
  \A i \in DOMAIN requests : requests[i].answer \in JobIds =>
    \E row \in jobs : /\ row.job = requests[i].answer
                      /\ row.asked = requests[i].asked
                      /\ Hour(row.at) = Hour(requests[i].at)

=============================================================================
