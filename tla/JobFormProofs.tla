--------------------------- MODULE JobFormProofs ---------------------------
(***************************************************************************)
(* Proofs about JobForm, for every set of regions, categories and jobs and *)
(* every number of hours, requests and answers; and, over the same storage,*)
(* about JobsList, for every number of jobs, changes, polls and failures.  *)
(***************************************************************************)
EXTENDS JobForm, TLAPS, SequenceTheorems, FiniteSetTheorems,
        WellFoundedInduction

-----------------------------------------------------------------------------
(* The inductive invariant.                                                *)

FormTypeOK ==
  /\ fields \in Fields
  /\ requests \in Seq(Request)
  /\ jobs \in SUBSET Row
  /\ now \in Times

\* A job is kept under the key that its click made, no key has two jobs and no
\* job two keys.
JobsOK(some) ==
  /\ \A row \in some : row.key = Key(row.asked, row.at)
  /\ \A a, b \in some : a.key = b.key \/ a.job = b.job => a = b

\* The answer that a request has got is the job of its key.
AnswerOK(request, some) ==
  request.answer \in JobIds =>
    \E row \in some : /\ row.job = request.answer
                      /\ row.key = Key(request.asked, request.at)

Inv ==
  /\ FormTypeOK
  /\ JobsOK(jobs)
  /\ \A i \in DOMAIN requests : AnswerOK(requests[i], jobs)

-----------------------------------------------------------------------------
(* The operators.                                                          *)

\* The form has something to show, and an outcome is no job.
LEMMA FirstFields ==
  /\ (CHOOSE f \in Fields : TRUE) \in Fields
  /\ "pending" \notin JobIds /\ "error" \notin JobIds
<1>1. PICK r \in Regions, c \in Categories : TRUE
  BY FormAssumption
<1>2. [region |-> r, category |-> c] \in Fields
  BY DEF Fields
<1> QED BY <1>2, FormAssumption

\* A million is a number.
LEMMA ShiftIs ==
  /\ Shift \in Nat
  /\ \A a, b \in Nat : a < b => a * Shift + Shift <= b * Shift
BY SMT DEF Shift

\* Two numbers of six digits, each behind another number: what is written is
\* the same only if both are.
LEMMA Written ==
  ASSUME NEW c \in Nat, NEW d \in Nat, NEW h \in 0 .. Shift - 1, NEW k \in 0 .. Shift - 1,
         c * Shift + h = d * Shift + k
  PROVE  c = d /\ h = k
<1>1. Shift \in Nat /\ h \in Nat /\ k \in Nat /\ h < Shift /\ k < Shift
  BY ShiftIs
<1>2. \A a, b \in Nat : a < b => a * Shift + Shift <= b * Shift
  BY ShiftIs
<1>3. c * Shift \in Nat /\ d * Shift \in Nat
  BY <1>1
<1>4. ~ (c < d) /\ ~ (d < c)
  BY <1>1, <1>2, <1>3
<1>5. c = d
  BY <1>4
<1>6. h = k
  BY <1>1, <1>3, <1>5
<1> QED BY <1>5, <1>6

\* The hours that pass have six digits at most.
LEMMA HourIs ==
  ASSUME NEW time \in Times
  PROVE  Hour(time) \in 0 .. Shift - 1
<1> DEFINE h == time \div PerHour
           m == time % PerHour
<1>1. PerHour \in Nat /\ PerHour > 0 /\ time \in Nat /\ time < Shift * PerHour
      /\ Shift \in Nat
  BY FormAssumption, ShiftIs DEF Times
<1>2. h \in Nat /\ m \in 0 .. PerHour - 1 /\ time = PerHour * h + m
  BY <1>1
<1> HIDE DEF h, m
<1>3. h >= Shift => PerHour * h >= PerHour * Shift
  BY <1>1, <1>2
<1>4. PerHour * Shift = Shift * PerHour /\ PerHour * h \in Nat /\ Shift * PerHour \in Nat
  BY <1>1, <1>2
<1>5. h < Shift
  BY <1>1, <1>2, <1>3, <1>4
<1>6. h \in 0 .. Shift - 1
  BY <1>1, <1>2, <1>5
<1> QED BY <1>6 DEF Hour, h

\* generateIdempotencyKey: clicks have one key exactly if they are for one
\* region and category in one hour.
LEMMA KeyTells ==
  ASSUME NEW asked \in Fields, NEW other \in Fields, NEW t \in Times, NEW u \in Times
  PROVE  /\ Key(asked, t) \in Regions \X Nat
         /\ Key(asked, t) = Key(other, u) <=> asked = other /\ Hour(t) = Hour(u)
<1>1. /\ asked.region \in Regions /\ asked.category \in Nat
      /\ other.region \in Regions /\ other.category \in Nat
      /\ asked = [region |-> asked.region, category |-> asked.category]
      /\ other = [region |-> other.region, category |-> other.category]
  BY FormAssumption DEF Fields
<1>2. Hour(t) \in 0 .. Shift - 1 /\ Hour(u) \in 0 .. Shift - 1
  BY HourIs
<1>3. asked.category * Shift + Hour(t) \in Nat
  <2>1. Shift \in Nat /\ Hour(t) \in Nat
    BY <1>2, ShiftIs
  <2> QED BY <1>1, <2>1
<1>4. asked.category * Shift + Hour(t) = other.category * Shift + Hour(u)
        => asked.category = other.category /\ Hour(t) = Hour(u)
  BY <1>1, <1>2, Written
<1>5. Key(asked, t) \in Regions \X Nat
  BY <1>1, <1>3 DEF Key
<1>6. ASSUME Key(asked, t) = Key(other, u)
      PROVE  asked = other /\ Hour(t) = Hour(u)
  <2>1. asked.region = other.region
        /\ asked.category * Shift + Hour(t) = other.category * Shift + Hour(u)
    BY <1>6 DEF Key
  <2>2. asked.category = other.category /\ Hour(t) = Hour(u)
    BY <1>4, <2>1
  <2> QED BY <1>1, <2>1, <2>2
<1>7. asked = other /\ Hour(t) = Hour(u) => Key(asked, t) = Key(other, u)
  BY DEF Key
<1> QED BY <1>5, <1>6, <1>7

\* What RemoveAt leaves, place by place.
LEMMA Removed ==
  ASSUME NEW S, NEW s \in Seq(S), NEW i \in 1 .. Len(s)
  PROVE  /\ RemoveAt(s, i) \in Seq(S)
         /\ Len(RemoveAt(s, i)) = Len(s) - 1
         /\ \A k \in 1 .. Len(s) - 1 :
              RemoveAt(s, i)[k] = IF k < i THEN s[k] ELSE s[k + 1]
<1> DEFINE n == Len(s)
           a == SubSeq(s, 1, i - 1)
           b == SubSeq(s, i + 1, n)
<1>1. n \in Nat /\ i \in 1 .. n
  BY LenProperties
<1>2. \A j \in 1 .. n : s[j] \in S
  BY ElementOfSeq
<1>3. RemoveAt(s, i) = a \o b
  BY DEF RemoveAt
<1> HIDE DEF n
<1>4. /\ a \in Seq(S) /\ Len(a) = i - 1
      /\ \A k \in 1 .. i - 1 : a[k] = s[k]
  <2>1. i - 1 \in Int /\ 1 \in Int /\ \A j \in 1 .. i - 1 : s[j] \in S
    BY <1>1, <1>2
  <2>2. /\ a \in Seq(S) /\ Len(a) = IF 1 <= i - 1 THEN i - 1 - 1 + 1 ELSE 0
        /\ \A k \in 1 .. i - 1 - 1 + 1 : a[k] = s[1 + k - 1]
    BY <2>1, SubSeqProperties
  <2> QED BY <1>1, <2>2
<1>5. /\ b \in Seq(S) /\ Len(b) = n - i
      /\ \A k \in 1 .. n - i : b[k] = s[k + i]
  <2>1. i + 1 \in Int /\ n \in Int /\ \A j \in i + 1 .. n : s[j] \in S
    BY <1>1, <1>2
  <2>2. /\ b \in Seq(S) /\ Len(b) = IF i + 1 <= n THEN n - (i + 1) + 1 ELSE 0
        /\ \A k \in 1 .. n - (i + 1) + 1 : b[k] = s[i + 1 + k - 1]
    BY <2>1, SubSeqProperties
  <2>3. n - (i + 1) + 1 = n - i /\ (i + 1 <= n \/ n - i = 0)
    BY <1>1
  <2>4. ASSUME NEW k \in 1 .. n - i PROVE b[k] = s[k + i]
    <3>1. i + 1 + k - 1 = k + i /\ k \in 1 .. n - (i + 1) + 1
      BY <1>1
    <3> HIDE DEF b
    <3> QED BY <2>2, <3>1
  <2>5. Len(b) = n - i
    BY <2>2, <2>3
  <2> QED BY <2>2, <2>4, <2>5
<1> HIDE DEF a, b
<1>6. /\ a \o b \in Seq(S) /\ Len(a \o b) = Len(a) + Len(b)
      /\ \A k \in 1 .. Len(a) + Len(b) :
           (a \o b)[k] = IF k <= Len(a) THEN a[k] ELSE b[k - Len(a)]
  BY <1>4, <1>5, ConcatProperties
<1>7. Len(a) + Len(b) = n - 1
  BY <1>1, <1>4, <1>5
<1>8. ASSUME NEW k \in 1 .. n - 1
      PROVE  (a \o b)[k] = IF k < i THEN s[k] ELSE s[k + 1]
  <2>1. CASE k < i
    <3>1. k \in 1 .. i - 1 /\ k <= Len(a)
      BY <1>1, <1>4, <2>1
    <3> QED BY <1>4, <1>6, <1>7, <2>1, <3>1
  <2>2. CASE ~ (k < i)
    <3>1. k - (i - 1) \in 1 .. n - i /\ k - (i - 1) + i = k + 1 /\ ~ (k <= i - 1)
      BY <1>1, <2>2
    <3>2. b[k - (i - 1)] = s[k - (i - 1) + i]
      BY <1>5, <3>1
    <3>3. (a \o b)[k] = b[k - (i - 1)]
      BY <1>4, <1>6, <1>7, <3>1
    <3> QED BY <2>2, <3>1, <3>2, <3>3
  <2> QED BY <2>1, <2>2
<1> QED BY <1>3, <1>6, <1>7, <1>8 DEF n

\* To leave the form changes nothing in what was asked or answered.
LEMMA LeftKeeps ==
  ASSUME NEW rs \in Seq(Request)
  PROVE  /\ Left(rs) \in Seq(Request) /\ DOMAIN Left(rs) = DOMAIN rs
         /\ \A i \in DOMAIN rs : /\ Left(rs)[i].asked = rs[i].asked
                                 /\ Left(rs)[i].at = rs[i].at
                                 /\ Left(rs)[i].answer = rs[i].answer
<1> DEFINE e(j) == [rs[j] EXCEPT !.shown = FALSE]
<1>1. Len(rs) \in Nat /\ DOMAIN rs = 1 .. Len(rs)
      /\ \A j \in 1 .. Len(rs) : rs[j] \in Request
  BY LenProperties, ElementOfSeq
<1>2. \A j \in 1 .. Len(rs) :
        /\ e(j) \in Request
        /\ e(j).asked = rs[j].asked /\ e(j).at = rs[j].at
        /\ e(j).answer = rs[j].answer
  BY <1>1 DEF Request
<1>3. Left(rs) = [j \in 1 .. Len(rs) |-> e(j)]
  BY <1>1 DEF Left
<1> HIDE DEF e
<1>4. [j \in 1 .. Len(rs) |-> e(j)] \in Seq(Request)
  BY <1>1, <1>2, IsASeq
<1> QED BY <1>1, <1>2, <1>3, <1>4

-----------------------------------------------------------------------------
(* The steps.                                                              *)

\* Requests whose answers stay as they are, on a server that does.
LEMMA FewerRequests ==
  ASSUME Inv, NEW rs \in Seq(Request),
         \A k \in DOMAIN rs : \E j \in DOMAIN requests :
            /\ rs[k].asked = requests[j].asked /\ rs[k].at = requests[j].at
            /\ rs[k].answer = requests[j].answer,
         requests' = rs, fields' \in Fields, UNCHANGED <<jobs, now>>
  PROVE  Inv'
  BY DEF Inv, FormTypeOK, AnswerOK

\* Init, and the steps that leave the requests and the server alone.
LEMMA InitInv == Init => Inv
<1>1. ASSUME Init PROVE Inv
  <2>1. fields \in Fields /\ requests = <<>> /\ now = FirstTime /\ jobs = {}
    BY <1>1, FirstFields DEF Init
  <2>2. requests \in Seq(Request) /\ DOMAIN requests = {}
    BY <2>1, EmptySeq
  <2> QED BY <2>1, <2>2, FormAssumption DEF Inv, FormTypeOK, JobsOK, Times
<1> QED BY <1>1

LEMMA SubmitKeepsInv ==
  ASSUME Inv, handleSubmit
  PROVE  Inv'
<1> DEFINE new == [asked |-> fields, at |-> now, shown |-> TRUE, answer |-> "pending"]
<1>1. /\ new \in Request /\ new.answer \notin JobIds
      /\ requests' = Append(requests, new)
      /\ UNCHANGED <<fields, jobs, now>>
  BY FirstFields DEF handleSubmit, Inv, FormTypeOK, Request
<1> HIDE DEF new
<1>2. requests \in Seq(Request)
  BY DEF Inv, FormTypeOK
<1>3. /\ requests' \in Seq(Request) /\ Len(requests') = Len(requests) + 1
      /\ \A i \in 1 .. Len(requests) : requests'[i] = requests[i]
      /\ requests'[Len(requests) + 1] = new
  BY <1>1, <1>2, AppendProperties
<1>4. DOMAIN requests = 1 .. Len(requests) /\ DOMAIN requests' = 1 .. Len(requests) + 1
      /\ Len(requests) \in Nat
  BY <1>2, <1>3, LenProperties
<1>5. ASSUME NEW i \in DOMAIN requests' PROVE AnswerOK(requests'[i], jobs')
  <2>1. CASE i \in DOMAIN requests
    BY <1>1, <1>3, <1>4, <2>1 DEF Inv
  <2>2. CASE i = Len(requests) + 1
    BY <1>1, <1>3, <2>2 DEF AnswerOK
  <2> QED BY <1>4, <2>1, <2>2
<1> QED BY <1>1, <1>3, <1>5 DEF Inv, FormTypeOK

\* An answer makes at most one job, and none for a key that has one.
LEMMA ServeKeepsInv ==
  ASSUME Inv, NEW i \in DOMAIN requests, Serve(i)
  PROVE  Inv'
<1> DEFINE request == requests[i]
           key     == Key(request.asked, request.at)
           found   == { row \in jobs : row.key = key }
<1>1. /\ requests \in Seq(Request) /\ request \in Request
      /\ DOMAIN requests = 1 .. Len(requests) /\ key \in Regions \X Nat
      /\ request.asked \in Fields /\ request.at \in Times
  <2>1. requests \in Seq(Request) /\ request \in Request
        /\ DOMAIN requests = 1 .. Len(requests)
    BY LenProperties, ElementOfSeq DEF Inv, FormTypeOK
  <2>2. request.asked \in Fields /\ request.at \in Times
    BY <2>1 DEF Request
  <2> QED BY <2>1, <2>2, KeyTells
<1>2. PICK answer \in JobIds \cup {"error"}, some \in SUBSET Row :
        /\ requests' = [requests EXCEPT ![i].answer = answer]
        /\ jobs' = some /\ jobs \subseteq some /\ JobsOK(some)
        /\ answer \in JobIds => \E row \in some : row.job = answer /\ row.key = key
  <2>1. ASSUME found = {}, NEW job \in JobIds \ { row.job : row \in jobs },
               NEW answered \in BOOLEAN,
               jobs' = jobs \cup {[job |-> job, key |-> key,
                                  asked |-> request.asked, at |-> request.at]},
               requests' = [requests EXCEPT ![i].answer = IF answered THEN job ELSE "error"]
        PROVE  \E answer \in JobIds \cup {"error"}, some \in SUBSET Row :
                 /\ requests' = [requests EXCEPT ![i].answer = answer]
                 /\ jobs' = some /\ jobs \subseteq some /\ JobsOK(some)
                 /\ answer \in JobIds => \E row \in some : row.job = answer /\ row.key = key
    <3> DEFINE new    == [job |-> job, key |-> key,
                          asked |-> request.asked, at |-> request.at]
               answer == IF answered THEN job ELSE "error"
    <3>1. /\ new \in Row /\ new.key = key /\ new.job = job
          /\ new.key = Key(new.asked, new.at)
      BY <1>1 DEF Row
    <3>2. \A row \in jobs : row.key # key /\ row.job # job
      BY <2>1
    <3>3. jobs \in SUBSET Row /\ JobsOK(jobs)
      BY DEF Inv, FormTypeOK
    <3>4. jobs' = jobs \cup {new} /\ requests' = [requests EXCEPT ![i].answer = answer]
      BY <2>1
    <3>5. answer \in JobIds \cup {"error"} /\ (answer \in JobIds => answer = job)
      BY FirstFields
    <3> HIDE DEF new, key, answer
    <3>6. JobsOK(jobs \cup {new})
      BY <3>1, <3>2, <3>3 DEF JobsOK
    <3> QED BY <3>1, <3>3, <3>4, <3>5, <3>6
  <2>2. ASSUME NEW row \in found, UNCHANGED jobs,
               requests' = [requests EXCEPT ![i].answer = row.job]
        PROVE  \E answer \in JobIds \cup {"error"}, some \in SUBSET Row :
                 /\ requests' = [requests EXCEPT ![i].answer = answer]
                 /\ jobs' = some /\ jobs \subseteq some /\ JobsOK(some)
                 /\ answer \in JobIds => \E r \in some : r.job = answer /\ r.key = key
    <3>1. row \in jobs /\ row.key = key /\ row.job \in JobIds
      BY DEF Inv, FormTypeOK, Row
    <3> QED BY <2>2, <3>1 DEF Inv, FormTypeOK
  <2> QED BY <2>1, <2>2 DEF Serve
<1> DEFINE new == [request EXCEPT !.answer = answer]
<1>3. /\ new \in Request /\ new.answer = answer /\ new.asked = request.asked
      /\ new.at = request.at
  BY <1>1 DEF Request
<1>4. requests' = [requests EXCEPT ![i] = new]
  BY <1>1, <1>2
<1>5. AnswerOK(new, some)
  BY <1>2, <1>3 DEF AnswerOK
<1> HIDE DEF new
<1>6. /\ requests' \in Seq(Request) /\ DOMAIN requests' = DOMAIN requests
      /\ \A j \in DOMAIN requests : requests'[j] = IF j = i THEN new ELSE requests[j]
  BY <1>1, <1>3, <1>4, ExceptSeq, LenProperties
<1>7. ASSUME NEW j \in DOMAIN requests PROVE AnswerOK(requests'[j], some)
  <2>1. CASE j = i
    BY <1>5, <1>6, <2>1
  <2>2. CASE j # i
    <3>1. requests'[j] = requests[j] /\ AnswerOK(requests[j], jobs)
      BY <1>6, <2>2 DEF Inv
    <3> QED BY <1>2, <3>1 DEF AnswerOK
  <2> QED BY <2>1, <2>2
<1>8. fields' \in Fields /\ now' \in Times
  BY DEF Serve, Inv, FormTypeOK
<1> QED BY <1>2, <1>6, <1>7, <1>8 DEF Inv, FormTypeOK

\* A request that ends, and those that leave the form.
LEMMA EndKeepsInv ==
  ASSUME Inv, NEW i \in DOMAIN requests, Answered(i) \/ Failed(i)
  PROVE  Inv'
<1> DEFINE rest == RemoveAt(requests, i)
<1>1. requests \in Seq(Request) /\ fields \in Fields
  BY DEF Inv, FormTypeOK
<1>2. /\ rest \in Seq(Request)
      /\ \A k \in DOMAIN rest : \E j \in DOMAIN requests : rest[k] = requests[j]
  <2>1. DOMAIN requests = 1 .. Len(requests) /\ Len(requests) \in Nat
    BY <1>1, LenProperties
  <2>2. /\ rest \in Seq(Request) /\ Len(rest) = Len(requests) - 1
        /\ \A k \in 1 .. Len(requests) - 1 :
             rest[k] = IF k < i THEN requests[k] ELSE requests[k + 1]
    BY <1>1, <2>1, Removed
  <2> HIDE DEF rest
  <2>3. DOMAIN rest = 1 .. Len(requests) - 1
    BY <2>2, LenProperties
  <2>4. \A k \in 1 .. Len(requests) - 1 : k \in DOMAIN requests /\ k + 1 \in DOMAIN requests
    BY <2>1
  <2> QED BY <2>2, <2>3, <2>4
<1>3. CASE Answered(i)
  <2>1. requests' = Left(rest) /\ fields' \in Fields /\ UNCHANGED <<jobs, now>>
    BY <1>3, FirstFields DEF Answered, FreshForm
  <2> HIDE DEF rest
  <2>2. Left(rest) \in Seq(Request)
        /\ \A k \in DOMAIN Left(rest) : \E j \in DOMAIN requests :
              /\ Left(rest)[k].asked = requests[j].asked
              /\ Left(rest)[k].at = requests[j].at
              /\ Left(rest)[k].answer = requests[j].answer
    BY <1>2, LeftKeeps
  <2> QED BY <2>1, <2>2, FewerRequests
<1>4. CASE Failed(i)
  <2>1. requests' = rest /\ fields' \in Fields /\ UNCHANGED <<jobs, now>>
    BY <1>1, <1>4 DEF Failed
  <2> HIDE DEF rest
  <2>2. \A k \in DOMAIN rest : \E j \in DOMAIN requests :
          /\ rest[k].asked = requests[j].asked /\ rest[k].at = requests[j].at
          /\ rest[k].answer = requests[j].answer
    BY <1>2
  <2> QED BY <1>2, <2>1, <2>2, FewerRequests
<1> QED BY <1>3, <1>4

LEMMA StepKeepsInv ==
  ASSUME Inv, [Next]_vars
  PROVE  Inv'
<1>1. CASE Edit
  BY <1>1 DEF Edit, Inv, FormTypeOK
<1>2. CASE handleSubmit
  BY <1>2, SubmitKeepsInv
<1>3. CASE RequestEnds
  BY <1>3, ServeKeepsInv, EndKeepsInv DEF RequestEnds
<1>4. CASE Navigate
  <2>1. requests' = Left(requests) /\ fields' \in Fields /\ UNCHANGED <<jobs, now>>
    BY <1>4, FirstFields DEF Navigate, FreshForm
  <2>2. requests \in Seq(Request)
    BY DEF Inv, FormTypeOK
  <2> QED BY <2>1, <2>2, LeftKeeps, FewerRequests
<1>5. CASE Reload
  <2>1. requests' = <<>> /\ fields' \in Fields /\ UNCHANGED <<jobs, now>>
    BY <1>5, FirstFields DEF Reload, FreshForm
  <2>2. <<>> \in Seq(Request) /\ DOMAIN <<>> = {}
    BY EmptySeq
  <2> QED BY <2>1, <2>2 DEF Inv, FormTypeOK
<1>6. CASE TimePasses
  <2>1. now' \in Times /\ UNCHANGED <<fields, requests, jobs>>
    BY <1>6, FormAssumption DEF TimePasses, Inv, FormTypeOK, Times
  <2> QED BY <2>1 DEF Inv, FormTypeOK
<1>7. CASE UNCHANGED vars
  BY <1>7 DEF vars, Inv, FormTypeOK
<1> QED BY <1>1, <1>2, <1>3, <1>4, <1>5, <1>6, <1>7 DEF Next

-----------------------------------------------------------------------------
(* The stored list.                                                        *)

\* Numbers that have a bound and are some have a smallest and a largest.
LEMMA Smallest ==
  ASSUME NEW S \in SUBSET Nat, S # {}
  PROVE  \E x \in S : \A y \in S : x <= y
<1> DEFINE Less == OpToRel(<, Nat)
<1>1. PICK x \in S : \A y \in S : ~ (<<y, x>> \in Less)
  BY NatLessThanWellFounded, WFMin
<1>2. ASSUME NEW y \in S PROVE x <= y
  <2>1. Less = {ss \in Nat \X Nat : ss[1] < ss[2]}
    BY DEF OpToRel
  <2> HIDE DEF Less
  <2>2. <<y, x>> \in Nat \X Nat /\ <<y, x>>[1] = y /\ <<y, x>>[2] = x
    OBVIOUS
  <2>3. ~ (y < x)
    BY <1>1, <2>1, <2>2
  <2> QED BY <2>3
<1> QED BY <1>2

LEMMA Largest ==
  ASSUME NEW n \in Nat, NEW S \in SUBSET (1 .. n), S # {}
  PROVE  \E x \in S : \A y \in S : y <= x
<1> DEFINE D == { n - y : y \in S }
<1>1. D \in SUBSET Nat /\ D # {}
  <2>1. \A y \in S : n - y \in Nat
    OBVIOUS
  <2>2. PICK y \in S : TRUE
    OBVIOUS
  <2>3. n - y \in D
    OBVIOUS
  <2> QED BY <2>1, <2>3
<1>2. PICK d \in D : \A e \in D : d <= e
  BY <1>1, Smallest
<1>3. PICK x \in S : d = n - x
  OBVIOUS
<1>4. ASSUME NEW y \in S PROVE y <= x
  <2>1. n - x <= n - y
    BY <1>2, <1>3
  <2> QED BY <2>1
<1> QED BY <1>4

\* The last call of a job, by its place.
LEMMA LastCallIs ==
  ASSUME NEW cs \in Seq(JobIds), NEW job \in Range(cs)
  PROVE  /\ LastCall(cs, job) \in 1 .. Len(cs)
         /\ cs[LastCall(cs, job)] = job
         /\ \A j \in 1 .. Len(cs) : cs[j] = job => j <= LastCall(cs, job)
<1> DEFINE n == Len(cs)
           S == { i \in 1 .. n : cs[i] = job }
<1>1. n \in Nat /\ DOMAIN cs = 1 .. n
  BY LenProperties
<1>2. S \in SUBSET (1 .. n) /\ S # {}
  BY <1>1 DEF Range
<1>3. PICK i \in S : \A j \in S : j <= i
  BY <1>1, <1>2, Largest
<1>4. i \in DOMAIN cs /\ cs[i] = job /\ \A j \in DOMAIN cs : cs[j] = job => j <= i
  BY <1>1, <1>3
<1>5. /\ LastCall(cs, job) \in DOMAIN cs /\ cs[LastCall(cs, job)] = job
      /\ \A j \in DOMAIN cs : cs[j] = job => j <= LastCall(cs, job)
  BY <1>4 DEF LastCall
<1> QED BY <1>1, <1>5

\* What a further call makes of the last calls.
LEMMA NextCall ==
  ASSUME NEW cs \in Seq(JobIds), NEW job \in JobIds
  PROVE  /\ Append(cs, job) \in Seq(JobIds)
         /\ Range(Append(cs, job)) = Range(cs) \cup {job}
         /\ LastCall(Append(cs, job), job) = Len(cs) + 1
         /\ \A k \in Range(cs) \ {job} :
              LastCall(Append(cs, job), k) = LastCall(cs, k)
<1> DEFINE n == Len(cs)
           ds == Append(cs, job)
<1>1. n \in Nat /\ DOMAIN cs = 1 .. n
  BY LenProperties
<1>2. /\ ds \in Seq(JobIds) /\ Len(ds) = n + 1
      /\ \A i \in 1 .. n : ds[i] = cs[i]
      /\ ds[n + 1] = job
  BY <1>1, AppendProperties
<1> HIDE DEF ds, n
<1>3. DOMAIN ds = 1 .. n + 1
  BY <1>2, LenProperties
<1>4. Range(ds) = Range(cs) \cup {job}
  <2>1. ASSUME NEW i \in 1 .. n + 1 PROVE ds[i] \in Range(cs) \cup {job}
    <3>1. CASE i = n + 1
      BY <1>2, <3>1
    <3>2. CASE i # n + 1
      <4>1. i \in 1 .. n
        BY <1>1, <3>2
      <4> QED BY <1>1, <1>2, <4>1 DEF Range
    <3> QED BY <3>1, <3>2
  <2>2. ASSUME NEW i \in 1 .. n PROVE cs[i] \in Range(ds)
    <3>1. i \in 1 .. n + 1
      BY <1>1
    <3> QED BY <1>2, <1>3, <3>1 DEF Range
  <2>3. job \in Range(ds)
    BY <1>1, <1>2, <1>3 DEF Range
  <2> QED BY <1>1, <1>3, <2>1, <2>2, <2>3 DEF Range
<1>5. LastCall(ds, job) = n + 1
  <2>1. /\ LastCall(ds, job) \in 1 .. n + 1
        /\ \A j \in 1 .. n + 1 : ds[j] = job => j <= LastCall(ds, job)
    BY <1>2, <1>4, LastCallIs
  <2>2. n + 1 <= LastCall(ds, job)
    BY <1>1, <1>2, <2>1
  <2> QED BY <1>1, <2>1, <2>2
<1>6. ASSUME NEW k \in Range(cs) \ {job} PROVE LastCall(ds, k) = LastCall(cs, k)
  <2> DEFINE a == LastCall(cs, k)
             b == LastCall(ds, k)
  <2>1. a \in 1 .. n /\ cs[a] = k /\ \A j \in 1 .. n : cs[j] = k => j <= a
    BY LastCallIs DEF n
  <2>2. b \in 1 .. n + 1 /\ ds[b] = k /\ \A j \in 1 .. n + 1 : ds[j] = k => j <= b
    BY <1>2, <1>4, LastCallIs
  <2> HIDE DEF a, b
  <2>3. b # n + 1
    BY <1>2, <2>2
  <2>4. b \in 1 .. n /\ cs[b] = k
    BY <1>1, <1>2, <2>2, <2>3
  <2>5. b <= a /\ a <= b
    BY <1>1, <1>2, <2>1, <2>2, <2>4
  <2>6. a = b
    BY <1>1, <2>1, <2>4, <2>5
  <2> QED BY <2>6 DEF a, b
<1> QED BY <1>2, <1>4, <1>5, <1>6 DEF ds, n

\* A list of the most recent has each job once.
LEMMA Distinct ==
  ASSUME NEW cs \in Seq(JobIds), NEW ids \in Seq(JobIds), IsRecent(ids, cs)
  PROVE  \A i, j \in 1 .. Len(ids) : ids[i] = ids[j] => i = j
<1>1. Len(ids) \in Nat /\ DOMAIN ids = 1 .. Len(ids)
  BY LenProperties
<1>2. ASSUME NEW i \in 1 .. Len(ids), NEW j \in 1 .. Len(ids), i < j
      PROVE  ids[i] # ids[j]
  <2>1. LastCall(cs, ids[i]) > LastCall(cs, ids[j])
    BY <1>1, <1>2 DEF IsRecent
  <2>2. ids[j] \in Range(cs)
    BY <1>1 DEF IsRecent, Range
  <2>3. LastCall(cs, ids[j]) \in Int
    BY <2>2, LastCallIs, LenProperties
  <2> QED BY <2>1, <2>3
<1>3. ASSUME NEW i \in 1 .. Len(ids), NEW j \in 1 .. Len(ids), ids[i] = ids[j]
      PROVE  i = j
  <2>1. ~ (i < j) /\ ~ (j < i)
    BY <1>2, <1>3
  <2> QED BY <1>1, <2>1
<1> QED BY <1>3

\* The list without a job: the others, in their order.
LEMMA WithoutJob ==
  ASSUME NEW ids \in Seq(JobIds), NEW job \in JobIds,
         \A i, j \in 1 .. Len(ids) : ids[i] = ids[j] => i = j
  PROVE  /\ Without(ids, job) \in Seq(JobIds)
         /\ Len(Without(ids, job)) =
              IF job \in Range(ids) THEN Len(ids) - 1 ELSE Len(ids)
         /\ Range(Without(ids, job)) = Range(ids) \ {job}
         /\ \A i, j \in 1 .. Len(Without(ids, job)) : i < j =>
              \E a, b \in 1 .. Len(ids) : /\ a < b
                                          /\ ids[a] = Without(ids, job)[i]
                                          /\ ids[b] = Without(ids, job)[j]
<1> DEFINE n == Len(ids)
           P == { i \in 1 .. n : ids[i] = job }
           rest == Without(ids, job)
<1>1. n \in Nat /\ DOMAIN ids = 1 .. n
  BY LenProperties
<1>2. CASE job \notin Range(ids)
  <2>1. ~ \E i \in 1 .. Len(ids) : ids[i] = job
    BY <1>1, <1>2 DEF Range
  <2>2. rest = ids
    BY <2>1 DEF Without, RemoveFirst
  <2> QED BY <1>2, <2>2
<1>3. CASE job \in Range(ids)
  <2>1. \E i \in 1 .. Len(ids) : ids[i] = job
    BY <1>1, <1>3 DEF Range
  <2>2. P # {} /\ P \in SUBSET Nat
    BY <1>1, <2>1
  <2>3. PICK p \in P : \A y \in P : p <= y
    BY <2>2, Smallest
  <2>4. Min(P) = p
    <3>1. \E x \in P : \A y \in P : x <= y
      BY <2>3
    <3>2. Min(P) \in P /\ \A y \in P : Min(P) <= y
      BY <3>1 DEF Min
    <3>3. Min(P) <= p /\ p <= Min(P)
      BY <2>3, <3>2
    <3> QED BY <2>2, <3>2, <3>3
  <2>5. rest = RemoveAt(ids, p)
    BY <2>1, <2>2, <2>4 DEF Without, RemoveFirst, SelectInSeq
  <2>6. p \in 1 .. n /\ ids[p] = job
    OBVIOUS
  <2> HIDE DEF P, rest, n
  <2>7. /\ rest \in Seq(JobIds) /\ Len(rest) = n - 1
        /\ \A k \in 1 .. n - 1 : rest[k] = IF k < p THEN ids[k] ELSE ids[k + 1]
    BY <2>5, <2>6, Removed DEF n
  <2>8. DOMAIN rest = 1 .. n - 1
    BY <2>7, LenProperties
  <2> DEFINE at(k) == IF k < p THEN k ELSE k + 1
  <2>9. \A k \in 1 .. n - 1 : at(k) \in 1 .. n /\ at(k) # p /\ rest[k] = ids[at(k)]
    BY <1>1, <2>6, <2>7
  <2>10. \A i, j \in 1 .. n - 1 : i < j => at(i) < at(j)
    BY <1>1, <2>6
  <2>11. Range(rest) = Range(ids) \ {job}
    <3>1. ASSUME NEW k \in 1 .. n - 1 PROVE rest[k] \in Range(ids) \ {job}
      <4>1. ids[at(k)] # job
        BY <2>6, <2>9 DEF n
      <4> QED BY <1>1, <2>9, <4>1 DEF Range
    <3>2. ASSUME NEW i \in 1 .. n, ids[i] # job PROVE ids[i] \in Range(rest)
      <4>1. i # p
        BY <2>6, <3>2
      <4>2. CASE i < p
        <5>1. i \in 1 .. n - 1 /\ rest[i] = ids[i]
          BY <1>1, <2>6, <2>7, <4>2
        <5> QED BY <2>8, <5>1 DEF Range
      <4>3. CASE ~ (i < p)
        <5>1. i - 1 \in 1 .. n - 1 /\ ~ (i - 1 < p) /\ i - 1 + 1 = i
          BY <1>1, <2>6, <4>1, <4>3
        <5>2. rest[i - 1] = ids[i]
          BY <2>7, <5>1
        <5> QED BY <2>8, <5>1, <5>2 DEF Range
      <4> QED BY <4>2, <4>3
    <3> QED BY <1>1, <2>8, <3>1, <3>2 DEF Range
  <2>12. ASSUME NEW i \in 1 .. n - 1, NEW j \in 1 .. n - 1, i < j
         PROVE  \E a, b \in 1 .. n : a < b /\ ids[a] = rest[i] /\ ids[b] = rest[j]
    BY <2>9, <2>10, <2>12
  <2> QED BY <1>3, <2>7, <2>11, <2>12 DEF rest, n
<1> QED BY <1>2, <1>3

\* storeJobId keeps the most recent.
LEMMA StoreKeepsRecent ==
  ASSUME NEW cs \in Seq(JobIds), NEW ids \in Seq(JobIds), IsRecent(ids, cs),
         NEW job \in JobIds
  PROVE  /\ storeJobId(ids, job) \in Seq(JobIds)
         /\ IsRecent(storeJobId(ids, job), Append(cs, job))
<1> DEFINE ds   == Append(cs, job)
           rest == Without(ids, job)
           full == <<job>> \o rest
           m    == IF Len(full) < MaxStored THEN Len(full) ELSE MaxStored
           new  == storeJobId(ids, job)
           old  == Range(cs)
<1>1. /\ ds \in Seq(JobIds) /\ Range(ds) = old \cup {job}
      /\ LastCall(ds, job) = Len(cs) + 1
      /\ \A k \in old \ {job} : LastCall(ds, k) = LastCall(cs, k)
  BY NextCall
<1>2. /\ Len(cs) \in Nat /\ Len(ids) \in Nat /\ MaxStored \in Nat \ {0}
      /\ DOMAIN ids = 1 .. Len(ids) /\ DOMAIN cs = 1 .. Len(cs)
  BY LenProperties, StorageAssumption
<1>3. /\ Len(ids) = IF Cardinality(old) < MaxStored THEN Cardinality(old) ELSE MaxStored
      /\ \A i, j \in 1 .. Len(ids) :
           i < j => LastCall(cs, ids[i]) > LastCall(cs, ids[j])
      /\ Range(ids) \subseteq old
      /\ \A k \in old \ Range(ids), i \in 1 .. Len(ids) :
           LastCall(cs, ids[i]) > LastCall(cs, k)
  BY <1>2 DEF IsRecent
<1>4. \A i, j \in 1 .. Len(ids) : ids[i] = ids[j] => i = j
  BY Distinct
<1>5. /\ rest \in Seq(JobIds)
      /\ Len(rest) = IF job \in Range(ids) THEN Len(ids) - 1 ELSE Len(ids)
      /\ Range(rest) = Range(ids) \ {job}
      /\ \A i, j \in 1 .. Len(rest) : i < j =>
           \E a, b \in 1 .. Len(ids) : a < b /\ ids[a] = rest[i] /\ ids[b] = rest[j]
  BY <1>4, WithoutJob
<1>6. new = SubSeq(full, 1, m)
  BY DEF storeJobId, Newest
<1> HIDE DEF ds, rest, new
<1>7. Len(rest) \in Nat /\ DOMAIN rest = 1 .. Len(rest)
  BY <1>5, LenProperties
<1>8. /\ full \in Seq(JobIds) /\ Len(full) = Len(rest) + 1
      /\ full[1] = job
      /\ \A i \in 2 .. Len(rest) + 1 : full[i] = rest[i - 1]
  <2>1. <<job>> \in Seq(JobIds) /\ Len(<<job>>) = 1 /\ <<job>>[1] = job
    OBVIOUS
  <2>2. /\ full \in Seq(JobIds) /\ Len(full) = 1 + Len(rest)
        /\ \A i \in 1 .. 1 + Len(rest) :
             full[i] = IF i <= 1 THEN <<job>>[i] ELSE rest[i - 1]
    BY <1>5, <2>1, ConcatProperties
  <2> HIDE DEF full
  <2>3. 1 \in 1 .. 1 + Len(rest) /\ \A i \in 2 .. Len(rest) + 1 : ~ (i <= 1)
    BY <1>7
  <2> QED BY <1>7, <2>1, <2>2, <2>3
<1> HIDE DEF full
<1>9. m \in 1 .. Len(rest) + 1 /\ m <= MaxStored
  BY <1>2, <1>7, <1>8
<1>10. m = IF Len(rest) + 1 < MaxStored THEN Len(rest) + 1 ELSE MaxStored
  BY <1>8
<1> HIDE DEF m
<1>11. /\ new \in Seq(JobIds) /\ Len(new) = m
       /\ \A i \in 1 .. m : new[i] = full[i]
  <2>1. 1 \in Int /\ m \in Int /\ \A i \in 1 .. m : full[i] \in JobIds
    BY <1>7, <1>8, <1>9, ElementOfSeq
  <2>2. /\ SubSeq(full, 1, m) \in Seq(JobIds)
        /\ Len(SubSeq(full, 1, m)) = IF 1 <= m THEN m - 1 + 1 ELSE 0
        /\ \A i \in 1 .. m - 1 + 1 : SubSeq(full, 1, m)[i] = full[1 + i - 1]
    BY <2>1, SubSeqProperties
  <2>3. m - 1 + 1 = m /\ 1 <= m /\ \A i \in 1 .. m : 1 + i - 1 = i
    BY <1>7, <1>9
  <2> QED BY <1>6, <2>2, <2>3
<1>12. DOMAIN new = 1 .. m
  BY <1>11, LenProperties
<1>13. /\ new[1] = job
       /\ \A i \in 2 .. m : i - 1 \in 1 .. Len(rest) /\ new[i] = rest[i - 1]
  BY <1>7, <1>8, <1>9, <1>11
<1>14. \A i \in 1 .. Len(rest) :
         /\ rest[i] \in Range(ids) /\ rest[i] \in old \ {job}
         /\ LastCall(ds, rest[i]) = LastCall(cs, rest[i])
         /\ LastCall(cs, rest[i]) \in 1 .. Len(cs)
  <2>1. ASSUME NEW i \in 1 .. Len(rest) PROVE rest[i] \in Range(ids) \ {job}
    BY <1>5, <1>7 DEF Range
  <2>2. \A i \in 1 .. Len(rest) : rest[i] \in old \ {job}
    BY <1>3, <2>1
  <2>3. \A k \in old : LastCall(cs, k) \in 1 .. Len(cs)
    BY LastCallIs
  <2> QED BY <1>1, <2>1, <2>2, <2>3
<1>15. \A i, j \in 1 .. Len(rest) :
         i < j => LastCall(cs, rest[i]) > LastCall(cs, rest[j])
  BY <1>3, <1>5
<1>16. Len(new) = IF Cardinality(Range(ds)) < MaxStored
                  THEN Cardinality(Range(ds)) ELSE MaxStored
  <2>1. IsFiniteSet(old) /\ Cardinality(old) \in Nat
    <3>1. cs \in Surjection(1 .. Len(cs), old)
      <4>1. cs \in [1 .. Len(cs) -> old]
        BY <1>2, LenProperties DEF Range
      <4> QED BY <1>2, <4>1 DEF Surjection, Range
    <3>2. IsFiniteSet(1 .. Len(cs))
      BY <1>2, FS_Interval
    <3>3. IsFiniteSet(old)
      BY <3>1, <3>2, FS_Surjection
    <3> QED BY <3>3, FS_CardinalityType
  <2>2. Cardinality(Range(ds)) =
          IF job \in old THEN Cardinality(old) ELSE Cardinality(old) + 1
    BY <1>1, <2>1, FS_AddElement
  <2>3. CASE Cardinality(old) <= MaxStored
    <3>1. Len(ids) = Cardinality(old)
      BY <1>2, <1>3, <2>1, <2>3
    <3>2. Range(ids) = old
      <4>1. ids \in Bijection(1 .. Len(ids), Range(ids))
        <5>1. ids \in [1 .. Len(ids) -> Range(ids)]
          BY <1>2, LenProperties DEF Range
        <5> QED BY <1>2, <1>4, <5>1
              DEF Bijection, Injection, Surjection, IsInjective, Range
      <4>2. Cardinality(Range(ids)) = Len(ids)
        BY <1>2, <4>1, FS_CountingElements DEF ExistsBijection
      <4> QED BY <1>3, <2>1, <3>1, <4>2, FS_Subset
    <3>3. Len(rest) + 1 = Cardinality(Range(ds))
      BY <1>2, <1>5, <2>1, <2>2, <3>1, <3>2
    <3> QED BY <1>10, <1>11, <3>3
  <2>4. CASE ~ (Cardinality(old) <= MaxStored)
    <3>1. Len(ids) = MaxStored
      BY <1>2, <1>3, <2>1, <2>4
    <3>2. ~ (Len(rest) + 1 < MaxStored)
      BY <1>2, <1>5, <3>1
    <3>3. ~ (Cardinality(Range(ds)) < MaxStored)
      BY <1>2, <2>1, <2>2, <2>4
    <3> QED BY <1>10, <1>11, <3>2, <3>3
  <2> QED BY <2>3, <2>4
<1>17. ASSUME NEW i \in 1 .. m, NEW j \in 1 .. m, i < j
       PROVE  LastCall(ds, new[i]) > LastCall(ds, new[j])
  <2>1. j \in 2 .. m
    BY <1>7, <1>9, <1>17
  <2>2. /\ new[j] = rest[j - 1] /\ j - 1 \in 1 .. Len(rest)
        /\ LastCall(ds, new[j]) = LastCall(cs, rest[j - 1])
        /\ LastCall(cs, rest[j - 1]) \in 1 .. Len(cs)
    BY <1>13, <1>14, <2>1
  <2>3. CASE i = 1
    BY <1>1, <1>2, <1>13, <2>2, <2>3 DEF ds
  <2>4. CASE i # 1
    <3>1. i \in 2 .. m
      BY <1>7, <1>9, <2>4
    <3>2. /\ new[i] = rest[i - 1] /\ i - 1 \in 1 .. Len(rest)
          /\ LastCall(ds, new[i]) = LastCall(cs, rest[i - 1])
      BY <1>13, <1>14, <3>1
    <3>3. i - 1 < j - 1
      BY <1>7, <1>9, <1>17
    <3> QED BY <1>15, <2>2, <3>2, <3>3
  <2> QED BY <2>3, <2>4
<1>18. Range(new) \subseteq Range(ds)
  <2>1. ASSUME NEW i \in 1 .. m PROVE new[i] \in Range(ds)
    <3>1. CASE i = 1
      BY <1>1, <1>13, <3>1
    <3>2. CASE i # 1
      <4>1. i \in 2 .. m
        BY <1>7, <1>9, <3>2
      <4> QED BY <1>1, <1>13, <1>14, <4>1
    <3> QED BY <3>1, <3>2
  <2> QED BY <1>12, <2>1 DEF Range
<1>19. ASSUME NEW k \in Range(ds) \ Range(new), NEW i \in 1 .. m
       PROVE  LastCall(ds, new[i]) > LastCall(ds, k)
  <2>1. 1 \in DOMAIN new
    BY <1>7, <1>9, <1>12
  <2>2. k # job
    BY <1>13, <2>1 DEF Range
  <2>3. /\ k \in old \ {job} /\ LastCall(ds, k) = LastCall(cs, k)
        /\ LastCall(cs, k) \in 1 .. Len(cs)
    BY <1>1, <2>2, LastCallIs
  <2>4. CASE i = 1
    BY <1>1, <1>2, <1>13, <2>3, <2>4
  <2>5. CASE i # 1
    <3>1. i \in 2 .. m
      BY <1>7, <1>9, <2>5
    <3>2. /\ new[i] = rest[i - 1] /\ i - 1 \in 1 .. Len(rest)
          /\ rest[i - 1] \in Range(ids)
          /\ LastCall(ds, new[i]) = LastCall(cs, rest[i - 1])
      BY <1>13, <1>14, <3>1
    <3>3. CASE k \notin Range(ids)
      <4>1. PICK q \in 1 .. Len(ids) : ids[q] = rest[i - 1]
        BY <1>2, <3>2 DEF Range
      <4>2. LastCall(cs, ids[q]) > LastCall(cs, k)
        BY <1>3, <2>3, <3>3
      <4> QED BY <2>3, <3>2, <4>1, <4>2
    <3>4. CASE k \in Range(ids)
      <4>1. k \in Range(rest)
        BY <1>5, <2>2, <3>4
      <4>2. PICK r \in 1 .. Len(rest) : rest[r] = k
        BY <1>7, <4>1 DEF Range
      <4>3. ~ (r + 1 <= m)
        <5>1. ASSUME r + 1 <= m PROVE FALSE
          <6>1. r + 1 \in 2 .. m /\ r + 1 - 1 = r
            BY <1>7, <1>9, <5>1
          <6>2. new[r + 1] = k /\ r + 1 \in DOMAIN new
            BY <1>7, <1>9, <1>12, <1>13, <4>2, <6>1
          <6> QED BY <6>2 DEF Range
        <5> QED BY <5>1
      <4>4. i - 1 < r
        BY <1>7, <1>9, <4>3
      <4>5. LastCall(cs, rest[i - 1]) > LastCall(cs, rest[r])
        BY <1>15, <3>2, <4>4
      <4> QED BY <2>3, <3>2, <4>2, <4>5
    <3> QED BY <3>3, <3>4
  <2> QED BY <2>4, <2>5
<1>20. IsRecent(new, ds)
  BY <1>12, <1>16, <1>17, <1>18, <1>19 DEF IsRecent
<1> QED BY <1>11, <1>20 DEF new, ds

-----------------------------------------------------------------------------
(* The theorems.                                                           *)

\* The invariant holds in every state.
THEOREM Invariance == Spec => []Inv
<1>1. Init => Inv
  BY InitInv
<1>2. Inv /\ [Next]_vars => Inv'
  BY StepKeepsInv
<1> QED BY <1>1, <1>2, PTL DEF Spec

\* However often the user submits a region and a category in an hour, edits the
\* fields, loses answers and submits again, they get one job: the key that the
\* form makes in that hour is always the same (lib/jobs.ts:73-86).
THEOREM AnHourGetsOneJob == Spec => []OneJobAnHour
<1>1. ASSUME Inv, NEW a \in jobs, NEW b \in jobs,
             a.asked = b.asked, Hour(a.at) = Hour(b.at)
      PROVE  a = b
  <2>1. /\ a.asked \in Fields /\ b.asked \in Fields /\ a.at \in Times /\ b.at \in Times
        /\ JobsOK(jobs)
    BY <1>1 DEF Inv, FormTypeOK, Row
  <2>2. Key(a.asked, a.at) = Key(b.asked, b.at)
    BY <1>1, <2>1, KeyTells
  <2> QED BY <2>1, <2>2 DEF JobsOK
<1>2. Inv => OneJobAnHour
  BY <1>1 DEF OneJobAnHour
<1> QED BY <1>2, Invariance, PTL

\* An answer is the job of what was asked for when it was asked, whatever the
\* fields show by then: region, category and hour can be told apart in the key,
\* although they are written with nothing between them (job-form.tsx:41-53).
THEOREM TheAnswerIsAsked == Spec => []AnswerIsAsked
<1>1. ASSUME Inv, NEW i \in DOMAIN requests, requests[i].answer \in JobIds
      PROVE  \E row \in jobs : /\ row.job = requests[i].answer
                               /\ row.asked = requests[i].asked
                               /\ Hour(row.at) = Hour(requests[i].at)
  <2>1. requests[i] \in Request
    BY <1>1, LenProperties, ElementOfSeq DEF Inv, FormTypeOK
  <2>2. PICK row \in jobs : /\ row.job = requests[i].answer
                            /\ row.key = Key(requests[i].asked, requests[i].at)
    BY <1>1 DEF Inv, AnswerOK
  <2>3. /\ row.asked \in Fields /\ row.at \in Times
        /\ row.key = Key(row.asked, row.at)
        /\ requests[i].asked \in Fields /\ requests[i].at \in Times
    BY <1>1, <2>1 DEF Inv, FormTypeOK, JobsOK, Row, Request
  <2>4. row.asked = requests[i].asked /\ Hour(row.at) = Hour(requests[i].at)
    <3>1. Key(row.asked, row.at) = Key(requests[i].asked, requests[i].at)
      BY <2>2, <2>3
    <3> QED BY <2>3, <3>1, KeyTells
  <2> QED BY <2>2, <2>4
<1>2. Inv => AnswerIsAsked
  BY <1>1 DEF AnswerIsAsked
<1> QED BY <1>2, Invariance, PTL

\* Requests for different regions or categories, or of different hours, are
\* never answered with the same job (lib/jobs.ts:73-86).
THEOREM NoJobIsShared ==
  Spec => [](\A i, j \in DOMAIN requests :
               requests[i].answer \in JobIds /\ requests[i].answer = requests[j].answer =>
                 /\ requests[i].asked = requests[j].asked
                 /\ Hour(requests[i].at) = Hour(requests[j].at))
<1> DEFINE Apart ==
      \A i, j \in DOMAIN requests :
        requests[i].answer \in JobIds /\ requests[i].answer = requests[j].answer =>
          /\ requests[i].asked = requests[j].asked
          /\ Hour(requests[i].at) = Hour(requests[j].at)
<1>1. ASSUME Inv, AnswerIsAsked, NEW i \in DOMAIN requests, NEW j \in DOMAIN requests,
             requests[i].answer \in JobIds, requests[i].answer = requests[j].answer
      PROVE  /\ requests[i].asked = requests[j].asked
             /\ Hour(requests[i].at) = Hour(requests[j].at)
  <2>1. PICK a \in jobs : /\ a.job = requests[i].answer /\ a.asked = requests[i].asked
                          /\ Hour(a.at) = Hour(requests[i].at)
    BY <1>1 DEF AnswerIsAsked
  <2>2. PICK b \in jobs : /\ b.job = requests[j].answer /\ b.asked = requests[j].asked
                          /\ Hour(b.at) = Hour(requests[j].at)
    BY <1>1 DEF AnswerIsAsked
  <2>3. a = b
    BY <1>1, <2>1, <2>2 DEF Inv, JobsOK
  <2> QED BY <2>1, <2>2, <2>3
<1>2. Inv /\ AnswerIsAsked => Apart
  BY <1>1
<1>3. Spec => []Apart
  <2> HIDE DEF Apart
  <2> QED BY <1>2, Invariance, TheAnswerIsAsked, PTL
<1> QED BY <1>3

\* The browser keeps the jobs it was last answered with, each once and newest
\* first, as many as it has room for, in whatever order the answers come
\* (jobs-list.tsx:31-41).
THEOREM TheRecentAreKept == Spec => []KeepsTheRecent
<1> DEFINE Recent == /\ calls \in Seq(JobIds) /\ stored \in Seq(JobIds)
                     /\ IsRecent(stored, calls)
<1>1. Init => Recent
  <2>1. /\ <<>> \in Seq(JobIds) /\ Len(<<>>) = 0 /\ DOMAIN <<>> = {} /\ Range(<<>>) = {}
    BY EmptySeq DEF Range
  <2>2. Cardinality({}) = 0 /\ MaxStored \in Nat \ {0}
    BY FS_EmptySet, StorageAssumption
  <2>3. Cardinality(Range(<<>>)) = 0 /\ 0 < MaxStored
    BY <2>1, <2>2
  <2>4. \A job \in Range(<<>>) : FALSE
    BY <2>1
  <2>5. IsRecent(<<>>, <<>>)
    BY <2>1, <2>3, <2>4 DEF IsRecent
  <2> QED BY <2>1, <2>5 DEF Init
<1>2. Recent /\ [Next]_vars => Recent'
  <2> SUFFICES ASSUME Recent, [Next]_vars PROVE Recent'
    OBVIOUS
  <2>1. ASSUME NEW i \in DOMAIN requests, Answered(i) PROVE Recent'
    <3>1. PICK job \in JobIds : stored' = storeJobId(stored, job) /\ calls' = Append(calls, job)
      BY <2>1 DEF Answered
    <3> QED BY <3>1, NextCall, StoreKeepsRecent
  <2>2. CASE UNCHANGED <<stored, calls>>
    BY <2>2
  <2>3. CASE Edit \/ handleSubmit \/ Navigate \/ Reload \/ TimePasses \/ UNCHANGED vars
    BY <2>2, <2>3 DEF Edit, handleSubmit, Navigate, Reload, TimePasses, vars
  <2>4. ASSUME NEW i \in DOMAIN requests, Serve(i) \/ Failed(i) PROVE Recent'
    BY <2>2, <2>4 DEF Serve, Failed
  <2> QED BY <2>1, <2>3, <2>4 DEF Next, RequestEnds
<1>3. Recent => KeepsTheRecent
  BY DEF KeepsTheRecent
<1> QED BY <1>1, <1>2, <1>3, PTL DEF Spec

-----------------------------------------------------------------------------
(* The list of jobs, over the same storage: JobsList, whose jobs and       *)
(* loading are rows and spinning here.                                     *)

CONSTANTS Gone, MaxChanges, MaxPolls, MaxFaults

VARIABLES rows, changes, polls, spinning, refreshing, lastUpdated, faults

List == INSTANCE JobsList WITH jobs <- rows, loading <- spinning

\* A poll without its bounds.
PollRecord ==
  [ids : Seq(JobIds), alone : BOOLEAN, reply : [JobIds -> Nat \cup {-1, -2}]]

\* What is known of a job is not ahead of it, and a job has one row's worth.
RowsOK(rs, levels) ==
  /\ \A r \in DOMAIN rs : /\ rs[r].job \in JobIds /\ rs[r].level \in Nat
                          /\ rs[r].level <= levels[rs[r].job]
  /\ \A r, s \in DOMAIN rs : rs[r].job = rs[s].job => rs[r].level = rs[s].level

\* Replies are not ahead of their jobs, and those of a poll that is alone not
\* behind the rows.
PollOK(poll, rs, levels) ==
  /\ \A job \in JobIds : poll.reply[job] \in Nat => poll.reply[job] <= levels[job]
  /\ poll.alone =>
       \A r \in DOMAIN rs : poll.reply[rs[r].job] \in Nat =>
          rs[r].level <= poll.reply[rs[r].job]

\* The inductive invariant: a poll that is alone is the only one in flight.
ListInv ==
  /\ stored \in Seq(JobIds) /\ polls \in Seq(PollRecord)
  /\ changes \in [JobIds -> Nat]
  /\ RowsOK(rows, changes)
  /\ \A i \in 1 .. Len(polls) : PollOK(polls[i], rows, changes)
  /\ \A i \in 1 .. Len(polls) : polls[i].alone => Len(polls) = 1

-----------------------------------------------------------------------------

\* Numbers can be listed in their order, and InOrder lists them.
LEMMA OrderExists ==
  ASSUME NEW S \in SUBSET Nat, IsFiniteSet(S)
  PROVE  \E order \in SetToSeqs(S) :
           \A j, k \in DOMAIN order : j < k => order[j] < order[k]
<1> DEFINE c == Cardinality(S)
           upto(x) == { y \in S : y <= x }
           place == [x \in S |-> Cardinality(upto(x))]
<1>1. c \in Nat
  BY FS_CardinalityType
<1>2. ASSUME NEW x \in S PROVE IsFiniteSet(upto(x)) /\ place[x] \in 1 .. c
  <2>1. upto(x) \in SUBSET S
    OBVIOUS
  <2>2. IsFiniteSet(upto(x)) /\ Cardinality(upto(x)) <= c
    BY <2>1, FS_Subset
  <2>3. x \in upto(x)
    OBVIOUS
  <2>4. Cardinality(upto(x)) \in Nat /\ Cardinality(upto(x)) # 0
    BY <2>2, <2>3, FS_CardinalityType, FS_EmptySet
  <2> QED BY <1>1, <2>2, <2>4
<1>3. ASSUME NEW x \in S, NEW y \in S, x < y PROVE place[x] < place[y]
  <2>1. upto(x) \in SUBSET upto(y)
    <3>1. \A z \in Nat : z <= x => z <= y
      BY <1>3
    <3> QED BY <3>1
  <2>2. upto(x) # upto(y)
    BY <1>3
  <2>3. Cardinality(upto(x)) <= Cardinality(upto(y)) /\ Cardinality(upto(x)) # Cardinality(upto(y))
    BY <1>2, <2>1, <2>2, FS_Subset
  <2> HIDE DEF upto
  <2>4. place[x] \in 1 .. c /\ place[y] \in 1 .. c
    BY <1>2
  <2> QED BY <1>1, <2>3, <2>4
<1> HIDE DEF place
<1>4. place \in Injection(S, 1 .. c)
  <2>1. place \in [S -> 1 .. c]
    BY <1>2 DEF place
  <2>2. ASSUME NEW x \in S, NEW y \in S, place[x] = place[y] PROVE x = y
    <3>0. place[x] \in 1 .. c
      BY <1>2 DEF place
    <3>1. place[x] \in Nat
      BY <1>1, <3>0
    <3>2. ~ (place[x] < place[y]) /\ ~ (place[y] < place[x])
      BY <2>2, <3>1
    <3> QED BY <1>3, <3>2
  <2> QED BY <2>1, <2>2 DEF Injection, IsInjective
<1>5. place \in Surjection(S, 1 .. c)
  <2>1. IsFiniteSet(1 .. c) /\ Cardinality(1 .. c) = c
    BY <1>1, FS_Interval
  <2> QED BY <1>4, <2>1, FS_Injection
<1> DEFINE order == [k \in 1 .. c |-> CHOOSE x \in S : place[x] = k]
<1>6. ASSUME NEW k \in 1 .. c PROVE order[k] \in S /\ place[order[k]] = k
  <2>1. \E x \in S : place[x] = k
    BY <1>5 DEF Surjection
  <2> QED BY <2>1
<1>7. DOMAIN order = 1 .. c
  OBVIOUS
<1>8. order \in [1 .. c -> S]
  BY <1>6
<1> HIDE DEF order
<1>9. order \in SetToSeqs(S)
  <2>1. \A i, j \in 1 .. c : i # j => order[i] # order[j]
    BY <1>6
  <2> QED BY <1>8, <2>1 DEF SetToSeqs
<1>10. ASSUME NEW j \in DOMAIN order, NEW k \in DOMAIN order, j < k
       PROVE  order[j] < order[k]
  <2>1. /\ order[j] \in S /\ order[k] \in S /\ j \in Int /\ k \in Int
        /\ place[order[j]] = j /\ place[order[k]] = k
    BY <1>6, <1>7
  <2>2. ~ (order[k] < order[j]) /\ order[k] # order[j]
    <3>1. order[k] < order[j] => k < j
      BY <1>3, <2>1
    <3> QED BY <1>10, <2>1, <3>1
  <2>3. order[j] \in Nat /\ order[k] \in Nat
    BY <2>1
  <2> QED BY <2>2, <2>3
<1> QED BY <1>9, <1>10

\* What filter keeps is at the places it keeps.
LEMMA KeptPlaces ==
  ASSUME NEW S, NEW list \in Seq(S), NEW places \in SUBSET DOMAIN list,
         NEW k \in DOMAIN List!Kept(list, places)
  PROVE  \E i \in places : List!Kept(list, places)[k] = list[i]
<1> DEFINE order == List!InOrder(places)
<1>1. DOMAIN list = 1 .. Len(list) /\ Len(list) \in Nat
  BY LenProperties
<1>2. IsFiniteSet(1 .. Len(list))
  BY <1>1, FS_Interval
<1>3. IsFiniteSet(places)
  BY <1>1, <1>2, FS_Subset
<1>4. places \in SUBSET Nat
  <2>1. \A i \in 1 .. Len(list) : i \in Nat
    BY <1>1
  <2> QED BY <1>1, <2>1
<1>5. order \in SetToSeqs(places)
  <2>1. List!SetToSeqs(places) = SetToSeqs(places)
    BY DEF List!SetToSeqs, SetToSeqs, List!Cardinality, Cardinality
  <2> QED BY <1>3, <1>4, <2>1, OrderExists DEF List!InOrder
<1>6. k \in DOMAIN order /\ List!Kept(list, places)[k] = list[order[k]]
  BY DEF List!Kept
<1> HIDE DEF order
<1>7. order[k] \in places
  BY <1>5, <1>6 DEF SetToSeqs
<1> QED BY <1>6, <1>7

\* A row of a poll is a job of it that was answered, as it was answered.
LEMMA RowsOfPoll ==
  ASSUME NEW poll \in PollRecord, NEW r \in DOMAIN List!Rows(poll),
         \A id \in Range(poll.ids) : poll.reply[id] # -1
  PROVE  LET row == List!Rows(poll)[r] IN
         /\ row.job \in Range(poll.ids) /\ row.job \in JobIds
         /\ row.level = poll.reply[row.job] /\ row.level \in Nat
<1> DEFINE places == { i \in DOMAIN poll.ids : poll.reply[poll.ids[i]] # List!Rejected }
           kept == List!Fulfilled(poll)
<1>1. poll.ids \in Seq(JobIds) /\ poll.reply \in [JobIds -> Nat \cup {-1, -2}]
  BY DEF PollRecord
<1>2. kept = List!Kept(poll.ids, places)
  BY DEF List!Fulfilled
<1>3. r \in DOMAIN kept /\ List!Rows(poll)[r] = [job |-> kept[r], level |-> poll.reply[kept[r]]]
  BY DEF List!Rows
<1> HIDE DEF places, kept
<1>4. PICK i \in places : kept[r] = poll.ids[i]
  <2>1. places \in SUBSET DOMAIN poll.ids
    BY DEF places
  <2> QED BY <1>1, <1>2, <1>3, <2>1, KeptPlaces
<1>5. i \in DOMAIN poll.ids /\ poll.reply[poll.ids[i]] # -2
  BY DEF places, List!Rejected
<1>6. poll.ids[i] \in JobIds /\ poll.ids[i] \in Range(poll.ids)
  BY <1>1, <1>5, LenProperties, ElementOfSeq DEF Range
<1>7. poll.reply[poll.ids[i]] \in Nat
  BY <1>1, <1>5, <1>6
<1> QED BY <1>3, <1>4, <1>6, <1>7

-----------------------------------------------------------------------------

\* A poll starts.
LEMMA StartKeepsList ==
  ASSUME ListInv, NEW silent \in BOOLEAN, List!Start(silent)
  PROVE  ListInv'
<1>1. UNCHANGED <<stored, changes>>
  BY DEF List!Start
<1>2. CASE stored = <<>>
  <2>1. rows' = <<>> /\ UNCHANGED polls
    BY <1>2 DEF List!Start
  <2>2. DOMAIN rows' = {}
    BY <2>1, EmptySeq
  <2> QED BY <1>1, <2>1, <2>2 DEF ListInv, RowsOK, PollOK
<1>3. CASE stored # <<>>
  <2> DEFINE n == Len(polls)
             old == [i \in DOMAIN polls |-> [polls[i] EXCEPT !.alone = FALSE]]
             new == [List!NewPoll EXCEPT !.alone = polls = <<>>]
  <2>1. polls' = Append(old, new) /\ UNCHANGED rows
    BY <1>3 DEF List!Start
  <2>2. n \in Nat /\ DOMAIN polls = 1 .. n /\ \A i \in 1 .. n : polls[i] \in PollRecord
    BY LenProperties, ElementOfSeq DEF ListInv
  <2>3. /\ new \in PollRecord /\ new.alone = (polls = <<>>)
        /\ \A job \in JobIds : new.reply[job] = -1
    <3>1. stored \in Seq(JobIds) /\ -1 \in Nat \cup {-1, -2}
      BY DEF ListInv
    <3>2. [job \in JobIds |-> -1] \in [JobIds -> Nat \cup {-1, -2}]
      BY <3>1
    <3> QED BY <3>1, <3>2 DEF List!NewPoll, List!Pending, PollRecord
  <2>4. \A i \in 1 .. n : /\ old[i] \in PollRecord /\ old[i].alone = FALSE
                          /\ old[i].reply = polls[i].reply
    BY <2>2 DEF PollRecord
  <2>5. old \in [1 .. n -> PollRecord] /\ DOMAIN old = 1 .. n
    BY <2>2, <2>4
  <2> HIDE DEF n, new, old
  <2>6. old \in Seq(PollRecord)
    BY <2>2, <2>5, SeqDef
  <2>7. Len(old) = n
    BY <2>2, <2>5, <2>6, LenProperties
  <2>8. /\ polls' \in Seq(PollRecord) /\ Len(polls') = n + 1
        /\ \A i \in 1 .. n : polls'[i] = old[i]
        /\ polls'[n + 1] = new
    BY <2>1, <2>3, <2>6, <2>7, AppendProperties
  <2>9. ASSUME NEW i \in 1 .. Len(polls')
        PROVE  PollOK(polls'[i], rows', changes') /\ (polls'[i].alone => Len(polls') = 1)
    <3>1. CASE i = n + 1
      <4>1. \A job \in JobIds : ~ (new.reply[job] \in Nat)
        BY <2>3
      <4>2. \A r \in DOMAIN rows : rows[r].job \in JobIds
        BY DEF ListInv, RowsOK
      <4>3. PollOK(new, rows', changes')
        BY <2>1, <4>1, <4>2 DEF PollOK
      <4>4. new.alone => n = 0
        BY <2>3, EmptySeq DEF n
      <4> QED BY <2>2, <2>8, <3>1, <4>3, <4>4
    <3>2. CASE i # n + 1
      <4>1. i \in 1 .. n
        BY <2>2, <2>8, <3>2
      <4>2. PollOK(polls[i], rows, changes)
        BY <4>1 DEF ListInv, n
      <4>3. PollOK(old[i], rows', changes')
        BY <1>1, <2>4, <4>1, <4>2 DEF PollOK
      <4> QED BY <2>4, <2>8, <4>1, <4>3
    <3> QED BY <3>1, <3>2
  <2>10. RowsOK(rows', changes')
    BY <1>1, <2>1 DEF ListInv, RowsOK
  <2> QED BY <1>1, <2>8, <2>9, <2>10 DEF ListInv
<1> QED BY <1>2, <1>3

\* What a reply does: it is as far as the job is, and a last one gives rows.
LEMMA ReplyKeepsList ==
  ASSUME ListInv, NEW i \in 1 .. Len(polls), NEW job \in JobIds, List!Reply(i, job)
  PROVE  ListInv' /\ (polls[i].alone => List!NoRowGoesBack)
<1> DEFINE n == Len(polls)
<1>1. /\ n \in Nat /\ DOMAIN polls = 1 .. n /\ polls \in Seq(PollRecord)
      /\ \A k \in 1 .. n : polls[k] \in PollRecord
      /\ changes \in [JobIds -> Nat]
  BY LenProperties, ElementOfSeq DEF ListInv
<1>2. UNCHANGED <<stored, changes>> /\ polls[i].reply[job] = -1
  BY DEF List!Reply, List!Pending
<1>3. PICK reply \in {changes[job], -2} : List!Replied(i, job, reply)
  BY DEF List!Reply, List!NoStore, List!Rejected
<1> DEFINE poll == [polls[i] EXCEPT !.reply[job] = reply]
<1>4. /\ poll \in PollRecord /\ poll.alone = polls[i].alone /\ poll.ids = polls[i].ids
      /\ poll.reply[job] = reply
      /\ \A other \in JobIds : other # job => poll.reply[other] = polls[i].reply[other]
      /\ reply \in Nat => reply = changes[job]
  <2>1. changes[job] \in Nat /\ reply \in Nat \cup {-1, -2}
    BY <1>1, <1>3
  <2>2. polls[i] \in PollRecord
    BY <1>1
  <2> QED BY <1>3, <2>1, <2>2 DEF PollRecord
<1>5. PollOK(poll, rows, changes)
  <2>1. PollOK(polls[i], rows, changes) /\ RowsOK(rows, changes)
    BY DEF ListInv
  <2>2. \A r \in DOMAIN rows : rows[r].job \in JobIds /\ rows[r].level <= changes[rows[r].job]
    BY <2>1 DEF RowsOK
  <2>3. \A other \in JobIds : poll.reply[other] \in Nat => poll.reply[other] <= changes[other]
    BY <1>1, <1>4, <2>1 DEF PollOK
  <2>4. ASSUME poll.alone, NEW r \in DOMAIN rows, poll.reply[rows[r].job] \in Nat
        PROVE  rows[r].level <= poll.reply[rows[r].job]
    BY <1>4, <2>1, <2>2, <2>4 DEF PollOK
  <2> HIDE DEF poll
  <2> QED BY <2>3, <2>4 DEF PollOK
<1>6. CASE \E id \in Range(poll.ids) : poll.reply[id] = -1
  <2>1. polls' = [polls EXCEPT ![i] = poll] /\ UNCHANGED rows
    BY <1>3, <1>6 DEF List!Replied, List!Pending, List!Range, Range
  <2> HIDE DEF n, poll
  <2>2. /\ polls' \in Seq(PollRecord) /\ Len(polls') = n
        /\ \A k \in 1 .. n : polls'[k] = IF k = i THEN poll ELSE polls[k]
    BY <1>1, <1>4, <2>1, ExceptSeq DEF n
  <2>3. ASSUME NEW k \in 1 .. n
        PROVE  PollOK(polls'[k], rows', changes') /\ (polls'[k].alone => n = 1)
    <3>1. PollOK(polls[k], rows, changes) /\ (polls[k].alone => n = 1) /\ (polls[i].alone => n = 1)
      BY DEF ListInv, n
    <3>2. PollOK(polls'[k], rows, changes)
      BY <1>5, <2>2, <3>1
    <3>3. PollOK(polls'[k], rows', changes')
      BY <1>2, <2>1, <3>2 DEF PollOK
    <3> QED BY <1>4, <2>2, <3>1, <3>3
  <2>4. RowsOK(rows', changes')
    BY <1>2, <2>1 DEF ListInv, RowsOK
  <2>5. List!NoRowGoesBack
    <3>1. ASSUME NEW r \in DOMAIN rows, NEW s \in DOMAIN rows', rows[r].job = rows'[s].job
          PROVE  rows[r].level <= rows'[s].level
      <4>1. rows[r].level = rows[s].level /\ rows[r].level \in Nat
        BY <2>1, <3>1 DEF ListInv, RowsOK
      <4> QED BY <2>1, <4>1
    <3> QED BY <3>1 DEF List!NoRowGoesBack
  <2>6. ListInv'
    BY <1>2, <2>2, <2>3, <2>4 DEF ListInv
  <2> QED BY <2>5, <2>6
<1>7. CASE \A id \in Range(poll.ids) : poll.reply[id] # -1
  <2>1. polls' = RemoveAt(polls, i) /\ rows' = List!Rows(poll)
    <3>1. List!RemoveAt(polls, i) = RemoveAt(polls, i)
      BY DEF List!RemoveAt, RemoveAt
    <3> QED BY <1>3, <1>7, <3>1 DEF List!Replied, List!Pending, List!Range, Range
  <2> HIDE DEF n, poll
  <2>2. ASSUME NEW r \in DOMAIN rows'
        PROVE  /\ rows'[r].job \in JobIds /\ rows'[r].level \in Nat
               /\ rows'[r].level = poll.reply[rows'[r].job]
    BY <1>4, <1>7, <2>1, <2>2, RowsOfPoll
  <2>3. RowsOK(rows', changes')
    <3>1. ASSUME NEW r \in DOMAIN rows' PROVE rows'[r].level <= changes'[rows'[r].job]
      BY <1>2, <1>5, <2>2 DEF PollOK
    <3>2. ASSUME NEW r \in DOMAIN rows', NEW s \in DOMAIN rows', rows'[r].job = rows'[s].job
          PROVE  rows'[r].level = rows'[s].level
      BY <2>2, <3>2
    <3> QED BY <2>2, <3>1, <3>2 DEF RowsOK
  <2>4. ASSUME polls[i].alone PROVE List!NoRowGoesBack
    <3>1. ASSUME NEW r \in DOMAIN rows, NEW s \in DOMAIN rows', rows[r].job = rows'[s].job
          PROVE  rows[r].level <= rows'[s].level
      BY <1>4, <1>5, <2>2, <2>4, <3>1 DEF PollOK
    <3> QED BY <3>1 DEF List!NoRowGoesBack
  <2>5. /\ polls' \in Seq(PollRecord) /\ Len(polls') = n - 1
        /\ \A k \in 1 .. n - 1 : polls'[k] = IF k < i THEN polls[k] ELSE polls[k + 1]
    BY <1>1, <2>1, Removed DEF n
  <2>6. ASSUME NEW k \in 1 .. n - 1
        PROVE  PollOK(polls'[k], rows', changes') /\ (polls'[k].alone => n - 1 = 1)
    <3>1. PICK m \in 1 .. n : polls'[k] = polls[m]
      <4>1. k \in 1 .. n /\ k + 1 \in 1 .. n
        BY <1>1
      <4> QED BY <2>5, <4>1
    <3>2. n # 1
      BY <1>1
    <3>3. PollOK(polls[m], rows, changes) /\ ~ polls[m].alone
      BY <3>2 DEF ListInv, n
    <3> QED BY <1>2, <3>1, <3>3 DEF PollOK
  <2>7. ListInv'
    BY <1>2, <1>1, <2>3, <2>5, <2>6 DEF ListInv
  <2> QED BY <2>4, <2>7
<1> QED BY <1>6, <1>7

\* A job changes: only forward.
LEMMA ChangeKeepsList ==
  ASSUME ListInv, NEW job \in JobIds, List!JobChanges(job)
  PROVE  ListInv'
<1>1. UNCHANGED <<stored, polls, rows>> /\ changes' = [changes EXCEPT ![job] = @ + 1]
  BY DEF List!JobChanges
<1>2. changes \in [JobIds -> Nat] /\ polls \in Seq(PollRecord)
  BY DEF ListInv
<1>3. changes' \in [JobIds -> Nat] /\ \A id \in JobIds : changes[id] <= changes'[id]
  BY <1>1, <1>2
<1>4. \A id \in JobIds, k \in Nat : k <= changes[id] => k <= changes'[id]
  BY <1>2, <1>3
<1>5. RowsOK(rows', changes')
  BY <1>1, <1>4 DEF ListInv, RowsOK
<1>6. ASSUME NEW i \in 1 .. Len(polls) PROVE PollOK(polls[i], rows', changes')
  BY <1>1, <1>4 DEF ListInv, PollOK
<1> QED BY <1>1, <1>3, <1>5, <1>6 DEF ListInv

\* Another tab stores a job.
LEMMA OtherTabKeepsList ==
  ASSUME ListInv, NEW job \in JobIds, List!Submit(job)
  PROVE  ListInv'
<1>1. UNCHANGED <<changes, polls, rows>> /\ stored' = List!storeJobId(stored, job)
  BY DEF List!Submit
<1>2. stored \in Seq(JobIds) /\ job \notin Range(stored)
  BY DEF ListInv, List!Submit, List!Range, Range
<1>3. stored' \in Seq(JobIds)
  <2> DEFINE full == <<job>> \o stored
             m == IF Len(full) < MaxStored THEN Len(full) ELSE MaxStored
  <2>1. List!Without(stored, job) = stored
    <3>1. \A i \in DOMAIN stored : stored[i] # job
      BY <1>2 DEF Range
    <3>2. DOMAIN stored = 1 .. Len(stored)
      BY <1>2, LenProperties
    <3> QED BY <3>1, <3>2 DEF List!Without, List!RemoveFirst
  <2>2. List!storeJobId(stored, job) = SubSeq(full, 1, m)
    BY <2>1 DEF List!storeJobId, List!Newest
  <2>3. full \in Seq(JobIds)
    BY <1>2, ConcatProperties
  <2> HIDE DEF full
  <2>4. m \in Int /\ 1 \in Int /\ \A k \in 1 .. m : full[k] \in JobIds
    <3>1. Len(full) \in Nat /\ MaxStored \in Nat
      BY <2>3, LenProperties, StorageAssumption
    <3>2. m \in Nat /\ m <= Len(full)
      BY <3>1
    <3> HIDE DEF m
    <3> QED BY <2>3, <3>1, <3>2, ElementOfSeq
  <2> HIDE DEF m
  <2> QED BY <1>1, <2>2, <2>4, SubSeqProperties
<1> QED BY <1>1, <1>3 DEF ListInv, RowsOK, PollOK

\* Every step, and what a step does while a poll is alone.
LEMMA ListStep ==
  ASSUME ListInv, [List!Next]_(List!vars)
  PROVE  ListInv' /\ ((\E i \in DOMAIN polls : polls[i].alone) => List!NoRowGoesBack)
<1>1. DOMAIN polls = 1 .. Len(polls)
  BY LenProperties DEF ListInv
<1>2. ASSUME rows' = rows \/ rows' = <<>> PROVE List!NoRowGoesBack
  <2>1. ASSUME NEW r \in DOMAIN rows, NEW s \in DOMAIN rows', rows[r].job = rows'[s].job
        PROVE  rows[r].level <= rows'[s].level
    <3>1. CASE rows' = <<>>
      <4>1. DOMAIN rows' = {}
        BY <3>1, EmptySeq
      <4> QED BY <2>1, <4>1
    <3>2. CASE rows' = rows
      <4>1. rows[r].level = rows[s].level /\ rows[r].level \in Nat
        BY <2>1, <3>2 DEF ListInv, RowsOK
      <4> QED BY <3>2, <4>1
    <3> QED BY <1>2, <3>1, <3>2
  <2> QED BY <2>1 DEF List!NoRowGoesBack
<1>3. CASE List!Interval \/ List!Refresh
  <2>1. PICK silent \in BOOLEAN : List!Start(silent)
    BY <1>3 DEF List!Interval, List!Refresh
  <2>2. rows' = rows \/ rows' = <<>>
    BY <2>1 DEF List!Start
  <2> QED BY <1>2, <2>1, <2>2, StartKeepsList
<1>4. CASE List!PollEnds
  <2>1. PICK i \in 1 .. Len(polls), job \in JobIds : List!Reply(i, job)
    BY <1>1, <1>4 DEF List!PollEnds
  <2>2. ListInv' /\ (polls[i].alone => List!NoRowGoesBack)
    BY <2>1, ReplyKeepsList
  <2>3. ASSUME NEW k \in DOMAIN polls, polls[k].alone PROVE polls[i].alone
    <3>1. k \in 1 .. Len(polls) /\ Len(polls) = 1
      BY <1>1, <2>3 DEF ListInv
    <3>2. k = 1 /\ i = 1
      BY <3>1
    <3> QED BY <2>3, <3>2
  <2> QED BY <2>2, <2>3
<1>5. ASSUME NEW job \in JobIds, List!JobChanges(job)
      PROVE  ListInv' /\ List!NoRowGoesBack
  BY <1>2, <1>5, ChangeKeepsList DEF List!JobChanges
<1>6. ASSUME NEW job \in JobIds, List!Submit(job)
      PROVE  ListInv' /\ List!NoRowGoesBack
  BY <1>2, <1>6, OtherTabKeepsList DEF List!Submit
<1>7. CASE UNCHANGED List!vars
  <2>1. UNCHANGED <<stored, changes, polls, rows>>
    BY <1>7 DEF List!vars
  <2>2. ListInv'
    BY <2>1 DEF ListInv, RowsOK, PollOK
  <2> QED BY <1>2, <2>1, <2>2
<1> QED BY <1>3, <1>4, <1>5, <1>6, <1>7 DEF List!Next

\* The first poll, if any, is alone and knows nothing.
LEMMA ListInit == List!Init => ListInv
<1>1. ASSUME List!Init PROVE ListInv
  <2>1. rows = <<>> /\ changes = [job \in JobIds |-> 0] /\ stored \in Seq(JobIds)
    <3>1. \A job \in JobIds : <<job>> \in Seq(JobIds)
      OBVIOUS
    <3>2. stored = <<>> \/ \E job \in JobIds : stored = <<job>>
      BY <1>1 DEF List!Init
    <3> QED BY <1>1, <3>1, <3>2, EmptySeq DEF List!Init
  <2>2. DOMAIN rows = {}
    BY <2>1, EmptySeq
  <2>3. RowsOK(rows, changes) /\ changes \in [JobIds -> Nat]
    BY <2>1, <2>2 DEF RowsOK
  <2>4. CASE polls = <<>>
    <3>1. polls \in Seq(PollRecord) /\ Len(polls) = 0
      BY <2>4, EmptySeq
    <3>2. 1 .. Len(polls) = {}
      BY <3>1
    <3> QED BY <2>1, <2>3, <3>1, <3>2 DEF ListInv
  <2>5. CASE polls = << List!NewPoll >>
    <3> DEFINE new == List!NewPoll
    <3>1. new \in PollRecord /\ \A job \in JobIds : new.reply[job] = -1
      <4>1. -1 \in Nat \cup {-1, -2}
        OBVIOUS
      <4>2. [job \in JobIds |-> -1] \in [JobIds -> Nat \cup {-1, -2}]
        BY <4>1
      <4> QED BY <2>1, <4>2 DEF List!NewPoll, List!Pending, PollRecord
    <3> HIDE DEF new
    <3>2. polls = <<new>>
      BY <2>5 DEF new
    <3>3. polls \in Seq(PollRecord) /\ Len(polls) = 1 /\ polls[1] = new
      BY <3>1, <3>2
    <3>4. PollOK(new, rows, changes)
      <4>1. \A job \in JobIds : ~ (new.reply[job] \in Nat)
        BY <3>1
      <4> QED BY <2>2, <4>1 DEF PollOK
    <3>5. \A i \in 1 .. Len(polls) : polls[i] = new
      BY <3>3
    <3> QED BY <2>1, <2>3, <3>3, <3>4, <3>5 DEF ListInv
  <2> QED BY <1>1, <2>4, <2>5 DEF List!Init
<1> QED BY <1>1

\* A poll that was in flight with no other takes no row back, however many jobs
\* there are, whatever failed and whatever came before it (jobs-list.tsx:72-91).
THEOREM NoPollGoesBack == List!Spec => List!SinglePollsAdvance
<1>1. List!Init => ListInv
  BY ListInit
<1>2. ListInv /\ [List!Next]_(List!vars) => ListInv'
  BY ListStep
<1>3. ListInv /\ [List!Next]_(List!vars) =>
        [(\E i \in DOMAIN polls : polls[i].alone) => List!NoRowGoesBack]_(List!vars)
  BY ListStep
<1> QED BY <1>1, <1>2, <1>3, PTL DEF List!Spec, List!SinglePollsAdvance

=============================================================================
