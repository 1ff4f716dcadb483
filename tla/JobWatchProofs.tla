--------------------------- MODULE JobWatchProofs ---------------------------
(***************************************************************************)
(* Proofs about JobWatch, for every number of streams, jobs, attempts and  *)
(* faults.                                                                 *)
(*                                                                         *)
(* Everything that carries a status of the job (the updates a stream has   *)
(* sent, what the page shows, an answer of getJobStatus) is a look at the  *)
(* row taken some time ago.  Inv says how old it can be: the row has since *)
(* only moved forward, and if it was at its end it has not moved at all.   *)
(* The page shows nothing newer than what its stream still holds for it,   *)
(* and asks for the whole job only before it has one or once it shows the  *)
(* end, so that neither can bring it back.                                 *)
(***************************************************************************)
EXTENDS JobWatchProperties, TLAPS, FiniteSetTheorems, SequenceTheorems

-----------------------------------------------------------------------------
(* The inductive invariant.                                                *)

RowTypeOK ==
  /\ state \in [JobIds -> States \cup {"absent"}]
  /\ attempt \in [JobIds -> 0 .. MaxAttempts]
  /\ inserted \in [JobIds -> Nat]
  /\ DOMAIN stored = JobIds
  /\ \A id \in JobIds : IsFiniteSet(stored[id])

\* The row's state is in its history.
HistoryOK == RowExists => \E h \in DOMAIN history : history[h] = state[Job]

\* A status read from the row, now or before.
Read(status) ==
  /\ RowExists
  /\ Rank[status.state] <= Rank[state[Job]]
  /\ IsEnd(status.state) => status = Current

StreamOK(s) ==
  /\ \A i \in DOMAIN stream[s].sent : Read(stream[s].sent[i])
  /\ stream[s].pc = "done" =>
        stream[s].sent # <<>> /\ IsEnd(LastState(stream[s]))

\* The page has one EventSource, and looks for a job in order to have one.
EventSourceOK ==
  /\ page.es # "open" => page.listening = {}
  /\ \A s, t \in page.listening : s = t
  /\ page.live => page.es \in {"connecting", "open"}
  /\ page.load # "loaded" => page.es = "closed"

\* What the page shows and what it has been answered was read from the row;
\* it asks for the job before it has one, or once it shows the end.
ShownOK ==
  /\ page.load = "loaded" <=> page.shown # NoStatus
  /\ page.load = "loaded" => Read(page.shown)
  /\ page.reply # NoReply => Read(page.reply.status)
  /\ page.load = "loaded" /\ page.asked => IsEnd(page.shown.state)
  /\ page.load = "loaded" /\ page.reply # NoReply =>
        IsEnd(page.shown.state) /\ IsEnd(page.reply.status.state)
  /\ ~ (page.load # "loaded" /\ page.asked /\ page.reply # NoReply)

\* No update on its way to the page is older than what the page shows.
NoneOlder(s) ==
  s \in page.listening =>
     \A i \in stream[s].taken + 1 .. Len(stream[s].sent) :
        Rank[page.shown.state] <= Rank[stream[s].sent[i].state]

Inv ==
  /\ TypeOK /\ RowTypeOK /\ HistoryOK
  /\ SentInOrder
  /\ \A s \in Streams : StreamOK(s) /\ NoneOlder(s)
  /\ EventSourceOK /\ ShownOK

-----------------------------------------------------------------------------
(* Ranks and statuses.                                                     *)

\* The ranks, and that the last of them is the end.
LEMMA RankDef ==
  /\ Rank \in [States -> 1 .. 4]
  /\ \A s \in States : IsEnd(s) <=> Rank[s] = 4
  /\ Rank["queued"] = 1 /\ Rank["running"] = 2 /\ Rank["retrying"] = 3
  BY DEF Rank, States, IsEnd

\* A state that is not the end is the only one of its rank.
LEMMA RankIsOne ==
  ASSUME NEW s \in States, NEW t \in States, ~ IsEnd(s), Rank[s] = Rank[t]
  PROVE  s = t
  BY DEF Rank, States, IsEnd

\* Nothing ranks above the end.
LEMMA EndsAreLast ==
  ASSUME NEW s \in States, NEW e \in {"done", "dead"}
  PROVE  e \in States /\ Rank[s] <= Rank[e]
  BY RankDef DEF States, IsEnd

\* A row that exists gives a status, which is read from it.
LEMMA CurrentIsRead ==
  ASSUME RowTypeOK, RowExists
  PROVE  /\ Current \in Status /\ Read(Current)
         /\ WholeJob \in JobStatus /\ WholeJob # NoReply
<1>1. state[Job] \in States /\ inserted[Job] \in Nat
  BY WatchAssumption DEF RowTypeOK, RowExists
<1>2. Current \in Status /\ Current.state = state[Job]
  BY <1>1 DEF Current, Status
<1>3. Read(Current)
  BY <1>1, <1>2, RankDef DEF Read
<1>4. attempt[Job] \in 0 .. MaxAttempts
  BY WatchAssumption DEF RowTypeOK
<1>5. WholeJob \in JobStatus
  BY <1>2, <1>4 DEF WholeJob, JobStatus
<1>6. WholeJob.status.state # NoReply.status.state
  BY <1>1, <1>2 DEF WholeJob, NoReply, NoStatus, States
<1> QED BY <1>2, <1>3, <1>5, <1>6

\* NoStatus is no status of a row.
LEMMA NoStatusIsNone ==
  /\ NoStatus \notin Status
  /\ \A status \in Status : status # NoStatus /\ status.state \in States
  BY DEF NoStatus, Status, States

-----------------------------------------------------------------------------
(* The row.                                                                *)

\* The row of a job moves forward, and no further than its end: what a status
\* says of it stays true.
LEMMA RowStep ==
  ASSUME Inv, Row!Next
  PROVE  /\ RowTypeOK'
         /\ RowExists => RowExists'
         /\ \A status \in Status : Read(status) => Read(status)'
<1> USE DEF Inv
<1>1. PICK id \in JobIds :
        \/ \E k \in Keys : Row!Submit(id, k)
        \/ Row!Start(id)
        \/ Row!Retry(id)
        \/ \E v \in VideoIds : Row!Store(id, v)
        \/ Row!Finish(id)
        \/ Row!Kill(id)
  BY DEF Row!Next
<1> DEFINE Forward ==
      \/ state'[Job] = state[Job] /\ inserted'[Job] = inserted[Job]
      \/ ~ RowExists /\ RowExists'
      \/ /\ state[Job] \in States \ {"done", "dead"} /\ state'[Job] \in States
         /\ Rank[state[Job]] <= Rank[state'[Job]]
<1>2. RowTypeOK' /\ Forward
  <2> USE WatchAssumption, RankDef
  <2>1. CASE \E k \in Keys : Row!Submit(id, k)
    BY <2>1 DEF Row!Submit, RowTypeOK, RowExists, States
  <2>2. CASE Row!Start(id)
    BY <2>2 DEF Row!Start, RowTypeOK, States
  <2>3. CASE Row!Retry(id)
    <3>1. attempt[id] + 1 \in 0 .. MaxAttempts
      BY <2>3 DEF Row!Retry, Row!Active, RowTypeOK
    <3> QED BY <2>3, <3>1 DEF Row!Retry, Row!Active, RowTypeOK, States
  <2>4. CASE \E v \in VideoIds : Row!Store(id, v)
    <3>1. PICK v \in VideoIds : Row!Store(id, v)
      BY <2>4
    <3>2. IsFiniteSet(stored[id] \cup {v})
      BY FS_AddElement DEF RowTypeOK
    <3> QED BY <3>1, <3>2 DEF Row!Store, RowTypeOK
  <2>5. CASE Row!Finish(id)
    <3>1. Row!Cardinality(stored[id]) \in Nat
      <4>1. Cardinality(stored[id]) \in Nat
        BY FS_CardinalityType DEF RowTypeOK
      <4>2. Row!Cardinality(stored[id]) = Cardinality(stored[id])
        BY DEF Row!Cardinality, Cardinality
      <4> QED BY <4>1, <4>2
    <3>2. RowTypeOK'
      BY <2>5, <3>1 DEF Row!Finish, RowTypeOK, States
    <3>3. CASE id = Job
      BY <2>5, <3>2, <3>3, EndsAreLast DEF Row!Finish, Row!Active, RowTypeOK, States
    <3>4. CASE id # Job
      BY <2>5, <3>2, <3>4 DEF Row!Finish, RowTypeOK
    <3> QED BY <3>3, <3>4
  <2>6. CASE Row!Kill(id)
    <3>1. RowTypeOK'
      BY <2>6 DEF Row!Kill, RowTypeOK, States
    <3>2. CASE id = Job
      BY <2>6, <3>1, <3>2, EndsAreLast DEF Row!Kill, RowTypeOK, States
    <3>3. CASE id # Job
      BY <2>6, <3>1, <3>3 DEF Row!Kill, RowTypeOK
    <3> QED BY <3>2, <3>3
  <2> QED BY <1>1, <2>1, <2>2, <2>3, <2>4, <2>5, <2>6
<1>3. RowExists => RowExists'
  BY <1>2 DEF RowExists, States
<1>4. ASSUME NEW status \in Status, Read(status)
      PROVE  Read(status)'
  <2>1. status.state \in States /\ RowExists /\ RowExists'
    BY <1>3, <1>4, NoStatusIsNone DEF Read
  <2>2. CASE state'[Job] = state[Job] /\ inserted'[Job] = inserted[Job]
    BY <1>4, <2>1, <2>2 DEF Read, Current
  <2>3. CASE /\ state[Job] \in States \ {"done", "dead"} /\ state'[Job] \in States
             /\ Rank[state[Job]] <= Rank[state'[Job]]
    <3>1. Rank[status.state] <= Rank[state'[Job]] /\ Rank[status.state] < 4
      BY <1>4, <2>1, <2>3, RankDef DEF Read, IsEnd
    <3> QED BY <2>1, <3>1, RankDef DEF Read
  <2> QED BY <1>2, <2>1, <2>2, <2>3
<1> QED BY <1>2, <1>3, <1>4

\* A step of the job keeps what was read from its row.
LEMMA JobStepKeepsInv ==
  ASSUME Inv, JobStep
  PROVE  Inv'
<1> USE DEF Inv
<1>1. /\ RowTypeOK'
      /\ RowExists => RowExists'
      /\ \A status \in Status : Read(status) => Read(status)'
  BY RowStep DEF JobStep
<1>2. UNCHANGED <<stream, page, faults>>
  BY DEF JobStep
<1>3. \/ history' = history
      \/ state'[Job] \in States /\ history' = Append(history, state'[Job])
  <2>1. state'[Job] \in States \cup {"absent"}
    BY <1>1, WatchAssumption DEF RowTypeOK
  <2>2. state'[Job] # state[Job] => state'[Job] \in States
    BY <1>1, <2>1 DEF RowExists
  <2>3. CASE state'[Job] = state[Job]
    BY <2>3 DEF JobStep
  <2>4. CASE state'[Job] # state[Job]
    BY <2>2, <2>4 DEF JobStep
  <2> QED BY <2>3, <2>4
<1>4. /\ history' \in Seq(States)
      /\ Len(history) <= Len(history')
      /\ \A h \in 1 .. Len(history) : history'[h] = history[h]
  BY <1>3, AppendProperties DEF TypeOK
<1>5. TypeOK'
  BY <1>2, <1>4 DEF TypeOK
<1>6. HistoryOK'
  <2>1. CASE state'[Job] = state[Job]
    BY <2>1 DEF HistoryOK, RowExists, JobStep
  <2>2. CASE state'[Job] # state[Job]
    <3>1. /\ history' = Append(history, state'[Job])
          /\ history \in Seq(States)
      BY <2>2 DEF JobStep, TypeOK
    <3>2. Len(history) + 1 \in DOMAIN history'
          /\ history'[Len(history) + 1] = state'[Job]
      BY <3>1 DEF TypeOK
    <3> QED BY <3>2 DEF HistoryOK
  <2> QED BY <2>1, <2>2
<1>7. SentInOrder'
  <2>1. DOMAIN history = 1 .. Len(history) /\ DOMAIN history' = 1 .. Len(history')
        /\ Len(history) \in Nat /\ Len(history') \in Nat
    BY <1>4, LenProperties DEF TypeOK
  <2>2. \A h \in DOMAIN history :
          h \in DOMAIN history' /\ history'[h] = history[h]
    BY <1>4, <2>1
  <2> QED BY <1>2, <2>2 DEF SentInOrder
<1>8. ASSUME NEW s \in Streams
      PROVE  StreamOK(s)' /\ NoneOlder(s)'
  <2>1. stream[s].sent \in Seq(Status)
    BY DEF TypeOK, Stream
  <2>2. \A i \in DOMAIN stream[s].sent : stream[s].sent[i] \in Status
    BY <2>1, ElementOfSeq, LenProperties
  <2>3. StreamOK(s)'
    BY <1>1, <1>2, <2>2 DEF StreamOK, LastState
  <2> QED BY <1>2, <2>3 DEF NoneOlder
<1>9. EventSourceOK'
  BY <1>2 DEF EventSourceOK
<1>10. ShownOK'
  <2>1. page.shown \in Status \cup {NoStatus}
        /\ (page.reply # NoReply => page.reply.status \in Status)
    BY DEF TypeOK, Page, JobStatus
  <2> QED BY <1>1, <1>2, <2>1 DEF ShownOK
<1> QED BY <1>1, <1>5, <1>6, <1>7, <1>8, <1>9, <1>10

\* Every other step leaves the row alone.
LEMMA RowUntouched ==
  ASSUME Inv, UNCHANGED rowVars
  PROVE  /\ RowTypeOK' /\ HistoryOK'
         /\ Current' = Current /\ (RowExists' <=> RowExists)
         /\ \A status : Read(status)' <=> Read(status)
<1> USE DEF Inv, rowVars
<1>1. Current' = Current /\ (RowExists' <=> RowExists)
  BY DEF Current, RowExists
<1> QED BY <1>1 DEF RowTypeOK, HistoryOK, RowExists, Read

-----------------------------------------------------------------------------
(* The streams.                                                            *)

\* The row as it is, sent after all a stream has sent before.
Longer(sent, old) ==
  /\ sent \in Seq(Status)
  /\ Len(sent) = Len(old) + 1
  /\ sent[Len(sent)] = Current
  /\ \A i \in 1 .. Len(old) : sent[i] = old[i]
  /\ \A i \in 1 .. Len(sent) : Read(sent[i])
  /\ \A i, j \in 1 .. Len(sent) :
        i < j => Rank[sent[i].state] < Rank[sent[j].state]
  /\ \A i \in 1 .. Len(sent) :
        \E h \in DOMAIN history : history[h] = sent[i].state

\* A new state of the row is further than all a stream has sent.
LEMMA Sending ==
  ASSUME Inv, NEW s \in Streams, RowExists, state[Job] # LastState(stream[s]),
         NEW sent, sent = Append(stream[s].sent, Current)
  PROVE  Longer(sent, stream[s].sent)
<1> USE DEF Inv
<1> DEFINE old == stream[s].sent
<1>1. old \in Seq(Status) /\ Len(old) \in Nat /\ DOMAIN old = 1 .. Len(old)
      /\ \A i \in 1 .. Len(old) : old[i] \in Status
  BY LenProperties, ElementOfSeq DEF TypeOK, Stream
<1>2. Current \in Status /\ Read(Current) /\ Current.state = state[Job]
  BY CurrentIsRead DEF Current
<1> HIDE DEF old
<1>3. /\ sent \in Seq(Status) /\ Len(sent) = Len(old) + 1
      /\ sent[Len(sent)] = Current
      /\ \A i \in 1 .. Len(old) : sent[i] = old[i]
  BY <1>1, <1>2, AppendProperties DEF old
<1>4. \A i \in 1 .. Len(old) : Read(old[i])
  BY <1>1 DEF StreamOK, old
<1>5. ASSUME NEW i \in 1 .. Len(old)
      PROVE  Rank[old[i].state] < Rank[state[Job]]
  <2> DEFINE last == old[Len(old)]
  <2>1. Len(old) \in 1 .. Len(old) /\ last \in Status /\ Read(last)
    BY <1>1, <1>4, <1>5
  <2>2. last.state # state[Job]
    <3>1. old # <<>>
      BY <1>1, <1>5, EmptySeq
    <3> QED BY <3>1 DEF LastState, old
  <2>3. last.state \in States /\ state[Job] \in States
    BY <1>2, <2>1, NoStatusIsNone
  <2>4. Rank[last.state] <= Rank[state[Job]]
        /\ (IsEnd(last.state) => last = Current)
    BY <2>1 DEF Read
  <2>5. Rank[last.state] < Rank[state[Job]]
    <3> HIDE DEF last
    <3>1. ~ IsEnd(last.state)
      BY <1>2, <2>2, <2>4
    <3>2. Rank[last.state] # Rank[state[Job]]
      BY <2>2, <2>3, <3>1, RankIsOne
    <3> QED BY <2>3, <2>4, <3>2, RankDef
  <2>6. CASE i = Len(old)
    BY <2>5, <2>6
  <2>7. CASE i < Len(old)
    <3>1. Rank[old[i].state] < Rank[last.state]
      BY <1>1, <1>5, <2>1, <2>7 DEF SentInOrder, old
    <3>2. old[i] \in Status
      BY <1>1
    <3>3. old[i].state \in States
      BY <3>2, NoStatusIsNone
    <3>4. /\ Rank[old[i].state] \in Int /\ Rank[last.state] \in Int
          /\ Rank[state[Job]] \in Int
      BY <2>3, <3>3, RankDef
    <3> QED BY <2>5, <3>1, <3>4
  <2>8. Len(old) \in Nat
    BY <1>1
  <2>9. i = Len(old) \/ i < Len(old)
    BY <2>8
  <2> QED BY <2>6, <2>7, <2>9
<1>6. \A i \in 1 .. Len(sent) : Read(sent[i])
  BY <1>1, <1>2, <1>3, <1>4
<1>7. ASSUME NEW i \in 1 .. Len(sent), NEW j \in 1 .. Len(sent), i < j
      PROVE  Rank[sent[i].state] < Rank[sent[j].state]
  <2>1. i \in 1 .. Len(old)
    BY <1>1, <1>3, <1>7
  <2>2. CASE j = Len(sent)
    BY <1>2, <1>3, <1>5, <2>1, <2>2
  <2>3. CASE j # Len(sent)
    <3>1. j \in 1 .. Len(old)
      BY <1>1, <1>3, <1>7, <2>3
    <3> QED BY <1>1, <1>3, <1>7, <2>1, <3>1 DEF SentInOrder, old
  <2> QED BY <2>2, <2>3
<1>8. ASSUME NEW i \in 1 .. Len(sent)
      PROVE  \E h \in DOMAIN history : history[h] = sent[i].state
  <2>1. CASE i = Len(sent)
    BY <1>2, <1>3, <2>1 DEF HistoryOK
  <2>2. CASE i # Len(sent)
    <3>1. i \in 1 .. Len(old)
      BY <1>1, <1>3, <2>2
    <3> QED BY <1>1, <1>3, <3>1 DEF SentInOrder, old
  <2> QED BY <2>1, <2>2
<1> QED BY <1>3, <1>6, <1>7, <1>8 DEF old, Longer

\* What is left to show of a step that changes one stream, and maybe the page.
LEMMA StreamUpdate ==
  ASSUME Inv, NEW s \in Streams, NEW st \in Stream,
         UNCHANGED rowVars, stream' = [stream EXCEPT ![s] = st],
         st.taken <= Len(st.sent),
         \A i \in DOMAIN st.sent : Read(st.sent[i]),
         \A i, j \in DOMAIN st.sent :
            i < j => Rank[st.sent[i].state] < Rank[st.sent[j].state],
         \A i \in DOMAIN st.sent :
            \E h \in DOMAIN history : history[h] = st.sent[i].state,
         st.pc = "done" => st.sent # <<>> /\ IsEnd(LastState(st)),
         page' \in Page, faults' \in 0 .. MaxFaults,
         EventSourceOK', ShownOK', \A t \in Streams : NoneOlder(t)'
  PROVE  Inv'
<1> USE DEF Inv
<1>1. \A t \in Streams : stream'[t] = IF t = s THEN st ELSE stream[t]
  BY DEF TypeOK
<1>2. TypeOK'
  BY <1>1 DEF TypeOK, rowVars
<1>3. SentInOrder'
  BY <1>1 DEF SentInOrder, rowVars
<1>4. \A t \in Streams : StreamOK(t)'
  BY <1>1, RowUntouched DEF StreamOK, LastState
<1> QED BY <1>2, <1>3, <1>4, RowUntouched

\* What is left to show of a step of the page alone.
LEMMA PageUpdate ==
  ASSUME Inv, UNCHANGED <<rowVars, stream>>,
         page' \in Page, faults' \in 0 .. MaxFaults,
         EventSourceOK', ShownOK', \A t \in Streams : NoneOlder(t)'
  PROVE  Inv'
<1> USE DEF Inv
<1>1. TypeOK'
  BY DEF TypeOK, rowVars
<1>2. SentInOrder'
  BY DEF SentInOrder, rowVars
<1>3. \A t \in Streams : StreamOK(t)'
  BY RowUntouched DEF StreamOK, LastState
<1> QED BY <1>1, <1>2, <1>3, RowUntouched

\* The page is as it was, and so is what it shows.
LEMMA PageUntouched ==
  ASSUME Inv, UNCHANGED <<rowVars, page>>
  PROVE  EventSourceOK' /\ ShownOK' /\ page' \in Page
  BY RowUntouched DEF Inv, EventSourceOK, ShownOK, TypeOK, rowVars

\* A step within bounds keeps the count of faults in its range.
LEMMA FaultCounts ==
  ASSUME Inv, Fault \/ UNCHANGED faults
  PROVE  faults' \in 0 .. MaxFaults
  BY WatchAssumption DEF Inv, TypeOK, Fault

\* A stream whose pc alone changes.
LEMMA PcKeepsInv ==
  ASSUME Inv, NEW s \in Streams, UNCHANGED <<rowVars, page>>,
         Fault \/ UNCHANGED faults,
         NEW pc \in {"poll", "sleep", "done", "failed"},
         stream' = [stream EXCEPT ![s].pc = pc],
         pc = "done" => stream[s].sent # <<>> /\ IsEnd(LastState(stream[s]))
  PROVE  Inv'
<1> USE DEF Inv
<1> DEFINE st == [stream[s] EXCEPT !.pc = pc]
<1>1. stream[s] \in Stream
  BY DEF TypeOK
<1>2. st \in Stream /\ st.sent = stream[s].sent /\ st.taken = stream[s].taken
      /\ st.pc = pc
  BY <1>1 DEF Stream
<1> HIDE DEF st
<1>3. stream' = [stream EXCEPT ![s] = st]
  BY DEF st
<1>4. \A t \in Streams : NoneOlder(t)'
  <2>1. \A t \in Streams : /\ stream'[t].sent = stream[t].sent
                           /\ stream'[t].taken = stream[t].taken
    BY <1>2, <1>3 DEF TypeOK
  <2> QED BY <2>1 DEF NoneOlder
<1>5. /\ \A i \in DOMAIN st.sent : Read(st.sent[i])
      /\ \A i, j \in DOMAIN st.sent :
            i < j => Rank[st.sent[i].state] < Rank[st.sent[j].state]
      /\ \A i \in DOMAIN st.sent :
            \E h \in DOMAIN history : history[h] = st.sent[i].state
      /\ st.pc = "done" => st.sent # <<>> /\ IsEnd(LastState(st))
      /\ st.taken <= Len(st.sent)
  BY <1>2 DEF StreamOK, SentInOrder, LastState, TypeOK
<1> QED BY <1>2, <1>3, <1>4, <1>5, StreamUpdate, PageUntouched, FaultCounts

\* WatchJob: a round of the loop.
LEMMA PollKeepsInv ==
  ASSUME Inv, NEW s \in Streams, Poll(s)
  PROVE  Inv'
<1>0. UNCHANGED <<rowVars, page>> /\ stream[s] \in Stream
  BY DEF Poll, TypeOK, Inv
<1>1. CASE stream' = [stream EXCEPT ![s].pc = "failed"]
  <2>1. Fault \/ UNCHANGED faults
    BY <1>1 DEF Poll
  <2> QED BY <1>0, <1>1, <2>1, PcKeepsInv
<1>2. CASE /\ RowExists /\ UNCHANGED faults
           /\ stream' = [stream EXCEPT ![s] = Polled(@, Current)]
  <2> DEFINE st == Polled(stream[s], Current)
             pc == IF IsEnd(state[Job]) THEN "done" ELSE "sleep"
  <2>1. stream' = [stream EXCEPT ![s] = st]
    BY <1>2
  <2>2. Current \in Status /\ Current.state = state[Job]
    BY <1>2, CurrentIsRead DEF Current, Inv
  <2>3. CASE state[Job] = LastState(stream[s])
    <3>1. st = [stream[s] EXCEPT !.pc = pc]
      BY <1>0, <2>2, <2>3 DEF Polled, Stream
    <3>2. stream' = [stream EXCEPT ![s].pc = pc]
      BY <2>1, <3>1
    <3>3. stream[s].sent # <<>>
      <4>1. state[Job] # "none"
        BY <2>2, NoStatusIsNone DEF States
      <4> QED BY <2>3, <4>1 DEF LastState
    <3> HIDE DEF st
    <3> QED BY <1>0, <1>2, <2>3, <3>2, <3>3, PcKeepsInv
  <2>4. CASE state[Job] # LastState(stream[s])
    <3> DEFINE sent == Append(stream[s].sent, Current)
               old  == stream[s].sent
    <3>1. st = [stream[s] EXCEPT !.sent = sent, !.pc = pc]
      BY <1>0, <2>2, <2>4 DEF Polled
    <3>0. sent = Append(stream[s].sent, Current)
      OBVIOUS
    <3> HIDE DEF sent
    <3>1a. RowExists
      BY <1>2
    <3>1b. Longer(sent, stream[s].sent)
      BY <2>4, <3>0, <3>1a, Sending
    <3>2. /\ sent \in Seq(Status)
          /\ Len(sent) = Len(old) + 1
          /\ sent[Len(sent)] = Current
          /\ \A i \in 1 .. Len(old) : sent[i] = old[i]
          /\ \A i \in 1 .. Len(sent) : Read(sent[i])
          /\ \A i, j \in 1 .. Len(sent) :
                i < j => Rank[sent[i].state] < Rank[sent[j].state]
          /\ \A i \in 1 .. Len(sent) :
                \E h \in DOMAIN history : history[h] = sent[i].state
      BY <3>1b DEF Longer
    <3>3. old \in Seq(Status) /\ Len(old) \in Nat
          /\ stream[s].taken \in Nat /\ stream[s].taken <= Len(old)
      BY <1>0 DEF Stream, TypeOK, Inv
    <3>4. DOMAIN sent = 1 .. Len(sent) /\ sent # <<>>
      BY <3>2, <3>3, LenProperties, EmptySeq
    <3> HIDE DEF old
    <3>5. st \in Stream /\ st.sent = sent /\ st.taken = stream[s].taken
          /\ st.pc = pc
      BY <1>0, <3>1, <3>2 DEF Stream
    <3> HIDE DEF st
    <3>6. LastState(st) = state[Job]
      BY <2>2, <3>2, <3>4, <3>5 DEF LastState
    <3>7. \A t \in Streams : NoneOlder(t)'
      <4>1. ASSUME NEW t \in Streams, t # s
            PROVE  NoneOlder(t)'
        <5>1. stream'[t] = stream[t]
          BY <2>1, <4>1 DEF TypeOK, Inv
        <5> QED BY <1>0, <5>1 DEF NoneOlder, Inv
      <4>2. stream'[s] = st
        BY <2>1 DEF TypeOK, Inv
      <4>3. ASSUME s \in page.listening,
                   NEW i \in st.taken + 1 .. Len(st.sent)
            PROVE  Rank[page.shown.state] <= Rank[st.sent[i].state]
        <5>1. CASE i = Len(sent)
          <6>1. Read(page.shown)
            BY <4>3 DEF EventSourceOK, ShownOK, Inv
          <6> QED BY <2>2, <3>2, <3>5, <5>1, <6>1 DEF Read
        <5>2. CASE i # Len(sent)
          <6>1. i \in 1 .. Len(old) /\ i \in stream[s].taken + 1 .. Len(old)
            BY <3>2, <3>3, <3>5, <5>2
          <6>2. Rank[page.shown.state] <= Rank[old[i].state]
            BY <4>3, <6>1 DEF NoneOlder, old, Inv
          <6>3. st.sent[i] = old[i]
            BY <3>2, <3>5, <6>1
          <6> QED BY <6>2, <6>3
        <5> QED BY <5>1, <5>2
      <4> QED BY <1>0, <4>1, <4>2, <4>3 DEF NoneOlder
    <3>8. st.taken <= Len(st.sent)
      BY <3>2, <3>3, <3>5
    <3>9. /\ \A i \in DOMAIN st.sent : Read(st.sent[i])
          /\ \A i, j \in DOMAIN st.sent :
                i < j => Rank[st.sent[i].state] < Rank[st.sent[j].state]
          /\ \A i \in DOMAIN st.sent :
                \E h \in DOMAIN history : history[h] = st.sent[i].state
          /\ st.pc = "done" => st.sent # <<>> /\ IsEnd(LastState(st))
      BY <3>2, <3>4, <3>5, <3>6
    <3>10. EventSourceOK' /\ ShownOK' /\ page' \in Page
           /\ faults' \in 0 .. MaxFaults
      BY <1>0, <1>2, PageUntouched, FaultCounts
    <3> QED BY <1>0, <2>1, <3>5, <3>7, <3>8, <3>9, <3>10, StreamUpdate
  <2> QED BY <2>3, <2>4
<1> QED BY <1>1, <1>2 DEF Poll

\* WatchJob: the end of its sleep.
LEMMA WakeKeepsInv ==
  ASSUME Inv, NEW s \in Streams, Wake(s)
  PROVE  Inv'
  BY PcKeepsInv DEF Wake

-----------------------------------------------------------------------------
(* The page.                                                               *)

\* A page that listens to the streams it listened to, or to fewer, and shows
\* what it showed as long as it listens to one.
LEMMA NothingNew ==
  ASSUME Inv, UNCHANGED stream,
         page'.listening \subseteq page.listening,
         page'.listening # {} => page'.shown = page.shown
  PROVE  \A t \in Streams : NoneOlder(t)'
  BY DEF Inv, NoneOlder

\* getJobStatus is answered, or fails.
LEMMA AnswerKeepsInv ==
  ASSUME Inv, Answer
  PROVE  Inv'
<1>1. page \in Page /\ UNCHANGED <<rowVars, stream>>
      /\ faults' \in 0 .. MaxFaults
  BY FaultCounts DEF Inv, TypeOK, Answer
<1>2. CASE RowExists /\ page' = [page EXCEPT !.asked = FALSE, !.reply = WholeJob]
  <2>1. /\ WholeJob \in JobStatus /\ WholeJob # NoReply
        /\ WholeJob.status = Current /\ Read(Current) /\ Current.state = state[Job]
    BY <1>2, CurrentIsRead DEF Inv, WholeJob, Current
  <2>2. page' \in Page
    BY <1>1, <1>2, <2>1 DEF Page
  <2>3. EventSourceOK'
    BY <1>1, <1>2 DEF Inv, EventSourceOK, Page
  <2>4. ShownOK'
    <3>1. page.load = "loaded" => IsEnd(page.shown.state) /\ IsEnd(state[Job])
      BY <1>2, <2>1 DEF Inv, ShownOK, Answer, Read
    <3> QED BY <1>1, <1>2, <2>1, <3>1, RowUntouched DEF Inv, ShownOK, Page
  <2>5. \A t \in Streams : NoneOlder(t)'
    BY <1>1, <1>2, NothingNew DEF Page
  <2> QED BY <1>1, <2>2, <2>3, <2>4, <2>5, PageUpdate
<1>3. CASE page' = [page EXCEPT !.asked = FALSE,
                                !.load  = IF @ = "loading" THEN "failed" ELSE @]
  <2>1. page' \in Page
    BY <1>1, <1>3 DEF Page
  <2>2. EventSourceOK'
    BY <1>1, <1>3 DEF Inv, EventSourceOK, Page
  <2>3. ShownOK'
    BY <1>1, <1>3, RowUntouched DEF Inv, ShownOK, Page
  <2>4. \A t \in Streams : NoneOlder(t)'
    BY <1>1, <1>3, NothingNew DEF Page
  <2> QED BY <1>1, <2>1, <2>2, <2>3, <2>4, PageUpdate
<1> QED BY <1>2, <1>3 DEF Answer

\* The answer arrives: before the page listens to anything, or when it says
\* what the page shows.
LEMMA ArriveKeepsInv ==
  ASSUME Inv, Arrive
  PROVE  Inv'
<1>1. page \in Page /\ UNCHANGED <<rowVars, stream>> /\ faults' \in 0 .. MaxFaults
  BY DEF Inv, TypeOK, Arrive
<1>2. page' = [page EXCEPT !.load = "loaded", !.shown = page.reply.status,
                           !.attempt = page.reply.attempt, !.reply = NoReply]
  BY DEF Arrive
<1>3. page.reply \in JobStatus /\ page.reply # NoReply /\ Read(page.reply.status)
      /\ page.reply.status \in Status
  BY <1>1 DEF Arrive, Page, Inv, ShownOK, JobStatus
<1>4. page' \in Page
  BY <1>1, <1>2, <1>3 DEF Page, JobStatus
<1>5. EventSourceOK'
  BY <1>1, <1>2 DEF Inv, EventSourceOK, Page
<1>6. ShownOK'
  BY <1>1, <1>2, <1>3, NoStatusIsNone, RowUntouched DEF Inv, ShownOK, Page
<1>7. page'.listening # {} => page'.shown = page.shown
  <2>1. CASE page.load = "loaded"
    BY <1>1, <1>2, <1>3, <2>1 DEF Inv, ShownOK, Read, Page
  <2>2. CASE page.load # "loaded"
    BY <1>1, <1>2, <2>2 DEF Inv, EventSourceOK, Page
  <2> QED BY <2>1, <2>2
<1>8. \A t \in Streams : NoneOlder(t)'
  BY <1>1, <1>2, <1>7, NothingNew DEF Page
<1> QED BY <1>1, <1>4, <1>5, <1>6, <1>8, PageUpdate

\* The effect runs: its cleanup closes the stream, and it opens another unless
\* the job is over.
LEMMA EffectKeepsInv ==
  ASSUME Inv, Effect
  PROVE  Inv'
<1>1. page \in Page /\ UNCHANGED <<rowVars, stream>> /\ faults' \in 0 .. MaxFaults
      /\ page.load = "loaded"
  BY DEF Inv, TypeOK, Effect
<1>2. page' = [page EXCEPT
                 !.listening = {},
                 !.effect = page.shown.state,
                 !.es = IF IsEnd(page.shown.state) THEN "closed" ELSE "connecting",
                 !.live = ~ IsEnd(page.shown.state)]
  BY <1>1 DEF Effect, Cleanup, Page
<1>3. page.shown \in Status
  BY <1>1 DEF Inv, ShownOK, Page
<1>4. page' \in Page
  BY <1>1, <1>2, <1>3, NoStatusIsNone DEF Page, IsEnd
<1>5. EventSourceOK'
  BY <1>1, <1>2 DEF EventSourceOK, Page
<1>6. ShownOK'
  BY <1>1, <1>2, RowUntouched DEF Inv, ShownOK, Page
<1>7. \A t \in Streams : NoneOlder(t)'
  BY <1>1, <1>2, NothingNew DEF Page
<1> QED BY <1>1, <1>4, <1>5, <1>6, <1>7, PageUpdate

\* The EventSource is refused.
LEMMA RefuseKeepsInv ==
  ASSUME Inv, Refuse
  PROVE  Inv'
<1>1. page \in Page /\ UNCHANGED <<rowVars, stream>> /\ faults' \in 0 .. MaxFaults
      /\ page.es = "connecting"
  BY FaultCounts DEF Inv, TypeOK, Refuse
<1>2. page' = [page EXCEPT !.es = "refused", !.live = FALSE]
  BY <1>1 DEF Refuse, OnError, Page
<1>3. page' \in Page
  BY <1>1, <1>2 DEF Page
<1>4. EventSourceOK'
  BY <1>1, <1>2 DEF Inv, EventSourceOK, Page
<1>5. ShownOK'
  BY <1>1, <1>2, RowUntouched DEF Inv, ShownOK, Page
<1>6. \A t \in Streams : NoneOlder(t)'
  BY <1>1, <1>2, NothingNew DEF Page
<1> QED BY <1>1, <1>3, <1>4, <1>5, <1>6, PageUpdate

\* The page loses the stream it listens to, at its end or before.
LEMMA LostKeepsInv ==
  ASSUME Inv, NEW s \in Streams, StreamEnds(s) \/ ConnectionBreaks(s)
  PROVE  Inv'
<1>1. page \in Page /\ UNCHANGED <<rowVars, stream>> /\ faults' \in 0 .. MaxFaults
      /\ s \in page.listening
  BY FaultCounts DEF Inv, TypeOK, StreamEnds, ConnectionBreaks
<1>2. page' = [page EXCEPT !.listening = @ \ {s}, !.es = "connecting",
                           !.live = FALSE]
  BY <1>1 DEF StreamEnds, ConnectionBreaks, Lost, OnError, Page
<1>3. page' \in Page
  BY <1>1, <1>2 DEF Page
<1>4. EventSourceOK'
  <2>1. page.load = "loaded" /\ page.listening \ {s} = {}
    BY <1>1 DEF Inv, EventSourceOK
  <2> QED BY <1>1, <1>2, <2>1 DEF EventSourceOK, Page
<1>5. ShownOK'
  BY <1>1, <1>2, RowUntouched DEF Inv, ShownOK, Page
<1>6. \A t \in Streams : NoneOlder(t)'
  BY <1>1, <1>2, NothingNew DEF Page
<1> QED BY <1>1, <1>3, <1>4, <1>5, <1>6, PageUpdate

\* A new page is a page, and nothing is shown or on its way.
LEMMA NewPageOK ==
  /\ NewPage \in Page /\ MaxFaults \in Nat
  /\ NewPage.load = "loading" /\ NewPage.es = "closed" /\ ~ NewPage.live
  /\ NewPage.listening = {} /\ NewPage.shown = NoStatus
  /\ NewPage.reply = NoReply
  BY WatchAssumption DEF NewPage, Page

\* The page is left or loaded again.
LEMMA ReloadKeepsInv ==
  ASSUME Inv, Reload
  PROVE  Inv'
<1>1. UNCHANGED <<rowVars, stream>> /\ faults' \in 0 .. MaxFaults /\ page' = NewPage
  BY FaultCounts DEF Reload
<1>2. EventSourceOK' /\ ShownOK' /\ \A t \in Streams : NoneOlder(t)'
  BY <1>1, NewPageOK DEF EventSourceOK, ShownOK, NoneOlder
<1> QED BY <1>1, <1>2, NewPageOK, PageUpdate

\* An EventSource opens a stream: nothing has been sent on it.
LEMMA ConnectKeepsInv ==
  ASSUME Inv, NEW s \in Streams, Connect(s)
  PROVE  Inv'
<1>1. page \in Page /\ UNCHANGED rowVars /\ faults' \in 0 .. MaxFaults
      /\ page.es = "connecting" /\ stream' = [stream EXCEPT ![s] = Fresh]
      /\ page' = [page EXCEPT !.es = "open", !.listening = @ \cup {s}]
  BY DEF Inv, TypeOK, Connect
<1>2. /\ Fresh \in Stream /\ Fresh.sent = <<>> /\ Fresh.taken = 0
      /\ Fresh.pc = "poll" /\ Len(Fresh.sent) = 0 /\ DOMAIN Fresh.sent = {}
  BY EmptySeq DEF Fresh, Stream
<1>3. page' \in Page
  BY <1>1 DEF Page
<1>4. page.listening = {} /\ page'.listening = {s} /\ page.load = "loaded"
  BY <1>1 DEF Inv, EventSourceOK, Page
<1>5. EventSourceOK'
  BY <1>1, <1>4 DEF Inv, EventSourceOK, Page
<1>6. ShownOK'
  BY <1>1, RowUntouched DEF Inv, ShownOK, Page
<1>7. \A t \in Streams : NoneOlder(t)'
  <2>1. stream'[s] = Fresh
    BY <1>1 DEF Inv, TypeOK
  <2>2. NoneOlder(s)'
    BY <1>2, <2>1 DEF NoneOlder
  <2> QED BY <1>4, <2>2 DEF NoneOlder
<1>8. /\ Fresh.taken <= Len(Fresh.sent)
      /\ \A i \in DOMAIN Fresh.sent : Read(Fresh.sent[i])
      /\ \A i, j \in DOMAIN Fresh.sent :
            i < j => Rank[Fresh.sent[i].state] < Rank[Fresh.sent[j].state]
      /\ \A i \in DOMAIN Fresh.sent :
            \E h \in DOMAIN history : history[h] = Fresh.sent[i].state
      /\ Fresh.pc # "done"
  BY <1>2
<1> QED BY <1>1, <1>2, <1>3, <1>5, <1>6, <1>7, <1>8, StreamUpdate

\* An update is delivered: it is no older than what the page shows, and no
\* newer than what the stream still holds.
LEMMA DeliverKeepsInv ==
  ASSUME Inv, NEW s \in Streams, Deliver(s)
  PROVE  /\ Inv'
         /\ Rank[page.shown.state] <= Rank[page'.shown.state]
<1> DEFINE st     == [stream[s] EXCEPT !.taken = @ + 1]
           update == stream[s].sent[stream[s].taken + 1]
<1>1. /\ page \in Page /\ UNCHANGED rowVars /\ faults' \in 0 .. MaxFaults
      /\ s \in page.listening /\ stream[s] \in Stream
      /\ stream[s].taken < Len(stream[s].sent)
      /\ stream' = [stream EXCEPT ![s] = st]
  BY DEF Inv, TypeOK, Deliver
<1>2. page' = [page EXCEPT !.shown = update, !.asked = @ \/ IsEnd(update.state),
                           !.live = @ /\ ~ IsEnd(update.state)]
  BY DEF Deliver, OnUpdate
<1>3. /\ stream[s].sent \in Seq(Status)
      /\ stream[s].taken \in Nat /\ Len(stream[s].sent) \in Nat
      /\ stream[s].taken + 1 \in DOMAIN stream[s].sent
      /\ stream[s].taken + 1 \in stream[s].taken + 1 .. Len(stream[s].sent)
      /\ DOMAIN stream[s].sent = 1 .. Len(stream[s].sent)
  BY <1>1, LenProperties DEF Stream
<1>4. update \in Status
  BY <1>3, ElementOfSeq
<1>5. Read(update)
  BY <1>3 DEF Inv, StreamOK
<1>6. Rank[page.shown.state] <= Rank[update.state]
  BY <1>1, <1>3 DEF Inv, NoneOlder
<1>7. st \in Stream /\ st.sent = stream[s].sent
      /\ st.taken = stream[s].taken + 1 /\ st.pc = stream[s].pc
  BY <1>1, <1>3 DEF Stream
<1>8. \A i \in st.taken + 1 .. Len(st.sent) :
         Rank[update.state] <= Rank[st.sent[i].state]
  <2> SUFFICES ASSUME NEW i \in st.taken + 1 .. Len(st.sent)
               PROVE  Rank[update.state] <= Rank[st.sent[i].state]
    OBVIOUS
  <2>1. i \in 1 .. Len(stream[s].sent) /\ stream[s].taken + 1 < i
    BY <1>3, <1>7
  <2>2. Rank[update.state] < Rank[stream[s].sent[i].state]
    BY <1>3, <2>1 DEF Inv, SentInOrder
  <2>3. stream[s].sent[i] \in Status
    BY <1>3, <2>1, ElementOfSeq
  <2>4. /\ Rank[update.state] \in Int /\ Rank[stream[s].sent[i].state] \in Int
    BY <1>4, <2>3, NoStatusIsNone, RankDef
  <2> HIDE DEF st, update
  <2> QED BY <1>7, <2>2, <2>4
<1>9. page.load = "loaded" /\ page.shown \in Status /\ Read(page.shown)
  BY <1>1 DEF Inv, EventSourceOK, ShownOK, Page
<1>10. IsEnd(page.shown.state) => IsEnd(update.state)
  <2>1. page.shown.state \in States /\ update.state \in States
    BY <1>4, <1>9, NoStatusIsNone
  <2> HIDE DEF update
  <2> QED BY <1>6, <2>1, RankDef
<1> HIDE DEF st, update
<1>11. page' \in Page /\ page'.shown = update
  BY <1>1, <1>2, <1>4 DEF Page
<1>12. EventSourceOK'
  BY <1>1, <1>2 DEF Inv, EventSourceOK, Page
<1>13. ShownOK'
  BY <1>1, <1>2, <1>4, <1>5, <1>9, <1>10, NoStatusIsNone, RowUntouched
     DEF Inv, ShownOK, Page
<1>14. \A t \in Streams : NoneOlder(t)'
  <2>1. page'.listening = page.listening
    BY <1>1, <1>2 DEF Page
  <2>2. \A t \in page.listening : t = s
    BY <1>1 DEF Inv, EventSourceOK
  <2>3. stream'[s] = st
    BY <1>1 DEF Inv, TypeOK
  <2> QED BY <1>8, <1>11, <2>1, <2>2, <2>3 DEF NoneOlder
<1>15. /\ st.taken <= Len(st.sent)
       /\ \A i \in DOMAIN st.sent : Read(st.sent[i])
       /\ \A i, j \in DOMAIN st.sent :
             i < j => Rank[st.sent[i].state] < Rank[st.sent[j].state]
       /\ \A i \in DOMAIN st.sent :
             \E h \in DOMAIN history : history[h] = st.sent[i].state
       /\ st.pc = "done" => st.sent # <<>> /\ IsEnd(LastState(st))
  BY <1>1, <1>3, <1>7 DEF Inv, SentInOrder, StreamOK, LastState
<1> QED BY <1>1, <1>6, <1>7, <1>11, <1>12, <1>13, <1>14, <1>15, StreamUpdate

-----------------------------------------------------------------------------
(* The theorems.                                                           *)

\* No job, no stream, and a page that has asked for its job.
LEMMA InitInv == Init => Inv
<1> SUFFICES ASSUME Init PROVE Inv
  OBVIOUS
<1>1. state[Job] = "absent"
  BY WatchAssumption DEF Init, Row!Init
<1>2. RowTypeOK
  BY WatchAssumption, FS_EmptySet DEF Init, Row!Init, RowTypeOK
<1>3. HistoryOK
  BY <1>1 DEF HistoryOK, RowExists
<1> DEFINE off == [Fresh EXCEPT !.pc = "off"]
<1>4. off = [pc |-> "off", sent |-> <<>>, taken |-> 0]
  BY DEF Fresh
<1>5. [pc |-> "off", sent |-> <<>>, taken |-> 0] \in Stream
       /\ Len(<<>>) = 0 /\ DOMAIN <<>> = {}
  BY EmptySeq DEF Stream
<1>6. /\ off \in Stream /\ off.sent = <<>> /\ off.taken = 0 /\ off.pc = "off"
      /\ Len(off.sent) = 0 /\ DOMAIN off.sent = {}
  BY <1>4, <1>5
<1>7. stream = [s \in Streams |-> off]
  BY DEF Init
<1> HIDE DEF off
<1>8. TypeOK
  BY <1>6, <1>7, NewPageOK, EmptySeq DEF Init, TypeOK
<1>9. SentInOrder /\ \A s \in Streams : StreamOK(s)
  BY <1>6, <1>7 DEF SentInOrder, StreamOK
<1>10. EventSourceOK /\ ShownOK /\ \A s \in Streams : NoneOlder(s)
  BY NewPageOK DEF Init, EventSourceOK, ShownOK, NoneOlder
<1> QED BY <1>2, <1>3, <1>8, <1>9, <1>10 DEF Inv

\* Every step keeps Inv.
LEMMA NextKeepsInv ==
  ASSUME Inv, [Next]_vars
  PROVE  Inv'
<1>1. CASE JobStep
  BY <1>1, JobStepKeepsInv
<1>2. ASSUME NEW s \in Streams, StreamStep(s)
      PROVE  Inv'
  BY <1>2, PollKeepsInv, WakeKeepsInv, ConnectKeepsInv, DeliverKeepsInv,
     LostKeepsInv DEF StreamStep
<1>3. CASE Answer \/ Arrive \/ Effect \/ Refuse \/ Reload
  BY <1>3, AnswerKeepsInv, ArriveKeepsInv, EffectKeepsInv, RefuseKeepsInv,
     ReloadKeepsInv
<1>4. CASE UNCHANGED vars
  <2>1. UNCHANGED <<rowVars, stream, page, faults>>
    BY <1>4 DEF vars
  <2>2. faults' \in 0 .. MaxFaults /\ EventSourceOK' /\ ShownOK' /\ page' \in Page
    BY <2>1, FaultCounts, PageUntouched
  <2>3. \A t \in Streams : NoneOlder(t)'
    BY <2>1 DEF Inv, NoneOlder
  <2> QED BY <2>1, <2>2, <2>3, PageUpdate
<1> QED BY <1>1, <1>2, <1>3, <1>4 DEF Next

\* Inv holds in every state that Spec reaches.
THEOREM Invariance == Spec => []Inv
<1>1. Init => Inv
  BY InitInv
<1>2. Inv /\ [Next]_vars => Inv'
  BY NextKeepsInv
<1> QED BY <1>1, <1>2, PTL DEF Spec

\* Every variable keeps its type, and no update is delivered before it is sent.
THEOREM TypeCorrect == Spec => []TypeOK
<1>1. Inv => TypeOK
  BY DEF Inv
<1> QED BY <1>1, Invariance, PTL

\* A stream of WatchJob moves strictly forward, over states the row really had
\* (etl/server.go:115-119).
THEOREM StreamsMoveForward == Spec => []SentInOrder
<1>1. Inv => SentInOrder
  BY DEF Inv
<1> QED BY <1>1, Invariance, PTL

\* A stream that ends without an error has sent the end of the job as the row
\* still has it (etl/server.go:122-124).
THEOREM StreamsSendTheEnd == Spec => []EndIsSent
<1>1. Inv => EndIsSent
  <2> SUFFICES ASSUME Inv, NEW s \in Streams, stream[s].pc = "done"
               PROVE  /\ stream[s].sent # <<>>
                      /\ stream[s].sent[Len(stream[s].sent)] = Current
    BY DEF EndIsSent
  <2>1. stream[s].sent # <<>> /\ IsEnd(LastState(stream[s]))
    BY DEF Inv, StreamOK
  <2>2. stream[s].sent \in Seq(Status)
    BY DEF Inv, TypeOK, Stream
  <2>3. Len(stream[s].sent) \in DOMAIN stream[s].sent
    BY <2>1, <2>2, EmptySeq, LenProperties
  <2>4. Read(stream[s].sent[Len(stream[s].sent)])
    BY <2>3 DEF Inv, StreamOK
  <2> QED BY <2>1, <2>4 DEF Read, LastState
<1> QED BY <1>1, Invariance, PTL

\* A page that shows the job done or dead shows what the row says, counters
\* included, and always will (job-detail.tsx:62-95).
THEOREM TheEndShownIsReal == Spec => []EndIsReal
<1>1. Inv => EndIsReal
  BY DEF Inv, ShownOK, Read, EndIsReal, IsEnd, NoStatus
<1> QED BY <1>1, Invariance, PTL

\* "Live" is shown only over a stream that is open or being opened
\* (job-detail.tsx:66, 83, 88, 93).
THEOREM LiveMeansConnected == Spec => []LiveIsConnected
<1>1. Inv => LiveIsConnected
  <2> SUFFICES ASSUME Inv, Badge = "Live" PROVE page.live
    BY DEF Inv, EventSourceOK, LiveIsConnected
  <2> QED BY DEF Badge
<1> QED BY <1>1, Invariance, PTL

\* What the page shows never goes back, whatever streams end, break and are
\* opened again, and whatever answers come in between (job-detail.tsx:62-95).
THEOREM ThePageMovesForward == Spec => PageNeverGoesBack
<1> DEFINE Forward == page.shown # NoStatus /\ page'.shown # NoStatus =>
                        Rank[page.shown.state] <= Rank[page'.shown.state]
<1>1. ASSUME Inv, Next PROVE Forward
  <2>0. page.shown # NoStatus => Rank[page.shown.state] \in Int
    BY <1>1, NoStatusIsNone, RankDef DEF Inv, TypeOK, Page
  <2>1. CASE page'.shown = page.shown
    BY <2>0, <2>1
  <2>2. ASSUME NEW s \in Streams, StreamStep(s)
        PROVE  Forward
    <3>1. CASE Poll(s) \/ Wake(s)
      BY <2>1, <3>1 DEF Poll, Wake
    <3>2. CASE Deliver(s)
      BY <1>1, <3>2, DeliverKeepsInv
    <3>3. CASE Connect(s)
      <4>1. page'.shown = page.shown
        BY <1>1, <3>3 DEF Connect, Inv, TypeOK, Page
      <4> QED BY <2>1, <4>1
    <3>4. CASE StreamEnds(s) \/ ConnectionBreaks(s)
      <4>1. page' = Lost(page, s)
        BY <3>4 DEF StreamEnds, ConnectionBreaks
      <4>2. page'.shown = page.shown
        BY <1>1, <4>1 DEF Lost, Inv, TypeOK, Page
      <4> QED BY <2>1, <4>2
    <3> QED BY <2>2, <3>1, <3>2, <3>3, <3>4 DEF StreamStep
  <2>3. CASE Arrive
    BY <1>1, <2>0, <2>3 DEF Arrive, Inv, TypeOK, Page, ShownOK, Read
  <2>4. CASE Answer \/ Effect \/ Refuse
    <3>1. page \in Page
      BY <1>1 DEF Inv, TypeOK
    <3>2. CASE Answer
      BY <2>1, <3>1, <3>2 DEF Answer, Page
    <3>3. CASE Effect
      BY <2>1, <3>1, <3>3 DEF Effect, Cleanup, Page
    <3>4. CASE Refuse
      BY <2>1, <3>1, <3>4 DEF Refuse, Page
    <3> QED BY <2>4, <3>2, <3>3, <3>4
  <2>5. CASE Reload
    BY <2>5, NewPageOK DEF Reload
  <2> QED BY <1>1, <2>1, <2>2, <2>3, <2>4, <2>5 DEF Next, JobStep
<1>2. Inv /\ [Next]_vars => [Forward]_vars
  BY <1>1
<1> QED BY <1>2, Invariance, PTL DEF Spec, PageNeverGoesBack

=============================================================================
