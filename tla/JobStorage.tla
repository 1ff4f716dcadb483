----------------------------- MODULE JobStorage -----------------------------
(***************************************************************************)
(* The list of jobs that the browser keeps in localStorage                 *)
(* (frontend/components/jobs-list.tsx): newest first, each job once.       *)
(***************************************************************************)
EXTENDS Integers, Sequences, FiniteSets, SequencesExt

CONSTANT MaxStored       \* MAX_STORED

ASSUME StorageAssumption == MaxStored \in Nat \ {0}

Newest(ids)       == SubSeq(ids, 1, IF Len(ids) < MaxStored THEN Len(ids) ELSE MaxStored)
\* filter: storeJobId keeps each job once (Distinct in JobFormProofs).
Without(ids, job) == RemoveFirst(ids, job)

StoredTwice(ids, job) == Newest(<<job>> \o ids)      \* slip: no filter
storeJobId(ids, job)  == Newest(<<job>> \o Without(ids, job))

\* What the list should be after a number of calls: the jobs of these calls,
\* by their last call, newest first, and no more than MaxStored.
LastCall(calls, job) ==
  CHOOSE i \in DOMAIN calls :
    calls[i] = job /\ \A j \in DOMAIN calls : calls[j] = job => j <= i

IsRecent(ids, calls) ==
  LET jobs == Range(calls) IN
  /\ Len(ids) = IF Cardinality(jobs) < MaxStored THEN Cardinality(jobs) ELSE MaxStored
  /\ \A i, j \in DOMAIN ids :
       i < j => LastCall(calls, ids[i]) > LastCall(calls, ids[j])
  /\ Range(ids) \subseteq jobs
  /\ \A job \in jobs \ Range(ids), i \in DOMAIN ids :
       LastCall(calls, ids[i]) > LastCall(calls, job)

=============================================================================
