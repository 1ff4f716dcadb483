---------------------- MODULE AnalyticsDashboardProofs ----------------------
(***************************************************************************)
(* Proofs about AnalyticsDashboard, for every list of regions, every       *)
(* history of the table videos and every number of fetches in flight.      *)
(*                                                                         *)
(* As in VideosTable the fetch that was sent last is the one for the       *)
(* region; here there are two queues of fetches, and the region also       *)
(* changes under the user, which sends to both.                            *)
(*                                                                         *)
(* The card names the first video of the list: the query orders by views,  *)
(* JSON leaves only counts of zero out, and the reduce takes another video *)
(* only for more views.                                                    *)
(***************************************************************************)
EXTENDS AnalyticsDashboard, TLAPS, SequenceTheorems, FiniteSetTheorems,
        WellFoundedInduction

\* Every region the page can be told of, and the answers to its fetches.
AllRegions == RegionSet \cup { row.region : row \in UNION Tables }

ChannelsData ==
  {NoData} \cup UNION { getTopChannels(Tables, r, 10, s) :
                          r \in AllRegions, s \in Sorts }

FetchType == [region : AllRegions, late : BOOLEAN, got : [Sorts -> ChannelsData]]

Tracked == UNION { getTrackedRegions(t, Regions) : t \in Tables }

Parts == {"channels", "videos", "stats"}

-----------------------------------------------------------------------------
(* The inductive invariant.                                                *)

DashboardTypeOK ==
  /\ table \in Tables
  /\ region \in AllRegions
  /\ loading \in [Parts -> BOOLEAN] /\ channelsError \in BOOLEAN
  /\ stats \in [regions : {<<>>} \cup Tracked, pending : BOOLEAN,
                got : [StatsHalves -> {NoData, "a number"} \cup Tracked]]
  /\ stats.got["regions"] \in {NoData} \cup Tracked
  /\ inFlight \in [Kinds -> Seq(FetchType)]
  /\ stale \in [Kinds -> BOOLEAN]

\* Only fetches sent before an overtaken one are overtaken, and the last, if it
\* is not, is for the region r.
QueueOK(q, r) ==
  /\ q \in Seq(FetchType)
  /\ \A j, k \in 1 .. Len(q) : j < k /\ q[k].late => q[j].late
  /\ q # <<>> /\ ~ q[Len(q)].late => q[Len(q)].region = r

\* What is on its way, and what is shown when nothing is.
VideosOK ==
  /\ QueueOK(inFlight["videos"], region)
  /\ loading["videos"] => inFlight["videos"] # <<>>
  /\ inFlight["videos"] = <<>> => stale["videos"] \/ videos.region = region

ChannelsOK ==
  /\ QueueOK(inFlight["channels"], region)
  /\ loading["channels"] => inFlight["channels"] # <<>>
  /\ inFlight["channels"] = <<>> =>
       stale["channels"] \/ channelsError \/ channels["appear_count"].region = region
  /\ channels["appear_count"].region = channels["total_views"].region

\* The choice is between all regions until the tracked ones arrive, once.
ChoiceOK ==
  /\ stats.pending => stats.regions = <<>>
  /\ ~ Crashed => region \in Offered

Inv == DashboardTypeOK /\ VideosOK /\ ChannelsOK /\ ChoiceOK

-----------------------------------------------------------------------------
(* Queues of fetches.                                                      *)

\* What RemoveAt leaves, place by place.
LEMMA Removed ==
  ASSUME NEW S, NEW s \in Seq(S), NEW i \in 1 .. Len(s)
  PROVE  /\ RemoveAt(s, i) \in Seq(S)
         /\ Len(RemoveAt(s, i)) = Len(s) - 1
         /\ \A k \in 1 .. Len(s) - 1 :
              RemoveAt(s, i)[k] = IF k < i THEN s[k] ELSE s[k + 1]
<1> DEFINE n == Len(s)
           a == SubSeq(s, 1, i - 1)
           b == SubSeq(s, i + 1, n)
<1>1. n \in Nat /\ i \in 1 .. n
  BY LenProperties
<1>2. \A j \in 1 .. n : s[j] \in S
  BY ElementOfSeq
<1>3. RemoveAt(s, i) = a \o b
  BY DEF RemoveAt
<1> HIDE DEF n
<1>4. /\ a \in Seq(S) /\ Len(a) = i - 1
      /\ \A k \in 1 .. i - 1 : a[k] = s[k]
  <2>1. i - 1 \in Int /\ 1 \in Int /\ \A j \in 1 .. i - 1 : s[j] \in S
    BY <1>1, <1>2
  <2>2. /\ a \in Seq(S) /\ Len(a) = IF 1 <= i - 1 THEN i - 1 - 1 + 1 ELSE 0
        /\ \A k \in 1 .. i - 1 - 1 + 1 : a[k] = s[1 + k - 1]
    BY <2>1, SubSeqProperties
  <2> QED BY <1>1, <2>2
<1>5. /\ b \in Seq(S) /\ Len(b) = n - i
      /\ \A k \in 1 .. n - i : b[k] = s[k + i]
  <2>1. i + 1 \in Int /\ n \in Int /\ \A j \in i + 1 .. n : s[j] \in S
    BY <1>1, <1>2
  <2>2. /\ b \in Seq(S) /\ Len(b) = IF i + 1 <= n THEN n - (i + 1) + 1 ELSE 0
        /\ \A k \in 1 .. n - (i + 1) + 1 : b[k] = s[i + 1 + k - 1]
    BY <2>1, SubSeqProperties
  <2>3. n - (i + 1) + 1 = n - i /\ (i + 1 <= n \/ n - i = 0)
    BY <1>1
  <2>4. ASSUME NEW k \in 1 .. n - i PROVE b[k] = s[k + i]
    <3>1. i + 1 + k - 1 = k + i /\ k \in 1 .. n - (i + 1) + 1
      BY <1>1
    <3> HIDE DEF b
    <3> QED BY <2>2, <3>1
  <2>5. Len(b) = n - i
    BY <2>2, <2>3
  <2> QED BY <2>2, <2>4, <2>5
<1> HIDE DEF a, b
<1>6. /\ a \o b \in Seq(S) /\ Len(a \o b) = Len(a) + Len(b)
      /\ \A k \in 1 .. Len(a) + Len(b) :
           (a \o b)[k] = IF k <= Len(a) THEN a[k] ELSE b[k - Len(a)]
  BY <1>4, <1>5, ConcatProperties
<1>7. Len(a) + Len(b) = n - 1
  BY <1>1, <1>4, <1>5
<1>8. ASSUME NEW k \in 1 .. n - 1
      PROVE  (a \o b)[k] = IF k < i THEN s[k] ELSE s[k + 1]
  <2>1. CASE k < i
    <3>1. k \in 1 .. i - 1 /\ k <= Len(a)
      BY <1>1, <1>4, <2>1
    <3> QED BY <1>4, <1>6, <1>7, <2>1, <3>1
  <2>2. CASE ~ (k < i)
    <3>1. k - (i - 1) \in 1 .. n - i /\ k - (i - 1) + i = k + 1 /\ ~ (k <= i - 1)
      BY <1>1, <2>2
    <3>2. b[k - (i - 1)] = s[k - (i - 1) + i]
      BY <1>5, <3>1
    <3>3. (a \o b)[k] = b[k - (i - 1)]
      BY <1>4, <1>6, <1>7, <3>1
    <3> QED BY <2>2, <3>1, <3>2, <3>3
  <2> QED BY <2>1, <2>2
<1> QED BY <1>3, <1>6, <1>7, <1>8 DEF n

\* A new fetch is the last, and for its region.
LEMMA SentQueue ==
  ASSUME NEW q, NEW old, QueueOK(q, old), NEW r \in AllRegions
  PROVE  QueueOK(Append(q, Fetch(r)), r) /\ Append(q, Fetch(r)) # <<>>
<1> DEFINE new == Fetch(r)
           n == Len(q)
<1>1. new \in FetchType /\ new.late = FALSE /\ new.region = r
  BY DEF Fetch, FetchType, Unanswered, ChannelsData
<1>2. q \in Seq(FetchType) /\ n \in Nat
  BY LenProperties DEF QueueOK
<1> HIDE DEF new
<1>3. /\ Append(q, new) \in Seq(FetchType) /\ Append(q, new) # <<>>
      /\ Len(Append(q, new)) = n + 1
      /\ \A j \in 1 .. n : Append(q, new)[j] = q[j]
      /\ Append(q, new)[n + 1] = new
  BY <1>1, <1>2, AppendProperties
<1>4. \A j, k \in 1 .. n : j < k /\ q[k].late => q[j].late
  BY DEF QueueOK
<1> HIDE DEF n
<1>5. ASSUME NEW j \in 1 .. n + 1, NEW k \in 1 .. n + 1, j < k,
             Append(q, new)[k].late
      PROVE  Append(q, new)[j].late
  <2>1. k # n + 1
    BY <1>1, <1>3, <1>5
  <2>2. j \in 1 .. n /\ k \in 1 .. n
    BY <1>2, <1>5, <2>1
  <2> QED BY <1>3, <1>4, <1>5, <2>2
<1>6. QueueOK(Append(q, new), r)
  BY <1>1, <1>3, <1>5 DEF QueueOK
<1> QED BY <1>3, <1>6 DEF new

\* A half that arrives changes nothing of a fetch that the queue is about.
LEMMA HalfQueue ==
  ASSUME NEW q, NEW r, QueueOK(q, r), NEW i \in 1 .. Len(q),
         NEW new \in FetchType, new.late = q[i].late, new.region = q[i].region
  PROVE  QueueOK([q EXCEPT ![i] = new], r) /\ [q EXCEPT ![i] = new] # <<>>
<1> DEFINE p == [q EXCEPT ![i] = new]
<1>1. q \in Seq(FetchType) /\ Len(q) \in Nat
  BY LenProperties DEF QueueOK
<1>2. /\ p \in Seq(FetchType) /\ Len(p) = Len(q)
      /\ \A j \in 1 .. Len(q) : p[j] = IF j = i THEN new ELSE q[j]
  BY <1>1, ExceptSeq
<1>3. q # <<>> /\ p # <<>> /\ Len(q) \in 1 .. Len(q)
  BY <1>1, <1>2, EmptySeq
<1> HIDE DEF p
<1>4. \A j \in 1 .. Len(q) : p[j].late = q[j].late /\ p[j].region = q[j].region
  BY <1>2
<1>5. QueueOK(p, r)
  BY <1>2, <1>3, <1>4 DEF QueueOK
<1> QED BY <1>3, <1>5 DEF p

\* When the i-th fetch ends and leaves none, it was overtaken or for the region.
LEMMA EndedQueue ==
  ASSUME NEW q, NEW r, QueueOK(q, r), NEW i \in 1 .. Len(q)
  PROVE  /\ QueueOK(Overtaken(q, i), r)
         /\ Overtaken(q, i) = <<>> => q[i].late \/ q[i].region = r
<1> DEFINE n == Len(q)
           e(j) == [q[j] EXCEPT !.late = @ \/ j < i]
           marked == [j \in 1 .. n |-> e(j)]
           p == RemoveAt(marked, i)
<1>1. q \in Seq(FetchType)
  BY DEF QueueOK
<1>2. /\ n \in Nat /\ DOMAIN q = 1 .. n /\ i \in 1 .. n
      /\ \A j \in 1 .. n : q[j] \in FetchType
  BY <1>1, LenProperties, ElementOfSeq
<1>3. \A j \in 1 .. n : /\ e(j) \in FetchType /\ e(j).region = q[j].region
                        /\ e(j).late = (q[j].late \/ j < i)
  BY <1>2 DEF FetchType
<1>4. Overtaken(q, i) = p
  BY <1>2 DEF Overtaken
<1>5. /\ \A j, k \in 1 .. n : j < k /\ q[k].late => q[j].late
      /\ ~ q[n].late => q[n].region = r
  <2>1. q # <<>>
    BY <1>2, EmptySeq
  <2> QED BY <2>1 DEF QueueOK
<1> HIDE DEF n, e
<1>6. marked \in Seq(FetchType) /\ Len(marked) = n
      /\ \A j \in 1 .. n : marked[j] = e(j)
  <2>1. marked \in Seq(FetchType)
    BY <1>2, <1>3, IsASeq
  <2>2. Len(marked) = n
    BY <1>2, <2>1, LenProperties
  <2> QED BY <2>1, <2>2
<1> HIDE DEF marked
<1>7. /\ p \in Seq(FetchType) /\ Len(p) = n - 1
      /\ \A k \in 1 .. n - 1 : p[k] = IF k < i THEN marked[k] ELSE marked[k + 1]
  BY <1>2, <1>6, Removed
<1> HIDE DEF p
<1>8. ASSUME NEW k \in 1 .. n - 1
      PROVE  /\ k < i => p[k].late
             /\ ~ (k < i) => /\ p[k].late = q[k + 1].late
                             /\ p[k].region = q[k + 1].region
  <2>1. k \in 1 .. n /\ k + 1 \in 1 .. n
    BY <1>2
  <2>2. CASE k < i
    <3>1. p[k] = e(k)
      BY <1>6, <1>7, <2>1, <2>2
    <3> QED BY <1>3, <2>1, <2>2, <3>1
  <2>3. CASE ~ (k < i)
    <3>1. p[k] = e(k + 1) /\ ~ (k + 1 < i)
      BY <1>2, <1>6, <1>7, <2>1, <2>3
    <3>2. e(k + 1).late = (q[k + 1].late \/ FALSE) /\ e(k + 1).region = q[k + 1].region
      BY <1>3, <2>1, <3>1
    <3>3. q[k + 1].late \in BOOLEAN
      BY <1>2, <2>1 DEF FetchType
    <3> QED BY <2>3, <3>1, <3>2, <3>3
  <2> QED BY <2>2, <2>3
<1>9. ASSUME NEW j \in 1 .. n - 1, NEW k \in 1 .. n - 1, j < k, p[k].late
      PROVE  p[j].late
  <2>1. CASE j < i
    BY <1>8, <2>1
  <2>2. CASE ~ (j < i)
    <3>1. ~ (k < i) /\ j + 1 \in 1 .. n /\ k + 1 \in 1 .. n /\ j + 1 < k + 1
      BY <1>2, <1>9, <2>2
    <3>2. q[k + 1].late
      BY <1>8, <1>9, <3>1
    <3>3. q[j + 1].late
      BY <1>5, <3>1, <3>2
    <3> QED BY <1>8, <2>2, <3>3
  <2> QED BY <2>1, <2>2
<1>10. ASSUME p # <<>>, ~ p[n - 1].late
       PROVE  p[n - 1].region = r
  <2>1. n # 1
    BY <1>7, <1>10, EmptySeq
  <2>2. n - 1 \in 1 .. n - 1 /\ n - 1 + 1 = n
    BY <1>2, <2>1
  <2>3. ~ (n - 1 < i)
    BY <1>8, <1>10, <2>2
  <2> QED BY <1>5, <1>8, <1>10, <2>2, <2>3
<1>11. ASSUME p = <<>> PROVE q[i].late \/ q[i].region = r
  <2>1. i = n
    BY <1>2, <1>7, <1>11, EmptySeq
  <2> QED BY <1>5, <2>1
<1> QED BY <1>4, <1>7, <1>9, <1>10, <1>11 DEF QueueOK

\* The regions that arrive are at least one, each once.
LEMMA TrackedRegions ==
  ASSUME NEW list \in Tracked, list # Undefined
  PROVE  /\ list \in Seq(AllRegions) /\ list # <<>>
         /\ list[1] \in Range(list) /\ Range(list) \subseteq AllRegions
         /\ Len(list) = Cardinality(Range(list))
<1>1. PICK t \in Tables : list \in getTrackedRegions(t, Regions)
  BY DEF Tracked
<1> DEFINE S == { row.region : row \in t }
           c == Cardinality(S)
<1>2. /\ list # <<>> /\ list \in [1 .. c -> S]
      /\ \A i, j \in 1 .. c : i # j => list[i] # list[j]
  BY <1>1 DEF getTrackedRegions, GetTrackedRegions, OmitList, SetToSeqs
<1>3. IsFiniteSet(t)
  BY DashboardAssumption
<1>4. c \in Nat
  <2> DEFINE f == [row \in t |-> row.region]
  <2>1. f \in Surjection(t, S)
    BY DEF Surjection
  <2>2. IsFiniteSet(S)
    BY <1>3, <2>1, FS_Surjection
  <2> QED BY <2>2, FS_CardinalityType
<1>5. S \subseteq AllRegions
  BY DEF AllRegions
<1> HIDE DEF S, c
<1>6. list \in Seq(S)
  BY <1>2, <1>4, SeqDef
<1>7. list \in Seq(AllRegions) /\ Len(list) = c /\ DOMAIN list = 1 .. c
  <2>1. list \in Seq(AllRegions)
    BY <1>5, <1>6, SeqMonotonic
  <2>2. DOMAIN list = 1 .. c /\ Len(list) \in Nat /\ DOMAIN list = 1 .. Len(list)
    BY <1>2, <1>6, LenProperties
  <2>3. Len(list) = c
    BY <1>4, <2>2
  <2> QED BY <2>1, <2>2, <2>3
<1>8. c # 0
  BY <1>2, <1>6, <1>7, EmptySeq
<1>9. list[1] \in Range(list) /\ Range(list) \subseteq AllRegions
  BY <1>4, <1>7, <1>8, RangeOfSeq DEF Range
<1>10. Cardinality(Range(list)) = c
  <2>1. list \in Bijection(1 .. c, Range(list))
    BY <1>2, <1>7 DEF Bijection, Injection, Surjection, Range, IsInjective
  <2>2. ExistsBijection(1 .. c, Range(list))
    BY <2>1 DEF ExistsBijection
  <2> QED BY <1>4, <2>2, FS_CountingElements
<1> QED BY <1>2, <1>7, <1>9, <1>10

-----------------------------------------------------------------------------
(* The steps.                                                              *)

\* Fetches for a new region are sent to both queues.
LEMMA SendForBoth ==
  ASSUME Inv, NEW r \in AllRegions, NEW shown \in [Parts -> BOOLEAN], SendFor(r, shown)
  PROVE  /\ inFlight' \in [Kinds -> Seq(FetchType)]
         /\ loading' \in [Parts -> BOOLEAN] /\ channelsError' = FALSE
         /\ loading'["stats"] = shown["stats"]
         /\ \A kind \in Kinds : QueueOK(inFlight'[kind], r) /\ inFlight'[kind] # <<>>
<1>1. \A kind \in Kinds : inFlight'[kind] = Append(inFlight[kind], Fetch(r))
  BY DEF SendFor, Refetched
<1>2. \A kind \in Kinds : QueueOK(inFlight[kind], region)
  BY DEF Inv, VideosOK, ChannelsOK, Kinds
<1>3. \A kind \in Kinds : QueueOK(inFlight'[kind], r) /\ inFlight'[kind] # <<>>
  BY <1>1, <1>2, SentQueue
<1>4. inFlight' \in [Kinds -> Seq(FetchType)]
  <2>1. inFlight' = [kind \in Kinds |-> inFlight'[kind]]
    BY DEF SendFor
  <2> QED BY <1>3, <2>1 DEF QueueOK
<1>5. /\ loading' \in [Parts -> BOOLEAN] /\ channelsError' = FALSE
      /\ loading'["stats"] = shown["stats"]
  BY DEF SendFor, Parts, Refetched, Kinds
<1> QED BY <1>3, <1>4, <1>5

\* What a new region with its fetches keeps.
LEMMA SentKeepsInv ==
  ASSUME DashboardTypeOK', ChoiceOK', ChannelsOK,
         \A kind \in Kinds : QueueOK(inFlight'[kind], region') /\ inFlight'[kind] # <<>>,
         UNCHANGED channels
  PROVE  Inv'
<1>1. VideosOK'
  BY DEF VideosOK, Kinds
<1>2. ChannelsOK'
  BY DEF ChannelsOK, Kinds
<1> QED BY <1>1, <1>2 DEF Inv

LEMMA SetRegionKeepsInv ==
  ASSUME Inv, NEW r \in RegionSet, setRegion(r)
  PROVE  Inv'
<1>1. r \in AllRegions /\ loading \in [Parts -> BOOLEAN]
  BY DEF AllRegions, Inv, DashboardTypeOK
<1>2. /\ region' = r /\ r \in Offered /\ SendFor(r, loading)
      /\ UNCHANGED <<table, channels, videos, stats, stale>>
  BY DEF setRegion
<1>3. /\ inFlight' \in [Kinds -> Seq(FetchType)]
      /\ loading' \in [Parts -> BOOLEAN] /\ channelsError' = FALSE
      /\ \A kind \in Kinds : QueueOK(inFlight'[kind], r) /\ inFlight'[kind] # <<>>
  BY <1>1, <1>2, SendForBoth
<1>4. DashboardTypeOK'
  BY <1>1, <1>2, <1>3 DEF Inv, DashboardTypeOK
<1>5. ChoiceOK'
  BY <1>2 DEF Inv, ChoiceOK, Offered, Crashed
<1> QED BY <1>2, <1>3, <1>4, <1>5, SentKeepsInv DEF Inv

\* Taking a fetch away from one queue leaves the other alone.
LEMMA EndedKeeps ==
  ASSUME Inv, NEW kind \in Kinds, NEW i \in 1 .. Len(inFlight[kind]), Ended(kind, i)
  PROVE  /\ inFlight' \in [Kinds -> Seq(FetchType)] /\ stale' \in [Kinds -> BOOLEAN]
         /\ QueueOK(inFlight'[kind], region)
         /\ inFlight'[kind] = <<>> => stale'[kind] \/ inFlight[kind][i].region = region
         /\ \A other \in Kinds \ {kind} : /\ inFlight'[other] = inFlight[other]
                                          /\ stale'[other] = stale[other]
<1>1. /\ inFlight \in [Kinds -> Seq(FetchType)] /\ stale \in [Kinds -> BOOLEAN]
      /\ QueueOK(inFlight[kind], region)
  BY DEF Inv, DashboardTypeOK, VideosOK, ChannelsOK, Kinds
<1>2. /\ inFlight' = [inFlight EXCEPT ![kind] = Overtaken(inFlight[kind], i)]
      /\ stale' = [stale EXCEPT ![kind] = inFlight[kind][i].late]
  BY <1>1 DEF Ended
<1>3. /\ QueueOK(Overtaken(inFlight[kind], i), region)
      /\ Overtaken(inFlight[kind], i) = <<>> =>
           inFlight[kind][i].late \/ inFlight[kind][i].region = region
  BY <1>1, EndedQueue
<1>4. inFlight[kind][i].late \in BOOLEAN
  <2>1. inFlight[kind][i] \in FetchType
    BY <1>1, ElementOfSeq
  <2> QED BY <2>1 DEF FetchType
<1>5. Overtaken(inFlight[kind], i) \in Seq(FetchType)
  BY <1>3 DEF QueueOK
<1> QED BY <1>1, <1>2, <1>3, <1>4, <1>5

\* A fetch of videos ends, with its list or with none.
LEMMA VideosEndKeepsInv ==
  ASSUME Inv, NEW i \in 1 .. Len(inFlight["videos"]), NEW data, VideosEnded(i, data)
  PROVE  Inv'
<1>1. /\ videos'.region = inFlight["videos"][i].region
      /\ loading' = [loading EXCEPT !["videos"] = FALSE] /\ Ended("videos", i)
      /\ UNCHANGED <<table, region, channels, stats, channelsError>>
  BY DEF VideosEnded, Loaded
<1>2. /\ inFlight' \in [Kinds -> Seq(FetchType)] /\ stale' \in [Kinds -> BOOLEAN]
      /\ QueueOK(inFlight'["videos"], region)
      /\ inFlight'["videos"] = <<>> =>
           stale'["videos"] \/ inFlight["videos"][i].region = region
      /\ inFlight'["channels"] = inFlight["channels"]
      /\ stale'["channels"] = stale["channels"]
  BY <1>1, EndedKeeps DEF Kinds
<1>3. /\ loading' \in [Parts -> BOOLEAN] /\ ~ loading'["videos"]
      /\ loading'["channels"] = loading["channels"]
  BY <1>1 DEF Inv, DashboardTypeOK, Parts
<1>4. VideosOK'
  BY <1>1, <1>2, <1>3 DEF VideosOK
<1>5. ChannelsOK'
  BY <1>1, <1>2, <1>3 DEF Inv, ChannelsOK
<1>6. DashboardTypeOK'
  BY <1>1, <1>2, <1>3 DEF Inv, DashboardTypeOK
<1>7. ChoiceOK'
  BY <1>1 DEF Inv, ChoiceOK, Crashed, Offered
<1> QED BY <1>4, <1>5, <1>6, <1>7 DEF Inv

\* A fetch of channels ends: with both lists of its region, or with an error.
LEMMA ChannelsEndKeepsInv ==
  ASSUME Inv, NEW i \in 1 .. Len(inFlight["channels"]), Ended("channels", i),
         loading' = [loading EXCEPT !["channels"] = FALSE], channelsError' \in BOOLEAN,
         \/ channelsError' /\ UNCHANGED channels
         \/ \A s \in Sorts : channels'[s].region = inFlight["channels"][i].region,
         UNCHANGED <<table, region, videos, stats>>
  PROVE  Inv'
<1>1. /\ inFlight' \in [Kinds -> Seq(FetchType)] /\ stale' \in [Kinds -> BOOLEAN]
      /\ QueueOK(inFlight'["channels"], region)
      /\ inFlight'["channels"] = <<>> =>
           stale'["channels"] \/ inFlight["channels"][i].region = region
      /\ inFlight'["videos"] = inFlight["videos"]
      /\ stale'["videos"] = stale["videos"]
  BY EndedKeeps DEF Kinds
<1>2. /\ loading' \in [Parts -> BOOLEAN] /\ ~ loading'["channels"]
      /\ loading'["videos"] = loading["videos"]
  BY DEF Inv, DashboardTypeOK, Parts
<1>3. VideosOK'
  BY <1>1, <1>2 DEF Inv, VideosOK
<1>4. ChannelsOK'
  BY <1>1, <1>2 DEF Inv, ChannelsOK, Sorts
<1>5. DashboardTypeOK'
  BY <1>1, <1>2 DEF Inv, DashboardTypeOK
<1>6. ChoiceOK'
  BY DEF Inv, ChoiceOK, Crashed, Offered
<1> QED BY <1>3, <1>4, <1>5, <1>6 DEF Inv

\* One of the two lists of channels arrives.
LEMMA ChannelsAnsweredKeepsInv ==
  ASSUME Inv, NEW i \in 1 .. Len(inFlight["channels"]), NEW sort \in Sorts,
         ChannelsAnswered(i, sort)
  PROVE  Inv'
<1> DEFINE fetch == inFlight["channels"][i]
<1>1. /\ inFlight \in [Kinds -> Seq(FetchType)] /\ "channels" \in Kinds
      /\ fetch \in FetchType /\ table \in Tables /\ channelsError \in BOOLEAN
  BY ElementOfSeq DEF Inv, DashboardTypeOK, Kinds
<1>2. PICK data \in getTopChannels(recent, fetch.region, 10, sort) :
        LET got == [fetch.got EXCEPT ![sort] = data] IN
        IF \A s \in Sorts : got[s] # NoData
        THEN /\ channels' = [s \in Sorts |->
                               [list |-> OrEmpty(got[s]), region |-> fetch.region]]
             /\ Ended("channels", i)
             /\ loading' = [loading EXCEPT !.channels = FALSE]
        ELSE /\ channels' = channels
             /\ inFlight' = [inFlight EXCEPT !.channels[i].got = got]
             /\ UNCHANGED <<stale, loading>>
  BY DEF ChannelsAnswered, OnBoth
<1>3. UNCHANGED <<table, region, videos, stats, channelsError>>
  BY DEF ChannelsAnswered
<1> DEFINE got == [fetch.got EXCEPT ![sort] = data]
<1>4. CASE \A s \in Sorts : got[s] # NoData
  <2>1. /\ \A s \in Sorts : channels'[s].region = fetch.region
        /\ Ended("channels", i) /\ loading' = [loading EXCEPT !["channels"] = FALSE]
    BY <1>2, <1>4
  <2> QED BY <1>1, <1>3, <2>1, ChannelsEndKeepsInv
<1>5. CASE ~ (\A s \in Sorts : got[s] # NoData)
  <2> DEFINE new == [fetch EXCEPT !.got = got]
             q   == [inFlight["channels"] EXCEPT ![i] = new]
  <2>1. got \in [Sorts -> ChannelsData]
    <3>1. data \in getTopChannels(Tables, fetch.region, 10, sort)
      BY <1>2 DEF getTopChannels, recent
    <3> HIDE DEF fetch
    <3>2. fetch.region \in AllRegions /\ fetch.got \in [Sorts -> ChannelsData]
      BY <1>1 DEF FetchType
    <3> QED BY <3>1, <3>2 DEF ChannelsData
  <2> HIDE DEF got
  <2>2. new \in FetchType /\ new.late = fetch.late /\ new.region = fetch.region
    BY <1>1, <2>1 DEF FetchType
  <2>3. /\ UNCHANGED <<channels, stale, loading>>
        /\ inFlight' = [inFlight EXCEPT !["channels"] = q]
    BY <1>2, <1>5 DEF got
  <2>4. QueueOK(inFlight["channels"], region)
    BY DEF Inv, ChannelsOK
  <2> HIDE DEF new
  <2>5. QueueOK(q, region) /\ q # <<>>
    BY <2>2, <2>4, HalfQueue
  <2> HIDE DEF q
  <2>6. /\ inFlight' \in [Kinds -> Seq(FetchType)] /\ inFlight'["channels"] = q
        /\ inFlight'["videos"] = inFlight["videos"]
    BY <1>1, <2>3, <2>5 DEF QueueOK, Kinds
  <2>7. VideosOK'
    BY <1>3, <2>3, <2>6 DEF Inv, VideosOK
  <2>8. ChannelsOK'
    BY <1>3, <2>3, <2>5, <2>6 DEF Inv, ChannelsOK
  <2>9. DashboardTypeOK'
    BY <1>3, <2>3, <2>6 DEF Inv, DashboardTypeOK
  <2>10. ChoiceOK'
    BY <1>3 DEF Inv, ChoiceOK, Crashed, Offered
  <2> QED BY <2>7, <2>8, <2>9, <2>10 DEF Inv
<1> QED BY <1>4, <1>5

\* The number or the regions arrive; with the second of them the choice changes.
LEMMA StatsAnsweredKeepsInv ==
  ASSUME Inv, NEW half \in StatsHalves, StatsAnswered(half)
  PROVE  Inv'
<1>1. /\ table \in Tables /\ region \in AllRegions /\ loading \in [Parts -> BOOLEAN]
      /\ stats \in [regions : {<<>>} \cup Tracked, pending : BOOLEAN,
                    got : [StatsHalves -> {NoData, "a number"} \cup Tracked]]
      /\ stats.got["regions"] \in {NoData} \cup Tracked
  BY DEF Inv, DashboardTypeOK
<1>2. PICK data \in StatsData(half) : StatsArrived([stats.got EXCEPT ![half] = data])
  BY DEF StatsAnswered
<1>3. UNCHANGED <<table, channels, videos, stale>>
  BY DEF StatsAnswered
<1> DEFINE got == [stats.got EXCEPT ![half] = data]
<1>4. /\ got \in [StatsHalves -> {NoData, "a number"} \cup Tracked]
      /\ got["regions"] \in {NoData} \cup Tracked
  BY <1>1, <1>2 DEF StatsData, StatsHalves, Tracked
<1>5. /\ Loaded("stats") \in [Parts -> BOOLEAN]
      /\ \A kind \in Kinds : Loaded("stats")[kind] = loading[kind]
  BY <1>1 DEF Loaded, Parts, Kinds
<1> HIDE DEF got
<1>6. CASE ~ (\A h \in StatsHalves : got[h] # NoData)
  <2>1. /\ stats' = [stats EXCEPT !.got = got]
        /\ UNCHANGED <<region, inFlight, loading, channelsError>>
    BY <1>2, <1>6 DEF StatsArrived, got
  <2>2. /\ stats' \in [regions : {<<>>} \cup Tracked, pending : BOOLEAN,
                       got : [StatsHalves -> {NoData, "a number"} \cup Tracked]]
        /\ stats'.got["regions"] \in {NoData} \cup Tracked
        /\ stats'.regions = stats.regions /\ stats'.pending = stats.pending
    BY <1>1, <1>4, <2>1
  <2>3. DashboardTypeOK'
    BY <1>3, <2>1, <2>2 DEF Inv, DashboardTypeOK
  <2>4. VideosOK' /\ ChannelsOK'
    BY <1>3, <2>1 DEF Inv, VideosOK, ChannelsOK
  <2>5. ChoiceOK'
    BY <2>1, <2>2 DEF Inv, ChoiceOK, Crashed, Offered
  <2> QED BY <2>3, <2>4, <2>5 DEF Inv
<1>7. CASE \A h \in StatsHalves : got[h] # NoData
  <2> DEFINE regions == got["regions"]
  <2>1. /\ stats' = [regions |-> regions, pending |-> FALSE, got |-> stats.got]
        /\ IF Crashed' \/ Corrected(regions) = region
           THEN /\ loading' = Loaded("stats")
                /\ UNCHANGED <<region, inFlight, channelsError>>
           ELSE /\ region' = Corrected(regions)
                /\ SendFor(region', Loaded("stats"))
    BY <1>2, <1>7 DEF StatsArrived, got
  <2>2. regions \in Tracked
    BY <1>4, <1>7 DEF StatsHalves
  <2> HIDE DEF regions
  <2>3. /\ stats' \in [regions : {<<>>} \cup Tracked, pending : BOOLEAN,
                       got : [StatsHalves -> {NoData, "a number"} \cup Tracked]]
        /\ stats'.got["regions"] \in {NoData} \cup Tracked
        /\ stats'.regions = regions /\ ~ stats'.pending
    BY <1>1, <2>1, <2>2
  <2>4. Crashed' <=> regions = Undefined
    BY <2>3 DEF Crashed
  <2>5. ~ Crashed' => /\ Corrected(regions) \in Range(regions)
                      /\ Range(regions) \subseteq AllRegions
                      /\ Offered' = Range(regions)
    <3>1. ASSUME ~ Crashed'
          PROVE  /\ regions # <<>> /\ regions[1] \in Range(regions)
                 /\ Range(regions) \subseteq AllRegions
      BY <2>2, <2>4, <3>1, TrackedRegions
    <3> QED BY <2>3, <3>1 DEF Corrected, Offered
  <2>6. CASE Crashed' \/ Corrected(regions) = region
    <3>1. loading' = Loaded("stats") /\ UNCHANGED <<region, inFlight, channelsError>>
      BY <2>1, <2>6
    <3>2. DashboardTypeOK'
      BY <1>3, <1>5, <2>3, <3>1 DEF Inv, DashboardTypeOK
    <3>3. VideosOK' /\ ChannelsOK'
      BY <1>3, <1>5, <3>1 DEF Inv, VideosOK, ChannelsOK, Kinds
    <3>4. ChoiceOK'
      BY <2>3, <2>5, <2>6, <3>1 DEF ChoiceOK
    <3> QED BY <3>2, <3>3, <3>4 DEF Inv
  <2>7. CASE ~ (Crashed' \/ Corrected(regions) = region)
    <3>1. region' = Corrected(regions) /\ SendFor(region', Loaded("stats"))
          /\ region' \in AllRegions
      BY <2>1, <2>5, <2>7
    <3>2. /\ inFlight' \in [Kinds -> Seq(FetchType)]
          /\ loading' \in [Parts -> BOOLEAN] /\ channelsError' = FALSE
          /\ \A kind \in Kinds : QueueOK(inFlight'[kind], region') /\ inFlight'[kind] # <<>>
      BY <1>5, <3>1, SendForBoth
    <3>3. DashboardTypeOK'
      BY <1>3, <2>3, <3>1, <3>2 DEF Inv, DashboardTypeOK
    <3>4. ChoiceOK'
      BY <2>3, <2>5, <2>7, <3>1 DEF ChoiceOK
    <3> QED BY <1>3, <3>2, <3>3, <3>4, SentKeepsInv DEF Inv
  <2> QED BY <2>6, <2>7
<1> QED BY <1>6, <1>7

LEMMA StatsFailedKeepsInv ==
  ASSUME Inv, StatsFailed, stats.pending
  PROVE  Inv'
<1>1. /\ loading' \in [Parts -> BOOLEAN]
      /\ \A kind \in Kinds : loading'[kind] = loading[kind]
  BY DEF StatsFailed, Loaded, Inv, DashboardTypeOK, Parts, Kinds
<1>2. /\ stats' \in [regions : {<<>>} \cup Tracked, pending : BOOLEAN,
                     got : [StatsHalves -> {NoData, "a number"} \cup Tracked]]
      /\ stats'.regions = stats.regions /\ stats'.got = stats.got /\ ~ stats'.pending
  BY DEF StatsFailed, Inv, DashboardTypeOK
<1>3. UNCHANGED <<table, region, channels, videos, channelsError, inFlight, stale>>
  BY DEF StatsFailed
<1>4. DashboardTypeOK'
  BY <1>1, <1>2, <1>3 DEF Inv, DashboardTypeOK
<1>5. VideosOK' /\ ChannelsOK'
  BY <1>1, <1>3 DEF Inv, VideosOK, ChannelsOK, Kinds
<1>6. ChoiceOK'
  BY <1>2, <1>3 DEF Inv, ChoiceOK, Crashed, Offered
<1> QED BY <1>4, <1>5, <1>6 DEF Inv

LEMMA StepKeepsInv ==
  ASSUME Inv, [Next]_vars
  PROVE  Inv'
<1>1. \A kind \in Kinds : DOMAIN inFlight[kind] = 1 .. Len(inFlight[kind])
  BY LenProperties DEF Inv, DashboardTypeOK
<1>2. ASSUME NEW r \in RegionSet, setRegion(r) PROVE Inv'
  BY <1>2, SetRegionKeepsInv
<1>3. CASE ChannelsEnd
  <2>1. PICK i \in 1 .. Len(inFlight["channels"]) :
          ChannelsFailed(i) \/ \E sort \in Sorts : ChannelsAnswered(i, sort)
    BY <1>1, <1>3 DEF ChannelsEnd, Kinds
  <2>2. CASE ChannelsFailed(i)
    <3>1. /\ Ended("channels", i) /\ loading' = [loading EXCEPT !["channels"] = FALSE]
          /\ channelsError' = TRUE
          /\ UNCHANGED <<table, region, channels, videos, stats>>
      BY <2>2 DEF ChannelsFailed, Loaded
    <3> QED BY <3>1, ChannelsEndKeepsInv
  <2>3. CASE \E sort \in Sorts : ChannelsAnswered(i, sort)
    BY <2>3, ChannelsAnsweredKeepsInv
  <2> QED BY <2>1, <2>2, <2>3
<1>4. CASE VideosEnd
  <2>1. PICK i \in 1 .. Len(inFlight["videos"]) : VideosAnswered(i) \/ VideosFailed(i)
    BY <1>1, <1>4 DEF VideosEnd, Kinds
  <2> QED BY <2>1, VideosEndKeepsInv DEF VideosAnswered, VideosFailed
<1>5. CASE StatsEnd
  BY <1>5, StatsAnsweredKeepsInv, StatsFailedKeepsInv DEF StatsEnd
<1>6. CASE Ingest
  <2>1. table' \in Tables
        /\ UNCHANGED <<region, channels, videos, stats, loading, channelsError,
                       inFlight, stale>>
    BY <1>6 DEF Ingest
  <2>2. DashboardTypeOK'
    BY <2>1 DEF Inv, DashboardTypeOK
  <2>3. VideosOK' /\ ChannelsOK' /\ ChoiceOK'
    BY <2>1 DEF Inv, VideosOK, ChannelsOK, ChoiceOK, Crashed, Offered
  <2> QED BY <2>2, <2>3 DEF Inv
<1>7. CASE UNCHANGED vars
  <2>1. DashboardTypeOK'
    BY <1>7 DEF vars, Inv, DashboardTypeOK
  <2>2. VideosOK' /\ ChannelsOK' /\ ChoiceOK'
    BY <1>7 DEF vars, Inv, VideosOK, ChannelsOK, ChoiceOK, Crashed, Offered
  <2> QED BY <2>1, <2>2 DEF Inv
<1> QED BY <1>2, <1>3, <1>4, <1>5, <1>6, <1>7 DEF Next

\* The first fetches are for the first region.
LEMMA InitInv == Init => Inv
<1>1. ASSUME Init PROVE Inv
  <2>1. "US" \in RegionSet /\ "US" \in AllRegions
    BY DashboardAssumption DEF RegionSet, AllRegions
  <2>2. QueueOK(<<Fetch("US")>>, "US") /\ <<Fetch("US")>> # <<>>
    <3> DEFINE new == Fetch("US")
    <3>1. new \in FetchType /\ new.region = "US"
      BY <2>1 DEF Fetch, FetchType, Unanswered, ChannelsData
    <3> HIDE DEF new
    <3>2. /\ <<new>> \in Seq(FetchType) /\ Len(<<new>>) = 1 /\ <<new>>[1] = new
          /\ <<new>> # <<>>
      BY <3>1
    <3>3. \A j, k \in 1 .. 1 : ~ (j < k)
      OBVIOUS
    <3> QED BY <3>1, <3>2, <3>3 DEF QueueOK, new
  <2>3. inFlight["videos"] = <<Fetch("US")>> /\ inFlight["channels"] = <<Fetch("US")>>
        /\ inFlight = [kind \in Kinds |-> <<Fetch("US")>>] /\ region = "US"
    BY <1>1 DEF Init, Kinds
  <2>4. <<Fetch("US")>> \in Seq(FetchType)
    BY <2>2 DEF QueueOK
  <2>5. stats \in [regions : {<<>>} \cup Tracked, pending : BOOLEAN,
                   got : [StatsHalves -> {NoData, "a number"} \cup Tracked]]
        /\ stats.got["regions"] = NoData /\ stats.regions = <<>>
    BY <1>1 DEF Init, StatsHalves
  <2>6. DashboardTypeOK
    <3>1. loading \in [Parts -> BOOLEAN]
      <4>1. loading \in [channels : BOOLEAN, videos : BOOLEAN, stats : BOOLEAN]
        BY <1>1 DEF Init
      <4> QED BY <4>1 DEF Parts
    <3>2. inFlight \in [Kinds -> Seq(FetchType)] /\ stale \in [Kinds -> BOOLEAN]
      BY <1>1, <2>3, <2>4 DEF Init
    <3>3. table \in Tables /\ region \in AllRegions /\ channelsError \in BOOLEAN
      BY <1>1, <2>1 DEF Init
    <3> QED BY <2>5, <3>1, <3>2, <3>3 DEF DashboardTypeOK
  <2>7. VideosOK
    BY <2>2, <2>3 DEF VideosOK
  <2>8. ChannelsOK
    BY <1>1, <2>2, <2>3 DEF Init, ChannelsOK, Sorts
  <2>9. ChoiceOK
    BY <2>1, <2>3, <2>5 DEF ChoiceOK, Offered
  <2> QED BY <2>6, <2>7, <2>8, <2>9 DEF Inv
<1> QED BY <1>1

-----------------------------------------------------------------------------
(* The most viewed video.                                                  *)

\* The smaller of two numbers.
LEMMA MinOfTwo ==
  ASSUME NEW a \in Int, NEW b \in Int
  PROVE  Min({a, b}) = IF a <= b THEN a ELSE b
<1> DEFINE m == IF a <= b THEN a ELSE b
<1>1. m \in {a, b} /\ \A y \in {a, b} : m <= y
  OBVIOUS
<1>2. \A x \in {a, b} : (\A y \in {a, b} : x <= y) => x = m
  OBVIOUS
<1> QED BY <1>1, <1>2 DEF Min
\* Numbers have a smallest.
LEMMA Smallest ==
  ASSUME NEW S \in SUBSET Nat, S # {}
  PROVE  \E x \in S : \A y \in S : x <= y
<1> DEFINE Less == OpToRel(<, Nat)
<1>1. PICK x \in S : \A y \in S : ~ (<<y, x>> \in Less)
  BY NatLessThanWellFounded, WFMin
<1>2. ASSUME NEW y \in S PROVE x <= y
  <2>1. Less = {ss \in Nat \X Nat : ss[1] < ss[2]}
    BY DEF OpToRel
  <2> HIDE DEF Less
  <2>2. <<y, x>> \in Nat \X Nat /\ <<y, x>>[1] = y /\ <<y, x>>[2] = x
    OBVIOUS
  <2>3. ~ (y < x)
    BY <1>1, <2>1, <2>2
  <2> QED BY <2>3
<1> QED BY <1>2
\* And some of them up to a bound a largest.
LEMMA Largest ==
  ASSUME NEW n \in Nat, NEW S \in SUBSET (1 .. n), S # {}
  PROVE  \E x \in S : \A y \in S : y <= x
<1> DEFINE D == { n - y : y \in S }
<1>1. D \in SUBSET Nat /\ D # {}
  <2>1. \A y \in S : n - y \in Nat
    OBVIOUS
  <2>2. PICK y \in S : TRUE
    OBVIOUS
  <2>3. n - y \in D
    OBVIOUS
  <2> QED BY <2>1, <2>3
<1>2. PICK d \in D : \A e \in D : d <= e
  BY <1>1, Smallest
<1>3. PICK x \in S : d = n - x
  OBVIOUS
<1>4. ASSUME NEW y \in S PROVE y <= x
  <2>1. n - x <= n - y
    BY <1>2, <1>3
  <2> QED BY <2>1
<1> QED BY <1>4

\* Lists of a finite set have each of its elements, and each once.
LEMMA ListsOfAll ==
  ASSUME NEW S, IsFiniteSet(S), NEW order \in SetToSeqs(S)
  PROVE  /\ order \in Seq(S) /\ DOMAIN order = 1 .. Len(order)
         /\ Len(order) \in Nat /\ Len(order) = Cardinality(S)
         /\ \A x \in S : \E i \in DOMAIN order : order[i] = x
<1> DEFINE c == Cardinality(S)
<1>1. c \in Nat
  BY FS_CardinalityType
<1>2. /\ order \in [1 .. c -> S]
      /\ \A i, j \in 1 .. c : i # j => order[i] # order[j]
  BY DEF SetToSeqs
<1> HIDE DEF c
<1>3. order \in Seq(S) /\ Len(order) = c
  BY <1>1, <1>2, SeqDef
<1>4. order \in Injection(1 .. c, S)
  BY <1>2 DEF Injection, IsInjective
<1>5. Cardinality(1 .. c) = c
  BY <1>1, FS_Interval
<1>6. order \in Surjection(1 .. c, S)
  BY <1>4, <1>5, FS_Injection DEF c
<1> QED BY <1>1, <1>2, <1>3, <1>6 DEF Surjection, c

\* The videos the page can be told of, and their lists: most views first.
Videos == { VideoJson(row) : row \in UNION Tables }

MostViewsFirst(l) ==
  /\ l \in Seq(Videos)
  /\ \A j, k \in 1 .. Len(l) : j < k => OrZero(l[k].view_count) <= OrZero(l[j].view_count)

\* A count is a number or missing, and a video is not the lack of one.
LEMMA VideoCounts ==
  ASSUME NEW v \in Videos
  PROVE  /\ v # NoData /\ OrZero(v.view_count) \in Int
         /\ v.view_count # Undefined => v.view_count \in Int /\ v.view_count # 0
         /\ v.view_count = Undefined => OrZero(v.view_count) = 0
<1>1. PICK row \in UNION Tables : v = VideoJson(row)
  BY DEF Videos
<1>2. row.view_count \in Int /\ v # NoData /\ Undefined \notin Int
  BY <1>1, DashboardAssumption
<1>3. v.view_count = IF row.view_count = 0 THEN Undefined ELSE row.view_count
  BY <1>1 DEF VideoJson, Omit
<1> QED BY <1>2, <1>3 DEF OrZero

\* A video does not beat one with no fewer views, and none beats one without.
LEMMA NotBetter ==
  ASSUME NEW v \in Videos, NEW w \in Videos,
         OrZero(v.view_count) <= OrZero(w.view_count)
  PROVE  ~ Better(v, w)
<1>1. ASSUME v.view_count # Undefined, w.view_count # Undefined
      PROVE  ~ (v.view_count > w.view_count)
  <2>1. v.view_count \in Int /\ w.view_count \in Int /\ v.view_count <= w.view_count
    BY <1>1, VideoCounts DEF OrZero
  <2> QED BY <2>1
<1> QED BY <1>1 DEF Better, IsNumber

\* The largest of the places of a list.
LEMMA MaxIs ==
  ASSUME NEW n \in Nat, NEW S \in SUBSET (1 .. n), NEW x \in S, \A y \in S : y <= x
  PROVE  Max(S) = x
<1>1. \A y \in S : x >= y
  OBVIOUS
<1>2. ASSUME NEW z \in S, \A y \in S : z >= y PROVE z = x
  <2>1. z \in Nat /\ x \in Nat /\ z >= x /\ x >= z
    BY <1>1, <1>2
  <2> QED BY <2>1
<1> QED BY <1>1, <1>2 DEF Max

\* The reduce over a list that has most views first finds its first: every
\* other has no more views, and the comparison needs more.
LEMMA FirstIsMostViewed ==
  ASSUME NEW l, MostViewsFirst(l), videos.list = l
  PROVE  mostViewed = IF l = <<>> THEN NoData ELSE l[1]
<1> DEFINE n == Len(l)
           op(best, v) == IF best = NoData \/ Better(v, best) THEN v ELSE best
           Step(f, s) == IF s = {} THEN NoData ELSE op(f[s \ {Max(s)}], l[Max(s)])
           Fits(f) == f = [s \in SUBSET (1 .. n) |-> Step(f, s)]
           f == CHOOSE h : Fits(h)
<1>1. l \in Seq(Videos) /\ n \in Nat /\ DOMAIN l = 1 .. n
      /\ \A j \in 1 .. n : l[j] \in Videos
  BY LenProperties, ElementOfSeq DEF MostViewsFirst
<1>2. mostViewed = f[1 .. n]
  <2>1. DOMAIN l = 1 .. n
    BY <1>1
  <2> HIDE DEF n
  <2> QED BY <2>1 DEF mostViewed, FoldLeft, MapThenFoldSet
<1> DEFINE g == [s \in SUBSET (1 .. n) |-> IF s = {} THEN NoData ELSE l[Min(s)]]
<1>3. ASSUME NEW s \in SUBSET (1 .. n), s # {}
      PROVE  /\ Max(s) \in s /\ \A y \in s : y <= Max(s)
             /\ Min(s) \in s /\ \A y \in s : Min(s) <= y
  <2>1. PICK x \in s : \A y \in s : y <= x
    BY <1>1, <1>3, Largest
  <2>2. s \in SUBSET Nat
    BY <1>1
  <2>3. PICK y \in s : \A z \in s : y <= z
    BY <1>3, <2>2, Smallest
  <2>4. Max(s) = x
    BY <1>1, <2>1, MaxIs
  <2>5. Min(s) \in s /\ \A z \in s : Min(s) <= z
    BY <2>3 DEF Min
  <2> QED BY <2>1, <2>4, <2>5
<1>4. \A s \in SUBSET (1 .. n) : g[s] = IF s = {} THEN NoData ELSE l[Min(s)]
  OBVIOUS
<1>5. ASSUME NEW s \in SUBSET (1 .. n) PROVE g[s] = Step(g, s)
  <2> DEFINE x == Max(s)
             rest == s \ {x}
  <2>1. CASE s = {}
    BY <1>4, <2>1
  <2>2. CASE s # {} /\ rest = {}
    <3>1. x \in s /\ Min(s) \in s
      BY <1>3, <2>2
    <3>2. Min(s) = x
      BY <2>2, <3>1
    <3>3. g[s] = l[x] /\ g[rest] = NoData
      BY <1>4, <2>2, <3>2
    <3> HIDE DEF g
    <3> QED BY <2>2, <3>3
  <2>3. CASE s # {} /\ rest # {}
    <3> DEFINE m == Min(s)
    <3>1. x \in s /\ m \in s /\ (\A y \in s : y <= x) /\ (\A y \in s : m <= y)
      BY <1>3, <2>3
    <3>2. rest \in SUBSET (1 .. n) /\ m \in Nat /\ x \in Nat /\ m \in 1 .. n /\ x \in 1 .. n
      BY <1>1, <3>1
    <3>3. Min(rest) \in rest /\ \A y \in rest : Min(rest) <= y
      BY <1>3, <2>3, <3>2
    <3> HIDE DEF m, x
    <3>4. m # x /\ m < x
      <4>1. Min(rest) \in s /\ Min(rest) # x /\ Min(rest) \in 1 .. n
        BY <3>2, <3>3
      <4>2. Min(rest) \in Nat /\ m <= Min(rest) /\ Min(rest) <= x
        BY <3>1, <4>1
      <4> QED BY <3>2, <4>1, <4>2
    <3>5. Min(rest) = m
      <4>1. m \in rest
        BY <3>1, <3>4
      <4>2. Min(rest) \in s /\ Min(rest) \in 1 .. n
        BY <3>2, <3>3
      <4> HIDE DEF rest
      <4>3. Min(rest) <= m
        BY <3>3, <4>1
      <4>4. m <= Min(rest) /\ Min(rest) \in Nat
        BY <3>1, <4>2
      <4> QED BY <3>2, <4>3, <4>4
    <3>6. g[s] = l[m] /\ g[rest] = l[m]
      BY <1>4, <2>3, <3>2, <3>5 DEF m
    <3>7. ~ Better(l[x], l[m]) /\ l[m] # NoData
      <4>1. OrZero(l[x].view_count) <= OrZero(l[m].view_count)
        BY <3>2, <3>4 DEF MostViewsFirst
      <4>2. l[x] \in Videos /\ l[m] \in Videos
        BY <1>1, <3>2
      <4> QED BY <4>1, <4>2, NotBetter, VideoCounts
    <3> HIDE DEF g, rest
    <3>8. Step(g, s) = op(g[rest], l[x])
      BY <2>3 DEF x, rest
    <3> QED BY <3>6, <3>7, <3>8
  <2> QED BY <2>1, <2>2, <2>3
<1>6. Fits(g)
  <2>1. g = [s \in SUBSET (1 .. n) |-> g[s]]
    OBVIOUS
  <2> HIDE DEF g, Step
  <2> QED BY <1>5, <2>1
<1> HIDE DEF g
<1>7. Fits(f)
  <2> HIDE DEF Fits
  <2> QED BY <1>6
<1> HIDE DEF f
<1>8. \A s \in SUBSET (1 .. n) : f[s] = Step(f, s)
  <2> HIDE DEF Step
  <2> QED BY <1>7
<1> HIDE DEF Fits
<1>9. ASSUME NEW k \in 1 .. n
      PROVE  /\ 1 .. k # {} /\ 1 .. k \in SUBSET (1 .. n) /\ Max(1 .. k) = k
             /\ (1 .. k) \ {k} = 1 .. k - 1
  <2>1. k \in 1 .. k /\ 1 .. k \in SUBSET (1 .. n) /\ \A y \in 1 .. k : y <= k
    BY <1>1
  <2>2. Max(1 .. k) = k
    BY <1>1, <2>1, MaxIs
  <2>3. (1 .. k) \ {k} = 1 .. k - 1
    BY <1>1
  <2> QED BY <2>1, <2>2, <2>3
<1>10. ASSUME NEW k \in 1 .. n, k # 1 => f[1 .. k - 1] = l[1] PROVE f[1 .. k] = l[1]
  <2>1. f[1 .. k] = op(f[1 .. k - 1], l[k])
    <3> DEFINE t == 1 .. k
               r == 1 .. k - 1
    <3>1. t # {} /\ t \in SUBSET (1 .. n) /\ Max(t) = k /\ t \ {k} = r
      BY <1>9
    <3> HIDE DEF t, r, op
    <3>2. f[t] = op(f[t \ {Max(t)}], l[Max(t)])
      BY <1>8, <3>1
    <3>3. f[t] = op(f[r], l[k])
      BY <3>1, <3>2
    <3> QED BY <3>3 DEF t, r
  <2>2. CASE k = 1
    <3>1. 1 .. k - 1 = {} /\ {} \in SUBSET (1 .. n)
      BY <2>2
    <3>2. f[1 .. k - 1] = NoData
      BY <1>8, <3>1
    <3> QED BY <2>1, <2>2, <3>2
  <2>3. CASE k # 1
    <3>1. 1 \in 1 .. n /\ 1 < k
      BY <1>1, <2>3
    <3>2. OrZero(l[k].view_count) <= OrZero(l[1].view_count)
      BY <3>1 DEF MostViewsFirst
    <3>3. ~ Better(l[k], l[1]) /\ l[1] # NoData
      BY <1>1, <3>1, <3>2, NotBetter, VideoCounts
    <3> QED BY <1>10, <2>1, <2>3, <3>3
  <2> QED BY <2>2, <2>3
<1> HIDE DEF op, Step
<1> DEFINE D == { k \in 1 .. n : f[1 .. k] # l[1] }
<1>11. D = {}
  <2> SUFFICES ASSUME D # {} PROVE FALSE
    OBVIOUS
  <2>1. D \in SUBSET Nat
    OBVIOUS
  <2>2. PICK k \in D : \A y \in D : k <= y
    BY <2>1, Smallest
  <2>3. k \in 1 .. n /\ f[1 .. k] # l[1]
    OBVIOUS
  <2>4. k # 1 => k - 1 \in 1 .. n /\ ~ (k <= k - 1)
    BY <1>1, <2>3
  <2>5. k # 1 => f[1 .. k - 1] = l[1]
    BY <2>2, <2>4
  <2> QED BY <1>10, <2>3, <2>5
<1>12. CASE l = <<>>
  <2>1. n = 0 /\ 1 .. n = {} /\ {} \in SUBSET (1 .. n)
    BY <1>12
  <2>2. f[1 .. n] = NoData
    BY <1>8, <2>1 DEF Step
  <2> QED BY <1>2, <1>12, <2>2
<1>13. CASE l # <<>>
  <2>1. n \in 1 .. n
    BY <1>1, <1>13, EmptySeq
  <2>2. f[1 .. n] = l[1]
    BY <1>11, <2>1
  <2> QED BY <1>2, <1>13, <2>2
<1> QED BY <1>12, <1>13

\* A count that went through JSON is the count.
LEMMA CountKept ==
  ASSUME NEW row \in UNION Tables
  PROVE  /\ row.view_count \in Int /\ VideoJson(row) \in Videos
         /\ OrZero(VideoJson(row).view_count) = row.view_count
<1>1. row.view_count \in Int /\ Undefined \notin Int
  BY DashboardAssumption
<1>2. VideoJson(row).view_count = IF row.view_count = 0 THEN Undefined ELSE row.view_count
  BY DEF VideoJson, Omit
<1> QED BY <1>1, <1>2 DEF OrZero, Videos

\* What getVideos answers has most views first.
LEMMA AnswersInOrder ==
  ASSUME NEW r, NEW data \in getVideos(recent, r, AnyCategory, 200)
  PROVE  MostViewsFirst(OrEmpty(data))
<1>0. PICK t \in Tables : \E rows \in GetVideos(t, r, AnyCategory, 200, 0) :
        data = Each(VideoJson, rows)
  BY DEF getVideos, recent
<1>1. PICK rows \in GetVideos(t, r, AnyCategory, 200, 0) : data = Each(VideoJson, rows)
  BY <1>0
<1>2. PICK some \in Newest(InFilter(t, r, AnyCategory)) :
        \E all \in OrderedBy(some, "view_count") : rows = Page(all, 200, 0)
  BY <1>1 DEF GetVideos
<1>3. PICK all \in OrderedBy(some, "view_count") : rows = Page(all, 200, 0)
  BY <1>2
<1>4. some \in SUBSET t /\ IsFiniteSet(some)
  <2>1. some \in SUBSET t
    BY <1>2 DEF Newest, InFilter, InRegion
  <2> QED BY <2>1, DashboardAssumption, FS_Subset
<1>5. /\ all \in Seq(some) /\ Len(all) \in Nat /\ DOMAIN all = 1 .. Len(all)
      /\ \A j, k \in DOMAIN all : j < k => all[j].view_count >= all[k].view_count
  <2>1. all \in SetToSeqs(some)
        /\ \A j, k \in DOMAIN all : j < k => all[j]["view_count"] >= all[k]["view_count"]
    BY DEF OrderedBy
  <2> QED BY <1>4, <2>1, ListsOfAll
<1>6. \A j \in 1 .. Len(all) : all[j] \in UNION Tables
  BY <1>4, <1>5, ElementOfSeq
<1> DEFINE n == Len(rows)
<1>7. /\ rows \in Seq(UNION Tables) /\ n \in Nat /\ n <= Len(all) /\ DOMAIN rows = 1 .. n
      /\ \A k \in 1 .. n : rows[k] = all[k]
  <2> DEFINE to == Min({0 + 200, Len(all)})
  <2>1. rows = SubSeq(all, 0 + 1, to)
    BY <1>3 DEF Page
  <2>2. to \in Nat /\ to <= Len(all)
    <3>1. 0 + 200 \in Int /\ Len(all) \in Int
      BY <1>5
    <3>2. to = IF 0 + 200 <= Len(all) THEN 0 + 200 ELSE Len(all)
      BY <3>1, MinOfTwo
    <3> QED BY <1>5, <3>1, <3>2
  <2> HIDE DEF to
  <2>3. 1 \in Int /\ to \in Int /\ \A k \in 1 .. to : all[k] \in UNION Tables
    BY <1>5, <1>6, <2>2
  <2>4. rows = SubSeq(all, 1, to)
    BY <2>1
  <2>5. /\ rows \in Seq(UNION Tables) /\ Len(rows) = IF 1 <= to THEN to - 1 + 1 ELSE 0
        /\ \A k \in 1 .. to - 1 + 1 : rows[k] = all[1 + k - 1]
    BY <2>3, <2>4, SubSeqProperties
  <2>6. n = to
    BY <2>2, <2>5
  <2>7. ASSUME NEW k \in 1 .. to PROVE rows[k] = all[k]
    <3>1. k \in 1 .. to - 1 + 1 /\ 1 + k - 1 = k
      BY <2>2
    <3> QED BY <2>5, <3>1
  <2>8. DOMAIN rows = 1 .. n
    BY <2>5, LenProperties
  <2> QED BY <2>2, <2>5, <2>6, <2>7, <2>8
<1> DEFINE json == [k \in 1 .. n |-> VideoJson(rows[k])]
<1> HIDE DEF n
<1>8. \A k \in 1 .. n : rows[k] \in UNION Tables /\ json[k] = VideoJson(rows[k])
  <2>1. \A k \in 1 .. n : k \in 1 .. Len(all)
    BY <1>5, <1>7
  <2> QED BY <1>6, <1>7, <2>1
<1>9. json \in Seq(Videos) /\ Len(json) = n
  <2>1. \A k \in 1 .. n : json[k] \in Videos
    BY <1>8, CountKept
  <2>2. json \in [1 .. n -> Videos]
    BY <2>1
  <2> HIDE DEF json
  <2>3. json \in Seq(Videos)
    BY <1>7, <2>2, SeqDef
  <2> QED BY <1>7, <2>2, <2>3, LenProperties
<1>10. ASSUME NEW j \in 1 .. n, NEW k \in 1 .. n, j < k
       PROVE  OrZero(json[k].view_count) <= OrZero(json[j].view_count)
  <2>1. /\ OrZero(json[j].view_count) = rows[j].view_count
        /\ OrZero(json[k].view_count) = rows[k].view_count
        /\ rows[j].view_count \in Int /\ rows[k].view_count \in Int
    BY <1>8, CountKept
  <2>2. rows[j] = all[j] /\ rows[k] = all[k]
    BY <1>7
  <2>3. j \in DOMAIN all /\ k \in DOMAIN all
    BY <1>5, <1>7
  <2>4. all[j].view_count >= all[k].view_count
    BY <1>5, <1>10, <2>3
  <2> HIDE DEF json
  <2> QED BY <2>1, <2>2, <2>4
<1>11. MostViewsFirst(json) /\ MostViewsFirst(<<>>)
  <2>1. <<>> \in Seq(Videos) /\ 1 .. Len(<<>>) = {}
    BY EmptySeq
  <2> HIDE DEF json
  <2> QED BY <1>9, <1>10, <2>1 DEF MostViewsFirst
<1>12. data = OmitList(json)
  BY <1>1, <1>7 DEF Each
<1> HIDE DEF json
<1>13. OrEmpty(data) = json \/ OrEmpty(data) = <<>>
  BY <1>12 DEF OmitList, OrEmpty
<1> QED BY <1>11, <1>13

\* Only an answer or an error changes the list.
LEMMA StepKeepsOrder ==
  ASSUME Inv, MostViewsFirst(videos.list), [Next]_vars
  PROVE  MostViewsFirst(videos'.list)
<1>1. table \in Tables
  BY DEF Inv, DashboardTypeOK
<1>2. CASE VideosEnd
  <2>1. PICK i \in DOMAIN inFlight["videos"] : VideosAnswered(i) \/ VideosFailed(i)
    BY <1>2 DEF VideosEnd
  <2>2. CASE VideosAnswered(i)
    <3>1. PICK data \in getVideos(recent, inFlight["videos"][i].region, AnyCategory, 200) :
            VideosEnded(i, OrEmpty(data))
      BY <2>2 DEF VideosAnswered
    <3>2. videos'.list = OrEmpty(data)
      BY <3>1 DEF VideosEnded
    <3> QED BY <1>1, <3>1, <3>2, AnswersInOrder
  <2>3. CASE VideosFailed(i)
    <3>1. videos'.list = <<>>
      BY <2>3 DEF VideosFailed, VideosEnded
    <3>2. <<>> \in Seq(Videos) /\ 1 .. Len(<<>>) = {}
      BY EmptySeq
    <3> QED BY <3>1, <3>2 DEF MostViewsFirst
  <2> QED BY <2>1, <2>2, <2>3
<1>3. CASE ~ VideosEnd
  <2>1. UNCHANGED videos
    BY <1>3 DEF Next, vars, setRegion, ChannelsEnd, ChannelsFailed, ChannelsAnswered,
                StatsEnd, StatsAnswered, StatsFailed, Ingest
  <2> QED BY <2>1
<1> QED BY <1>2, <1>3

-----------------------------------------------------------------------------
(* The theorems.                                                           *)

\* The invariant holds in every state.
THEOREM Invariance == Spec => []Inv
<1>1. Init => Inv
  BY InitInv
<1>2. Inv /\ [Next]_vars => Inv'
  BY StepKeepsInv
<1> QED BY <1>1, <1>2, PTL DEF Spec

\* The two charts are of one region at any time (analytics-dashboard.tsx:81-86).
THEOREM ChartsAreOfOneRegion == Spec => []ChartsAgree
<1>1. Inv => ChartsAgree
  BY DEF Inv, ChannelsOK, ChartsAgree
<1> QED BY <1>1, Invariance, PTL

\* However the choice changes under the user, the selected region is in it, and
\* the card counts what is in it (analytics-dashboard.tsx:117, 151, 198).
THEOREM TheRegionIsOffered == Spec => []RegionIsOffered
<1>1. Inv => RegionIsOffered
  <2>1. ASSUME Inv, ~ Crashed, RegionsTracked[1] = "shown"
        PROVE  RegionsTracked[2] = Cardinality(Offered)
    <3>1. RegionsTracked = Card(loading.stats, stats.regions # <<>>, Len(stats.regions))
      BY <2>1 DEF RegionsTracked
    <3>2. stats.regions # <<>> /\ RegionsTracked[2] = Len(stats.regions)
      BY <2>1, <3>1 DEF Card
    <3>3. stats.regions \in Tracked /\ stats.regions # Undefined
      BY <2>1, <3>2 DEF Inv, DashboardTypeOK, Crashed
    <3>4. Len(stats.regions) = Cardinality(Range(stats.regions))
      BY <3>3, TrackedRegions
    <3> QED BY <3>2, <3>4 DEF Offered
  <2> QED BY <2>1 DEF Inv, ChoiceOK, RegionIsOffered
<1> QED BY <1>1, Invariance, PTL

\* A region chosen while the tracked ones were on their way is kept if it is one
\* of them (analytics-dashboard.tsx:117).
THEOREM TheChoiceIsKept == Spec => ChoiceIsKept
<1> DEFINE Kept == stats.pending /\ ~ stats'.pending /\ ~ Crashed'
                     /\ region \in Range(stats'.regions) => region' = region
<1>1. Inv /\ [Next]_vars => [Kept]_vars
  <2>1. ASSUME Inv, Next, stats.pending, ~ stats'.pending, ~ Crashed',
               region \in Range(stats'.regions)
        PROVE  region' = region
    <3>1. stats \in [regions : {<<>>} \cup Tracked, pending : BOOLEAN,
                     got : [StatsHalves -> {NoData, "a number"} \cup Tracked]]
      BY <2>1 DEF Inv, DashboardTypeOK
    <3>2. CASE StatsFailed
      BY <3>2 DEF StatsFailed
    <3>3. ASSUME NEW half \in StatsHalves, StatsAnswered(half) PROVE region' = region
      <4>1. PICK got : StatsArrived(got)
        BY <3>3 DEF StatsAnswered
      <4>2. ~ (stats' = [stats EXCEPT !.got = got])
        BY <2>1, <3>1
      <4>3. /\ stats' = [regions |-> got.regions, pending |-> FALSE, got |-> stats.got]
            /\ \/ region' = region
               \/ region' = Corrected(got.regions)
        BY <4>1, <4>2 DEF StatsArrived
      <4>4. Corrected(got.regions) = region
        BY <2>1, <4>3 DEF Corrected
      <4> QED BY <4>3, <4>4
    <3>4. StatsEnd
      <4>1. stats' # stats
        BY <2>1
      <4> QED BY <2>1, <4>1 DEF Next, setRegion, ChannelsEnd, ChannelsFailed,
                 ChannelsAnswered, VideosEnd, VideosAnswered, VideosFailed, VideosEnded,
                 Ingest
    <3> QED BY <3>2, <3>3, <3>4 DEF StatsEnd
  <2> QED BY <2>1
<1> QED BY <1>1, Invariance, PTL DEF Spec, ChoiceIsKept

\* When the fetches have ended, and unless the last was overtaken, nothing spins,
\* the card names a video of the selected region that none has more views than,
\* and the charts are of that region or an error is shown
\* (analytics-dashboard.tsx:77-126).
THEOREM TheSettledAreSelected == Spec => []SettledIsSelected
<1> DEFINE Listed == MostViewsFirst(videos.list)
<1>1. Init => Listed
  <2>1. <<>> \in Seq(Videos) /\ 1 .. Len(<<>>) = {}
    BY EmptySeq
  <2> QED BY <2>1 DEF Init, Nothing, MostViewsFirst
<1>2. Inv /\ Listed /\ [Next]_vars => Listed'
  BY StepKeepsOrder
<1>3. Inv /\ Listed => SettledIsSelected
  <2>1. ASSUME Inv, Listed, Settled("videos")
        PROVE  /\ videos.region = region
               /\ MostViewed # <<"spinner">>
               /\ MostViewed[1] = "shown" => \A i \in DOMAIN videos.list :
                    OrZero(videos.list[i].view_count) <= OrZero(MostViewed[2].view_count)
    <3> DEFINE l == videos.list
    <3>1. videos.region = region /\ ~ loading["videos"]
      BY <2>1 DEF Settled, Inv, VideosOK
    <3>2. MostViewed = IF mostViewed # NoData THEN <<"shown", mostViewed>> ELSE <<"dash">>
      BY <3>1 DEF MostViewed, Card
    <3>3. MostViewed # <<"spinner">>
      BY <3>2
    <3>4. ASSUME MostViewed[1] = "shown", NEW i \in DOMAIN videos.list
          PROVE  OrZero(videos.list[i].view_count) <= OrZero(MostViewed[2].view_count)
      <4>1. mostViewed # NoData /\ MostViewed[2] = mostViewed
        BY <3>2, <3>4
      <4>2. mostViewed = l[1]
        BY <2>1, <4>1, FirstIsMostViewed
      <4>3. l \in Seq(Videos) /\ DOMAIN l = 1 .. Len(l) /\ Len(l) \in Nat
            /\ \A k \in 1 .. Len(l) : l[k] \in Videos
        BY <2>1, LenProperties, ElementOfSeq DEF MostViewsFirst
      <4>4. i \in 1 .. Len(l) /\ 1 \in 1 .. Len(l) /\ i \in Nat
        BY <3>4, <4>3
      <4>5. CASE i = 1
        <5>1. OrZero(l[1].view_count) \in Int
          BY <4>3, <4>4, VideoCounts
        <5> QED BY <4>1, <4>2, <4>5, <5>1
      <4>6. CASE i # 1
        <5>1. 1 < i
          BY <4>4, <4>6
        <5>2. OrZero(l[i].view_count) <= OrZero(l[1].view_count)
          BY <2>1, <4>4, <5>1 DEF MostViewsFirst
        <5> QED BY <4>1, <4>2, <5>2
      <4> QED BY <4>5, <4>6
    <3> QED BY <3>1, <3>3, <3>4
  <2>2. ASSUME Inv, Settled("channels")
        PROVE  /\ ChannelsChart # "spinner" /\ ViewsChart # "spinner"
               /\ ChannelsChart = "error" \/ channels.appear_count.region = region
    <3>1. ~ loading["channels"]
          /\ (channelsError \/ channels["appear_count"].region = region)
      BY <2>2 DEF Settled, Inv, ChannelsOK
    <3> QED BY <3>1 DEF ChannelsChart, ViewsChart
  <2> QED BY <2>1, <2>2 DEF SettledIsSelected
<1> QED BY <1>1, <1>2, <1>3, Invariance, PTL DEF Spec

=============================================================================
