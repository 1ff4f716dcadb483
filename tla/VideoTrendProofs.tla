-------------------------- MODULE VideoTrendProofs --------------------------
(***************************************************************************)
(* Proofs about VideoTrend, for every finite set of snapshots, every video *)
(* and every limit.                                                        *)
(*                                                                         *)
(* The two halves are answers to two queries, of two contents of the       *)
(* table.  The card's row is the newest of its video in the one; if the    *)
(* other has it, it is a point of the chart there, and a row after it that *)
(* the first had, too, would be newer.                                     *)
(***************************************************************************)
EXTENDS VideoTrend, TLAPS, SequenceTheorems, FiniteSetTheorems,
        WellFoundedInduction

-----------------------------------------------------------------------------
(* The inductive invariant.                                                *)

\* A half that has arrived answers its query of the content it was made of.
HalvesAreAnswers ==
  loading => \A half \in Halves :
    got[half] # NoData => got[half] \in Answers(half, madeOf[half])

Inv ==
  /\ table \in SUBSET Snapshots /\ recent \in SUBSET SUBSET Snapshots
  /\ got = [half \in Halves |-> got[half]]
  /\ madeOf = [half \in Halves |-> madeOf[half]]
  /\ \A half \in Halves : madeOf[half] \in SUBSET Snapshots
  /\ loading \in BOOLEAN
  /\ HalvesAreAnswers
  /\ CardFitsChart

-----------------------------------------------------------------------------
(* The queries.                                                            *)

\* The smaller of two numbers.
LEMMA MinOfTwo ==
  ASSUME NEW a \in Int, NEW b \in Int
  PROVE  Min({a, b}) \in Int /\ Min({a, b}) <= a /\ Min({a, b}) <= b
<1>1. \E x \in {a, b} : \A y \in {a, b} : x <= y
  BY DEF Min
<1>2. Min({a, b}) \in {a, b} /\ \A y \in {a, b} : Min({a, b}) <= y
  BY <1>1 DEF Min
<1> QED BY <1>2

\* A set of numbers that has one has a smallest.
LEMMA MinIsIn ==
  ASSUME NEW S \in SUBSET Nat, S # {}
  PROVE  Min(S) \in S
<1> DEFINE Less == OpToRel(<, Nat)
<1>1. PICK x \in S : \A y \in S : ~ (<<y, x>> \in Less)
  BY NatLessThanWellFounded, WFMin
<1>2. ASSUME NEW y \in S PROVE x <= y
  <2>1. Less = {ss \in Nat \X Nat : ss[1] < ss[2]}
    BY DEF OpToRel
  <2> HIDE DEF Less
  <2>2. <<y, x>> \in Nat \X Nat /\ <<y, x>>[1] = y /\ <<y, x>>[2] = x
    OBVIOUS
  <2>3. ~ (y < x)
    BY <1>1, <2>1, <2>2
  <2> QED BY <2>3
<1> QED BY <1>2 DEF Min

\* Lists of the rows of a finite set hold each of them.
LEMMA ListsOfAll ==
  ASSUME NEW S, IsFiniteSet(S), NEW list \in SetToSeqs(S)
  PROVE  /\ list \in Seq(S) /\ DOMAIN list = 1 .. Len(list) /\ Len(list) \in Nat
         /\ \A x \in S : \E i \in DOMAIN list : list[i] = x
<1> DEFINE c == Cardinality(S)
<1>1. c \in Nat
  BY FS_CardinalityType
<1>2. /\ list \in [1 .. c -> S]
      /\ \A i, j \in 1 .. c : i # j => list[i] # list[j]
  BY DEF SetToSeqs
<1> HIDE DEF c
<1>3. list \in Seq(S)
  BY <1>1, <1>2, SeqDef
<1>4. list \in Injection(1 .. c, S)
  BY <1>2 DEF Injection, IsInjective
<1>5. Cardinality(1 .. c) = c
  BY <1>1, FS_Interval
<1>6. list \in Surjection(1 .. c, S)
  BY <1>4, <1>5, FS_Injection DEF c
<1> QED BY <1>2, <1>3, <1>6, LenProperties DEF Surjection

\* A page is of the rows that are listed.
LEMMA FirstPageOf ==
  ASSUME NEW S, NEW list \in Seq(S), NEW limit \in Nat
  PROVE  Page(list, limit, 0) \in Seq(S)
<1> DEFINE n == Min({0 + limit, Len(list)})
<1>1. Len(list) \in Nat /\ \A i \in 1 .. Len(list) : list[i] \in S
  BY LenProperties, ElementOfSeq
<1>2. n \in Int /\ n <= Len(list)
  <2>1. 0 + limit \in Int /\ Len(list) \in Int
    BY <1>1
  <2> QED BY <2>1, MinOfTwo
<1>3. Page(list, limit, 0) = SubSeq(list, 0 + 1, n)
  BY DEF Page
<1> HIDE DEF n
<1>4. 0 + 1 \in Int /\ \A i \in 0 + 1 .. n : list[i] \in S
  BY <1>1, <1>2
<1> QED BY <1>2, <1>3, <1>4, SubSeqProperties

\* The card's row is the newest of its video.
LEMMA FoundIsNewest ==
  ASSUME NEW T \in SUBSET Snapshots,
         NEW data \in getVideos({T}, AnyRegion, AnyCategory, Limit),
         Found(OrEmpty(data)) # NoData
  PROVE  \E row \in T : /\ row.video = VideoId
                        /\ Found(OrEmpty(data)) = VideoJson(row)
                        /\ \A other \in T : other.video = VideoId => row.at >= other.at
<1> DEFINE rows == InFilter(T, AnyRegion, AnyCategory)
<1>1. rows = T
  BY DEF InFilter, InRegion
<1>2. PICK some \in Newest(rows) :
        \E l \in OrderedBy(some, "view_count") : data = Each(VideoJson, Page(l, Limit, 0))
  BY DEF getVideos, GetVideos
<1>0. PICK list \in OrderedBy(some, "view_count") :
        data = Each(VideoJson, Page(list, Limit, 0))
  BY <1>2
<1>3. /\ some \subseteq T
      /\ \A one \in some, row \in T : one.video = row.video => one.at >= row.at
  BY <1>1, <1>2 DEF Newest
<1>4. IsFiniteSet(some)
  <2>1. some \in SUBSET Snapshots
    BY <1>3
  <2> QED BY <2>1, TrendAssumption, FS_Subset
<1>5. list \in Seq(some)
  BY <1>0, <1>4, ListsOfAll DEF OrderedBy
<1> DEFINE page == Page(list, Limit, 0)
           q    == OrEmpty(data)
           I    == { i \in 1 .. Len(q) : q[i].video_id = VideoId }
<1>6. page \in Seq(some)
  BY <1>5, TrendAssumption, FirstPageOf
<1>7. q = <<>> \/ q = [i \in DOMAIN page |-> VideoJson(page[i])]
  BY <1>0 DEF Each, OmitList, OrEmpty
<1> HIDE DEF page, q
<1>8. I # {} /\ Found(q) = q[Min(I)]
  BY DEF Found, SelectInSeq, q
<1>9. Min(I) \in 1 .. Len(q) /\ q[Min(I)].video_id = VideoId
  <2>1. CASE q = <<>>
    <3>1. Len(q) = 0
      BY <2>1, EmptySeq
    <3> QED BY <1>8, <3>1
  <2>2. CASE q = [i \in DOMAIN page |-> VideoJson(page[i])]
    <3>1. I \in SUBSET Nat
      <4>1. DOMAIN page = 1 .. Len(page) /\ Len(page) \in Nat
        BY <1>6, LenProperties
      <4> HIDE DEF I
      <4>2. \A i \in 1 .. Len(q) : i \in Nat
        OBVIOUS
      <4> QED BY <4>2 DEF I
    <3>2. Min(I) \in I
      BY <1>8, <3>1, MinIsIn
    <3> QED BY <3>2
  <2> QED BY <1>7, <2>1, <2>2
<1>10. PICK i \in DOMAIN page : q[Min(I)] = VideoJson(page[i])
  <2>1. CASE q = <<>>
    <3>1. Len(q) = 0
      BY <2>1, EmptySeq
    <3> QED BY <1>9, <3>1
  <2>2. CASE q = [i \in DOMAIN page |-> VideoJson(page[i])]
    <3>1. DOMAIN page = 1 .. Len(page) /\ Len(page) \in Nat
      BY <1>6, LenProperties
    <3>2. \A i \in 1 .. Len(page) : VideoJson(page[i]) \in { VideoJson(r) : r \in some }
      BY <1>6, ElementOfSeq
    <3>3. q \in Seq({ VideoJson(r) : r \in some })
      BY <2>2, <3>1, <3>2, IsASeq
    <3>4. DOMAIN q = 1 .. Len(q) /\ DOMAIN q = DOMAIN page
      BY <2>2, <3>3, LenProperties
    <3> QED BY <1>9, <2>2, <3>4
  <2> QED BY <1>7, <2>1, <2>2
<1>11. page[i] \in some
  BY <1>6, <1>10, LenProperties, ElementOfSeq
<1>12. page[i].video = VideoId
  BY <1>9, <1>10 DEF VideoJson
<1> QED BY <1>3, <1>8, <1>10, <1>11, <1>12 DEF q

\* The trend has a point of each row of the video, and the points after it are of
\* other rows that are not older.
LEMMA PointOfRow ==
  ASSUME NEW T \in SUBSET Snapshots, NEW data \in getVideoTrend(T, VideoId),
         NEW row \in T, row.video = VideoId
  PROVE  \E i \in DOMAIN OrEmpty(data) :
           /\ OrEmpty(data)[i] = PointJson(row)
           /\ \A j \in DOMAIN OrEmpty(data) : i < j =>
                \E other \in T : /\ other.video = VideoId /\ other # row
                                 /\ other.at >= row.at
                                 /\ OrEmpty(data)[j] = PointJson(other)
<1> DEFINE S == { r \in T : r.video = VideoId }
           P == { PointJson(r) : r \in Snapshots }
<1>1. PICK list \in OrderedBy(S, "at") : data = Each(PointJson, Reverse(list))
  BY DEF getVideoTrend, GetVideoTrend
<1>2. IsFiniteSet(S)
  <2>1. S \in SUBSET Snapshots
    OBVIOUS
  <2> QED BY <2>1, TrendAssumption, FS_Subset
<1>3. /\ list \in Seq(S) /\ DOMAIN list = 1 .. Len(list) /\ Len(list) \in Nat
      /\ \A x \in S : \E i \in DOMAIN list : list[i] = x
      /\ \A i, j \in DOMAIN list : i < j => list[i]["at"] >= list[j]["at"]
      /\ \A i, j \in DOMAIN list : i # j => list[i] # list[j]
  <2>1. list \in SetToSeqs(S)
    BY <1>1 DEF OrderedBy
  <2>2. \A i, j \in DOMAIN list : i < j => list[i]["at"] >= list[j]["at"]
    BY <1>1 DEF OrderedBy
  <2> HIDE DEF S
  <2>3. list \in [1 .. Cardinality(S) -> S]
    BY <2>1 DEF SetToSeqs
  <2>4. \A i, j \in DOMAIN list : i # j => list[i] # list[j]
    BY <2>1, <2>3 DEF SetToSeqs
  <2> QED BY <1>2, <2>1, <2>2, <2>4, ListsOfAll
<1> DEFINE n == Len(list)
<1>4. PICK k \in 1 .. n : list[k] = row
  BY <1>3
<1> DEFINE e(i) == PointJson(list[(n - i) + 1])
           points == [i \in 1 .. n |-> e(i)]
<1>5. [i \in DOMAIN Reverse(list) |-> PointJson(Reverse(list)[i])] = points
  BY DEF Reverse
<1>6. \A i \in 1 .. n : (n - i) + 1 \in 1 .. n /\ list[(n - i) + 1] \in S
  BY <1>3, ElementOfSeq
<1>7. \A i \in 1 .. n : e(i) \in P
  BY <1>6
<1>8. n \in Nat
  BY <1>3
<1>9. points \in Seq(P) /\ DOMAIN points = 1 .. n
  <2> HIDE DEF e, n, P
  <2> QED BY <1>7, <1>8, IsASeq
<1>10. points # Undefined
  BY <1>9, TrendAssumption
<1>11. points # <<>>
  <2>1. 1 \in DOMAIN points
    BY <1>4, <1>8, <1>9
  <2> HIDE DEF points
  <2> QED BY <2>1, EmptySeq
<1>12. OrEmpty(data) = points
  <2> HIDE DEF points, n, P, S
  <2> QED BY <1>1, <1>5, <1>10, <1>11 DEF Each, OmitList, OrEmpty
<1> DEFINE i == (n - k) + 1
<1>13. i \in 1 .. n /\ (n - i) + 1 = k
  BY <1>4, <1>8
<1>14. points[i] = PointJson(row)
  BY <1>4, <1>9, <1>13
<1>15. ASSUME NEW j \in 1 .. n, i < j
       PROVE  \E other \in T : /\ other.video = VideoId /\ other # row
                               /\ other.at >= row.at
                               /\ points[j] = PointJson(other)
  <2> DEFINE other == list[(n - j) + 1]
  <2>1. (n - j) + 1 \in 1 .. n /\ (n - j) + 1 < k
    BY <1>4, <1>8, <1>15
  <2>2. other \in S /\ other # row /\ other.at >= row.at
    <3>1. other \in S
      BY <1>6
    <3>2. (n - j) + 1 \in DOMAIN list /\ k \in DOMAIN list /\ (n - j) + 1 # k
      BY <1>3, <1>4, <2>1
    <3> QED BY <1>3, <1>4, <2>1, <3>1, <3>2
  <2> QED BY <2>2
<1> HIDE DEF points, i
<1> QED BY <1>9, <1>12, <1>13, <1>14, <1>15

\* Answers to any two contents make a card that fits its chart.
LEMMA AnswersFit ==
  ASSUME NEW C \in SUBSET Snapshots, NEW L \in SUBSET Snapshots,
         NEW data \in getVideoTrend(C, VideoId),
         NEW videos \in getVideos({L}, AnyRegion, AnyCategory, Limit),
         trend' = OrEmpty(data), video' = Found(OrEmpty(videos)),
         madeOf'.trend = C, madeOf'.videos = L
  PROVE  CardFitsChart'
<1>1. ASSUME video' # NoData
      PROVE  CardIsAPoint' \/ CardIsNewer'
  <2>1. PICK row \in L : /\ row.video = VideoId /\ video' = VideoJson(row)
                         /\ \A other \in L : other.video = VideoId => row.at >= other.at
    BY <1>1, FoundIsNewest
  <2>2. CASE row \notin C
    BY <2>1, <2>2 DEF CardIsNewer
  <2>3. CASE row \in C
    <3>1. PICK i \in DOMAIN trend' :
            /\ trend'[i] = PointJson(row)
            /\ \A j \in DOMAIN trend' : i < j =>
                 \E other \in C : /\ other.video = VideoId /\ other # row
                                  /\ other.at >= row.at
                                  /\ trend'[j] = PointJson(other)
      BY <2>1, <2>3, PointOfRow
    <3>2. chartData'[i] = CardCounts'
      <4>1. chartData'[i] =
              <<Omit(row.view_count), Omit(row.like_count), OrZero(Omit(row.comment_count))>>
        BY <3>1 DEF chartData, PointJson
      <4>2. CardCounts' =
              <<Omit(row.view_count), Omit(row.like_count), OrZero(Omit(row.comment_count))>>
        BY <2>1 DEF CardCounts, VideoJson
      <4> QED BY <4>1, <4>2
    <3>3. ASSUME NEW j \in DOMAIN trend', i < j
          PROVE  \E other \in C \ L :
                   other.video = VideoId /\ trend'[j] = PointJson(other)
      <4>1. PICK other \in C : /\ other.video = VideoId /\ other # row
                               /\ other.at >= row.at
                               /\ trend'[j] = PointJson(other)
        BY <3>1, <3>3
      <4>2. ASSUME other \in L PROVE FALSE
        <5>1. row.at >= other.at
          BY <2>1, <4>1, <4>2
        <5>2. other \in Snapshots /\ row \in Snapshots
          OBVIOUS
        <5>3. row.at \in Int /\ other.at \in Int
          BY <5>2, TrendAssumption
        <5>4. row.at = other.at
          BY <4>1, <5>1, <5>3
        <5> QED BY <2>1, <4>1, <5>2, <5>4, TrendAssumption
      <4> QED BY <4>1, <4>2
    <3>4. \A j \in DOMAIN trend' : i < j =>
            \E other \in madeOf'.trend \ madeOf'.videos :
              other.video = VideoId /\ trend'[j] = PointJson(other)
      BY <3>3
    <3> QED BY <3>1, <3>2, <3>4 DEF CardIsAPoint
  <2> QED BY <2>2, <2>3
<1> QED BY <1>1 DEF CardFitsChart, CardShown

-----------------------------------------------------------------------------
(* The steps.                                                              *)

\* A half arrives, made of the table or of a recent content.
LEMMA AnsweredKeepsInv ==
  ASSUME Inv, loading, NEW half \in Halves, Answered(half)
  PROVE  Inv'
<1>1. PICK content \in Contents(half) :
        /\ \E data \in Answers(half, content) : Arrived([got EXCEPT ![half] = data])
        /\ madeOf' = [madeOf EXCEPT ![half] = content]
  BY DEF Answered
<1>2. PICK data \in Answers(half, content) : Arrived([got EXCEPT ![half] = data])
  BY <1>1
<1>3. UNCHANGED <<table, recent, error>>
  BY DEF Answered
<1>4. content \in SUBSET Snapshots
  BY DEF Contents, Inv
<1> DEFINE both == [got EXCEPT ![half] = data]
<1>5. /\ DOMAIN both = Halves /\ both = [h \in Halves |-> both[h]]
      /\ both[half] = data
      /\ \A h \in Halves : h # half => both[h] = got[h]
  BY DEF Inv
<1>6. /\ madeOf' = [h \in Halves |-> madeOf'[h]]
      /\ \A h \in Halves : madeOf'[h] \in SUBSET Snapshots
      /\ madeOf'[half] = content
      /\ \A h \in Halves : h # half => madeOf'[h] = madeOf[h]
  BY <1>1, <1>4 DEF Inv
<1>7. \A h \in Halves : both[h] # NoData => both[h] \in Answers(h, madeOf'[h])
  BY <1>5, <1>6 DEF Inv, HalvesAreAnswers
<1>8. Arrived(both)
  BY <1>2
<1> HIDE DEF both
<1>9. CASE NoData \in Range(both)
  <2>1. got' = both /\ UNCHANGED <<trend, video, loading>>
    BY <1>8, <1>9 DEF Arrived
  <2>2. HalvesAreAnswers'
    BY <1>7, <2>1 DEF HalvesAreAnswers, Answers
  <2>3. CardFitsChart'
    BY <2>1 DEF CardFitsChart, CardShown, Body
  <2> QED BY <1>3, <1>5, <1>6, <2>1, <2>2, <2>3 DEF Inv
<1>10. CASE NoData \notin Range(both)
  <2>1. /\ trend' = OrEmpty(both["trend"]) /\ video' = Found(OrEmpty(both["videos"]))
        /\ got' = Neither /\ loading' = FALSE
    BY <1>8, <1>10 DEF Arrived
  <2>2. /\ both["trend"] \in getVideoTrend(madeOf'["trend"], VideoId)
        /\ both["videos"] \in getVideos({madeOf'["videos"]}, AnyRegion, AnyCategory, Limit)
    <3>1. \A h \in Halves : both[h] # NoData
      BY <1>5, <1>10 DEF Range
    <3> QED BY <1>7, <3>1 DEF Halves, Answers
  <2>3. madeOf'["trend"] \in SUBSET Snapshots /\ madeOf'["videos"] \in SUBSET Snapshots
    BY <1>6 DEF Halves
  <2>4. CardFitsChart'
    BY <2>1, <2>2, <2>3, AnswersFit
  <2>5. got' = [h \in Halves |-> got'[h]]
    BY <2>1 DEF Neither
  <2> QED BY <1>3, <1>6, <2>1, <2>4, <2>5 DEF Inv, HalvesAreAnswers
<1> QED BY <1>9, <1>10

\* What happens to the table is not seen by the page.
LEMMA OthersKeepInv ==
  ASSUME Inv, table' \in SUBSET Snapshots, recent' \in SUBSET SUBSET Snapshots,
         UNCHANGED <<got, trend, video, loading, error, madeOf>>
  PROVE  Inv'
<1>1. HalvesAreAnswers'
  BY DEF Inv, HalvesAreAnswers, Answers
<1>2. CardFitsChart'
  BY DEF Inv, CardFitsChart, CardShown, Body, CardIsAPoint, CardIsNewer, chartData,
         CardCounts
<1> QED BY <1>1, <1>2 DEF Inv

LEMMA StepKeepsInv ==
  ASSUME Inv, [Next]_vars
  PROVE  Inv'
<1>1. /\ Neither = [h \in Halves |-> Neither[h]] /\ \A h \in Halves : Neither[h] = NoData
      /\ OfNothing = [h \in Halves |-> OfNothing[h]]
      /\ \A h \in Halves : OfNothing[h] \in SUBSET Snapshots
  BY DEF Neither, OfNothing
<1>2. CASE FetchEnds
  <2>1. CASE Failed
    <3>1. HalvesAreAnswers' /\ CardFitsChart'
      BY <2>1 DEF Failed, HalvesAreAnswers, CardFitsChart, CardShown, Body
    <3> QED BY <1>1, <2>1, <3>1 DEF Failed, Inv
  <2>2. ASSUME NEW half \in Halves, Answered(half) PROVE Inv'
    BY <1>2, <2>2, AnsweredKeepsInv DEF FetchEnds
  <2> QED BY <1>2, <2>1, <2>2 DEF FetchEnds
<1>3. CASE Open
  <2>1. HalvesAreAnswers' /\ CardFitsChart'
    BY <1>1, <1>3 DEF Open, HalvesAreAnswers, CardFitsChart, CardShown, Body
  <2> QED BY <1>1, <1>3, <2>1 DEF Open, Inv
<1>4. CASE Expire
  BY <1>4, OthersKeepInv DEF Expire, Inv
<1>5. ASSUME NEW row \in Snapshots, Save(row) PROVE Inv'
  BY <1>5, OthersKeepInv DEF Save, Inv
<1>6. CASE UNCHANGED vars
  BY <1>6, OthersKeepInv DEF vars, Inv
<1> QED BY <1>2, <1>3, <1>4, <1>5, <1>6 DEF Next

LEMMA InitInv == Init => Inv
  BY DEF Init, Inv, HalvesAreAnswers, CardFitsChart, CardShown, Body, Neither, OfNothing

-----------------------------------------------------------------------------
(* The theorems.                                                           *)

\* The invariant holds in every state.
THEOREM Invariance == Spec => []Inv
<1>1. Init => Inv
  BY InitInv
<1>2. Inv /\ [Next]_vars => Inv'
  BY StepKeepsInv
<1> QED BY <1>1, <1>2, PTL DEF Spec

\* A card and the chart under it differ only by rows that were saved between the
\* two queries, in whatever order the snapshots were saved and the halves
\* arrived, and however old the list is (video-trend-chart.tsx:61-67,
\* db/db.go:152, 242, analytics/server.go:48-54).
THEOREM TheCardFitsTheChart == Spec => []CardFitsChart
<1>1. Inv => CardFitsChart
  BY DEF Inv
<1> QED BY <1>1, Invariance, PTL

=============================================================================
