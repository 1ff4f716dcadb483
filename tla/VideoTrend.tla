------------------------------ MODULE VideoTrend ------------------------------
(***************************************************************************)
(* The page of a video (frontend/components/video-trend-chart.tsx): a card *)
(* with its newest counts, if it is among the most viewed, and a chart of  *)
(* all its snapshots.  The two are asked for separately and shown together *)
(* when both answers are there; workers save snapshots meanwhile, not      *)
(* always in the order they were fetched.  The list of the most viewed may *)
(* come from Redis and be an hour old; the snapshots never do              *)
(* (backend/analytics/server.go).                                          *)
(***************************************************************************)
EXTENDS RestApi

CONSTANTS
  Snapshots,     \* the rows of videos that may be saved
  VideoId,       \* the video of the page
  Limit,         \* how many videos the card is looked for among: 200
  MaxRecent,     \* bound on the contents an hour may hold
  NoData         \* a half that has not been answered, or a video not found

ASSUME TrendAssumption ==
  /\ Limit \in Nat \ {0} /\ NoData # Undefined
  /\ IsFiniteSet(Snapshots) /\ \A row \in Snapshots : row.at \in Int
  /\ Undefined \notin Seq({ PointJson(row) : row \in Snapshots })
  /\ \A a, b \in Snapshots : a.video = b.video /\ a.at = b.at => a = b

VARIABLES
  table,         \* the table videos
  recent,        \* the contents of the table that a cached list may be of
  got,           \* the halves of the fetch that is on its way
  trend, video,
  loading, error,
  madeOf         \* history: the contents the halves were made of

vars == <<table, recent, got, trend, video, loading, error, madeOf>>

Halves    == {"trend", "videos"}
Neither   == [half \in Halves |-> NoData]
OfNothing == [half \in Halves |-> {}]

-----------------------------------------------------------------------------
(* What is rendered.                                                       *)

Body == IF loading THEN "spinner" ELSE IF error THEN "error" ELSE "shown"

CardShown == Body = "shown" /\ video # NoData

\* The card, whose comments alone have a default.
CardCounts ==
  <<video.view_count, video.like_count, OrZero(video.comment_count)>>

chartData ==
  [i \in DOMAIN trend |->
     <<trend[i].view_count, trend[i].like_count, OrZero(trend[i].comment_count)>>]

-----------------------------------------------------------------------------
(* load.                                                                   *)

\* What a half may be made of.
Contents(half) == IF half = "trend" THEN {table} ELSE recent

Answers(half, content) ==
  IF half = "trend" THEN getVideoTrend(content, VideoId)
  ELSE getVideos({content}, AnyRegion, AnyCategory, Limit)

\* find
Found(videos) ==
  LET i == SelectInSeq(videos, LAMBDA v : v.video_id = VideoId) IN
  IF i = 0 THEN NoData ELSE videos[i]

\* Promise.all waits for the other half.
Arrived(both) ==
  IF NoData \in Range(both)
  THEN /\ got' = both
       /\ UNCHANGED <<trend, video, loading>>
  ELSE /\ trend' = OrEmpty(both.trend)
       /\ video' = Found(OrEmpty(both.videos))
       /\ got' = Neither
       /\ loading' = FALSE

Answered(half) ==
  /\ got[half] = NoData
  /\ \E content \in Contents(half) :
        /\ \E data \in Answers(half, content) : Arrived([got EXCEPT ![half] = data])
        /\ madeOf' = [madeOf EXCEPT ![half] = content]
  /\ UNCHANGED <<table, recent, error>>

\* The first error of the two is the error of both.
Failed ==
  /\ error' = TRUE
  /\ loading' = FALSE       \* finally
  /\ got' = Neither
  /\ UNCHANGED <<table, recent, trend, video, madeOf>>

FetchEnds == loading /\ (Failed \/ \E half \in Halves : Answered(half))

-----------------------------------------------------------------------------

\* A worker saves a row it fetched at some time before.
Save(row) ==
  /\ row \notin table /\ Cardinality(recent) < MaxRecent
  /\ table' = table \cup {row}
  /\ recent' = recent \cup {table'}
  /\ UNCHANGED <<got, trend, video, loading, error, madeOf>>

\* The last entry of an earlier content expires.
Expire ==
  /\ \E content \in recent \ {table} : recent' = recent \ {content}
  /\ UNCHANGED <<table, got, trend, video, loading, error, madeOf>>

\* The page is left and opened again: a new page.
Open ==
  /\ got' = Neither
  /\ trend' = <<>> /\ video' = NoData
  /\ loading' = TRUE /\ error' = FALSE
  /\ madeOf' = OfNothing
  /\ UNCHANGED <<table, recent>>

Init ==
  /\ table \in SUBSET Snapshots
  /\ recent = {table}
  /\ got = Neither
  /\ trend = <<>> /\ video = NoData
  /\ loading = TRUE /\ error = FALSE
  /\ madeOf = OfNothing

Next == FetchEnds \/ Open \/ Expire \/ \E row \in Snapshots : Save(row)

Spec == Init /\ [][Next]_vars

-----------------------------------------------------------------------------

\* The card shows a point of the chart, and the points after it are of rows
\* saved since the list was made.
CardIsAPoint ==
  \E i \in DOMAIN trend :
    /\ chartData[i] = CardCounts
    /\ \A j \in DOMAIN trend : i < j =>
         \E row \in madeOf.trend \ madeOf.videos :
           row.video = VideoId /\ trend[j] = PointJson(row)

\* The card shows a row saved since the points were read.
CardIsNewer ==
  \E row \in madeOf.videos \ madeOf.trend :
    row.video = VideoId /\ video = VideoJson(row)

\* A card and the chart under it differ only by rows that were saved between the
\* two queries, in whatever order they were saved, and although the list may be
\* an hour old: without such rows the card shows the chart's last point
\* (video-trend-chart.tsx:61-67, db/db.go:152, 242, analytics/server.go:48-54).
CardFitsChart == CardShown => CardIsAPoint \/ CardIsNewer

=============================================================================
