------------------------------- MODULE RestApi -------------------------------
(***************************************************************************)
(* What the browser gets of an answer.  The gateway writes the messages    *)
(* with encoding/json, whose omitempty leaves out zeros and empty lists    *)
(* (backend/api/server.go, backend/pb); frontend/lib/api.ts hands the      *)
(* result on as what frontend/types/videos.ts declares.                    *)
(***************************************************************************)
EXTENDS VideoQueries

CONSTANT Undefined       \* a field that is not there

Omit(n)        == IF n = 0 THEN Undefined ELSE n
OmitList(list) == IF list = <<>> THEN Undefined ELSE list

\* n ?? 0
OrZero(n) == IF n = Undefined THEN 0 ELSE n

\* list ?? []
OrEmpty(list) == IF list = Undefined THEN <<>> ELSE list

\* A number that may be missing, in an addition or a comparison: NaN.
IsNumber(n) == n # Undefined

VideoJson(row) ==
  [video_id      |-> row.video,
   region        |-> row.region,
   words         |-> row.words,
   view_count    |-> Omit(row.view_count),
   like_count    |-> Omit(row.like_count),
   comment_count |-> Omit(row.comment_count)]

ChannelJson(stat) ==
  [channel      |-> stat.channel,
   title        |-> stat.title,
   appear_count |-> Omit(stat.appear_count),
   view_count   |-> Omit(stat.total_views)]

PointJson(row) ==
  [view_count    |-> Omit(row.view_count),
   like_count    |-> Omit(row.like_count),
   comment_count |-> Omit(row.comment_count)]

Each(Json(_), list) == OmitList([i \in DOMAIN list |-> Json(list[i])])

(***************************************************************************)
(* The answers of lib/api.ts; any of the calls may fail instead.           *)
(*                                                                         *)
(* Lists of videos and of channels go through Redis, with an entry of an   *)
(* hour for each choice of parameters (backend/analytics/server.go): they  *)
(* are lists of any of the contents the table had in that time, as         *)
(* AnalyticsCache shows.  The other answers are of the table as it is.     *)
(***************************************************************************)
getVideos(contents, region, category, limit) ==
  { Each(VideoJson, list) :
    list \in UNION { GetVideos(table, region, category, limit, 0) : table \in contents } }

getTopChannels(contents, region, limit, sortBy) ==
  { Each(ChannelJson, list) :
    list \in UNION { GetTopChannels(table, region, limit, sortBy) : table \in contents } }

getTrackedRegions(table, alphabet) ==
  { OmitList(list) : list \in GetTrackedRegions(table, alphabet) }

getVideoTrend(table, video) ==
  { Each(PointJson, list) : list \in GetVideoTrend(table, video) }

=============================================================================
