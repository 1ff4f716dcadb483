---------------------------- MODULE VideoQueries ----------------------------
(***************************************************************************)
(* The queries of the analytics service on the table videos                *)
(* (backend/db/db.go).  Where SQL leaves the order of rows open, an        *)
(* operator gives the set of answers the database may return.              *)
(*                                                                         *)
(* A row is a record with fields video, region, at (fetched_at), channel,  *)
(* title (of the channel), category, words (what its titles match),        *)
(* view_count, like_count and comment_count.                               *)
(***************************************************************************)
EXTENDS Integers, Sequences, FiniteSets, FiniteSetsExt, SequencesExt

AnyRegion   == "any"     \* an empty string
AnyCategory == 0

InRegion(table, region) ==
  { row \in table : region \in {AnyRegion, row.region} }

InFilter(table, region, category) ==
  { row \in InRegion(table, region) : category \in {AnyCategory, row.category} }

\* DISTINCT ON (video_id) ... ORDER BY video_id, fetched_at DESC
Newest(rows) ==
  { some \in SUBSET rows :
      /\ \A row \in rows : \E one \in some : one.video = row.video
      /\ \A one \in some, row \in rows :
            one.video = row.video => one.at >= row.at /\ (row \in some => row = one) }

\* ORDER BY column DESC, ties in any order.
OrderedBy(rows, column) ==
  { list \in SetToSeqs(rows) :
      \A i, j \in DOMAIN list : i < j => list[i][column] >= list[j][column] }

PageAndOne(list, limit, offset) ==               \* slip: one row too many
  SubSeq(list, offset + 1, Min({offset + limit + 1, Len(list)}))

\* LIMIT and OFFSET.
Page(list, limit, offset) ==
  SubSeq(list, offset + 1, Min({offset + limit, Len(list)}))

GetVideos(table, region, category, limit, offset) ==
  UNION { { Page(list, limit, offset) : list \in OrderedBy(some, "view_count") } :
          some \in Newest(InFilter(table, region, category)) }

\* GROUP BY channel_id, channel_title
Channel(rows) ==
  LET one == CHOOSE row \in rows : TRUE IN
  [channel      |-> one.channel,
   title        |-> one.title,
   appear_count |-> Cardinality(rows),
   total_views  |-> MapThenSumSet(LAMBDA row : row.view_count, rows)]

Channels(rows) ==
  { Channel({ row \in rows : row.channel = one.channel /\ row.title = one.title }) :
    one \in rows }

GetTopChannels(table, region, limit, sortBy) ==
  { Page(list, limit, 0) :
    list \in OrderedBy(Channels(InRegion(table, region)), sortBy) }

\* array_agg(DISTINCT region), which sorts.
GetTrackedRegions(table, alphabet) ==
  { list \in SetToSeqs({ row.region : row \in table }) :
      \A i, j \in DOMAIN list : i < j =>
        \E m, n \in DOMAIN alphabet :
          m < n /\ list[i] = alphabet[m] /\ list[j] = alphabet[n] }

LatestFirst(table, video) ==                     \* slip: DESC
  OrderedBy({ row \in table : row.video = video }, "at")

\* Every snapshot of a video, of all regions, oldest first.
GetVideoTrend(table, video) ==
  { Reverse(list) :
    list \in OrderedBy({ row \in table : row.video = video }, "at") }

=============================================================================
