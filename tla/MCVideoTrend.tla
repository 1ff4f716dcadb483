----------------------------- MODULE MCVideoTrend -----------------------------
(***************************************************************************)
(* Three snapshots of a video, the middle one from another region, and one *)
(* of a more viewed video, for TLC.                                        *)
(***************************************************************************)
EXTENDS VideoTrend

Row(id, region, at, views, likes, comments) ==
  [video |-> id, region |-> region, at |-> at, channel |-> "c1", title |-> "C1",
   category |-> 10, words |-> {}, view_count |-> views,
   like_count |-> likes, comment_count |-> comments]

SavedRows ==
  { Row("v1", "US", 1, 3, 1, 1), Row("v1", "GB", 2, 4, 0, 1), Row("v1", "US", 3, 5, 2, 0),
    Row("v2", "US", 2, 4, 1, 1) }

=============================================================================
