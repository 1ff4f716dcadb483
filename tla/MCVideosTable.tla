---------------------------- MODULE MCVideosTable ----------------------------
(***************************************************************************)
(* A small table videos for TLC: in the US a video whose comments are      *)
(* switched off and two others, one of which was saved within the last     *)
(* hour; in Britain one video.                                             *)
(***************************************************************************)
EXTENDS VideosTable

Row(video, region, at, category, words, views, likes, comments) ==
  [video |-> video, region |-> region, at |-> at, channel |-> "c1", title |-> "C1",
   category |-> category, words |-> words, view_count |-> views,
   like_count |-> likes, comment_count |-> comments]

CommentsOff ==
  { Row("v1", "US", 1, 10, {"a"}, 7, 2, 3), Row("v2", "US", 1, 24, {"a"}, 6, 3, 0),
    Row("v3", "US", 1, 24, {}, 4, 1, 2), Row("v4", "GB", 1, 10, {"a"}, 3, 3, 1) }

LastHour == { CommentsOff, { row \in CommentsOff : row.video # "v1" } }

=============================================================================
