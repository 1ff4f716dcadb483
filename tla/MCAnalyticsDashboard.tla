------------------------ MODULE MCAnalyticsDashboard ------------------------
(***************************************************************************)
(* Two regions for TLC, and a table that starts empty or not and fills up; *)
(* a video in it has no views yet.                                         *)
(***************************************************************************)
EXTENDS AnalyticsDashboard

Row(video, where, channel, views) ==
  [video |-> video, region |-> where, at |-> 1, channel |-> channel,
   title |-> channel, category |-> 10, words |-> {}, view_count |-> views,
   like_count |-> 1, comment_count |-> 1]

InAlphabeticalOrder == <<"GB", "US">>

British == { Row("v1", "GB", "c1", 5), Row("v2", "GB", "c1", 0) }
Whole   == British \cup { Row("v3", "US", "c1", 4) }

FillsUp == {{}, British, Whole}

=============================================================================
