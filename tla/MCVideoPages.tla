----------------------------- MODULE MCVideoPages -----------------------------
(***************************************************************************)
(* Four videos for TLC: two that start with equal views, one of which      *)
(* comes to be the most viewed, and one whose count is corrected down by a *)
(* snapshot that may be saved late.                                        *)
(***************************************************************************)
EXTENDS VideoPages

Row(id, at, views) ==
  [video |-> id, region |-> "US", at |-> at, channel |-> "c1", title |-> "C1",
   category |-> 10, words |-> {}, view_count |-> views,
   like_count |-> 1, comment_count |-> 1]

SavedRows ==
  { Row("v1", 1, 5), Row("v1", 2, 2), Row("v2", 1, 3), Row("v2", 3, 7),
    Row("v3", 1, 3), Row("v4", 2, 4) }

=============================================================================
