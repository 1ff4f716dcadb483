-------------------------- MODULE MCAnalyticsCache --------------------------
(***************************************************************************)
(* Two readers and a few lists for TLC.                                    *)
(***************************************************************************)
EXTENDS AnalyticsCache

CONSTANTS r1, r2

Of(offset, after) ==
  [call |-> "videos", region |-> "US", category |-> 10, limit |-> 25,
   offset |-> offset, after |-> after, before |-> NoTime]

\* A page, the same page half a second later, and the page that follows.
Pages == { Of(0, 2), Of(0, 3), Of(25, 2) }

=============================================================================
