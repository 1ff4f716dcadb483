--------------------------- MODULE YouTubeClient ----------------------------
(***************************************************************************)
(* backend/youtube/client.go: what Client.FetchTrending makes of the       *)
(* answer of the YouTube Data API.  The API itself is outside the          *)
(* repository; an answer is one of                                         *)
(*                                                                         *)
(*   unreachable  http.Get returned an error                               *)
(*   garbled      the body does not decode as JSON                         *)
(*   refused      a JSON body that lists no items because the request was  *)
(*                refused: an error status such as 403 "quotaExceeded"     *)
(*   listing      a JSON body with a list of videos, possibly empty        *)
(***************************************************************************)
EXTENDS Sequences

Answers == {"unreachable", "garbled", "refused", "listing"}

\* The videos in the body of an answer, in the order the API lists them.
ItemsOf(answer, listed) == IF answer = "listing" THEN listed ELSE <<>>

\* http.Get and Decode are the only sources of an error: the HTTP status is
\* not read, so a refusal is an empty list of videos.
FetchFails(answer) == answer \in {"unreachable", "garbled"}

=============================================================================
