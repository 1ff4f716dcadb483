------------------------- MODULE AnalyticsDashboard -------------------------
(***************************************************************************)
(* The dashboard (frontend/components/analytics-dashboard.tsx): for one    *)
(* region a card with the most viewed video and two charts of channels,    *)
(* fetched again when the region changes, and two cards fetched once that  *)
(* also decide which regions can be selected.  Promise.all waits for both  *)
(* halves of a fetch or for the first error; nothing cancels a fetch.      *)
(*                                                                         *)
(* As in VideosTable, a selection and the fetches it starts are one step.  *)
(***************************************************************************)
EXTENDS RestApi

CONSTANTS
  Regions,       \* REGIONS of lib/jobs.ts, in alphabetical order
  Tables,        \* the contents the table videos may have
  NoData,        \* a half that has not been answered
  MaxInFlight    \* bound on the fetches in flight when a user selects

ASSUME DashboardAssumption ==
  /\ MaxInFlight \in Nat \ {0} /\ NoData # Undefined /\ Undefined \notin Int
  /\ Regions \in Seq(Range(Regions)) /\ "US" \in Range(Regions)
  /\ \A rows \in Tables : IsFiniteSet(rows)
  /\ \A row \in UNION Tables : row.view_count \in Int /\ VideoJson(row) # NoData

VARIABLES
  table,         \* the table videos
  region,
  channels,      \* channels and channelsByViews, with their region (history)
  videos,        \* videos, with their region (history)
  stats,         \* trackedRegions, and the halves on their way
  loading, channelsError,
  inFlight,      \* the fetches on their way, by kind
  stale          \* history: the last answer of a kind was overtaken

vars == <<table, region, channels, videos, stats, loading, channelsError,
          inFlight, stale>>

RegionSet == Range(Regions)

\* The contents a cached list may be of: the table only grows, and entries that
\* expire take only some of them away.
recent == { rows \in Tables : rows \subseteq table }

Sorts     == {"appear_count", "total_views"}
Kinds     == {"channels", "videos"}
Nothing   == [list |-> <<>>, region |-> "none"]

-----------------------------------------------------------------------------
(* What is rendered.                                                       *)

\* trackedRegions.length throws in the render and takes the page down.
Crashed == stats.regions = Undefined

Offered == IF stats.regions # <<>> THEN Range(stats.regions) ELSE RegionSet

\* v.view_count > best.view_count, false if either is missing.
Better(v, best) ==
  IsNumber(v.view_count) /\ IsNumber(best.view_count) /\ v.view_count > best.view_count

mostViewed ==
  FoldLeft(LAMBDA best, v : IF best = NoData \/ Better(v, best) THEN v ELSE best,
           NoData, videos.list)

Card(isLoading, there, value) ==
  IF isLoading THEN <<"spinner">> ELSE IF there THEN <<"shown", value>> ELSE <<"dash">>

RegionsTracked ==
  IF Crashed THEN <<"crash">>
  ELSE Card(loading.stats, stats.regions # <<>>, Len(stats.regions))
MostViewed == Card(loading.videos, mostViewed # NoData, mostViewed)

ChannelsChart ==
  CASE loading.channels                        -> "spinner"
    [] ~ loading.channels /\ channelsError     -> "error"
    [] ~ loading.channels /\ ~ channelsError /\ channels.appear_count.list = <<>>
                                               -> "No channel data available"
    [] OTHER                                   -> "chart"

\* Under its own title, but shown or not for the other chart's list.
ViewsChart ==
  CASE loading.channels                        -> "spinner"
    [] ~ loading.channels /\ channels.appear_count.list = <<>> -> "nothing"
    [] OTHER                                   -> "chart"

-----------------------------------------------------------------------------
(* Fetches.                                                                *)

Unanswered == [sort \in Sorts |-> NoData]

Fetch(r) == [region |-> r, late |-> FALSE, got |-> Unanswered]

\* The two effects that depend on region.
ForgetsVideos == {"channels"}                     \* slip: a dependency of fetchVideos
Refetched     == Kinds

SendFor(r, shown) ==
  /\ inFlight' = [kind \in Kinds |->
                    IF kind \in Refetched THEN Append(inFlight[kind], Fetch(r))
                    ELSE inFlight[kind]]
  /\ loading' = [part \in DOMAIN shown |-> part \in Refetched \/ shown[part]]
  /\ channelsError' = FALSE

\* onValueChange: a user's choice.
setRegion(r) ==
  /\ ~ Crashed
  /\ r \in Offered /\ r # region
  /\ Len(inFlight.channels) + Len(inFlight.videos) < MaxInFlight
  /\ region' = r
  /\ SendFor(r, loading)
  /\ UNCHANGED <<table, channels, videos, stats, stale>>

\* The fetches that are left when the i-th ends: those sent before it are
\* overtaken.
Overtaken(fetches, i) ==
  RemoveAt([j \in DOMAIN fetches |-> [fetches[j] EXCEPT !.late = @ \/ j < i]], i)

Ended(kind, i) ==
  /\ inFlight' = [inFlight EXCEPT ![kind] = Overtaken(@, i)]
  /\ stale' = [stale EXCEPT ![kind] = inFlight[kind][i].late]

\* One of the two getTopChannels: Promise.all waits for the other.
OnArrival(fetch, sort, data) ==                  \* slip: each is set by itself
  [channels EXCEPT ![sort] = [list |-> OrEmpty(data), region |-> fetch.region]]
OnBoth(fetch, sort, data) == channels

ChannelsAnswered(i, sort) ==
  LET fetch == inFlight.channels[i] IN
  /\ fetch.got[sort] = NoData
  /\ \E data \in getTopChannels(recent, fetch.region, 10, sort) :
       LET got == [fetch.got EXCEPT ![sort] = data] IN
       IF \A s \in Sorts : got[s] # NoData
       THEN /\ channels' = [s \in Sorts |->
                              [list |-> OrEmpty(got[s]), region |-> fetch.region]]
            /\ Ended("channels", i)
            /\ loading' = [loading EXCEPT !.channels = FALSE]
       ELSE /\ channels' = OnBoth(fetch, sort, data)
            /\ inFlight' = [inFlight EXCEPT !.channels[i].got = got]
            /\ UNCHANGED <<stale, loading>>
  /\ UNCHANGED <<table, region, videos, stats, channelsError>>

\* finally
Loaded(part) == [loading EXCEPT ![part] = FALSE]

\* The first error of the two is the error of both.
ChannelsFailed(i) ==
  /\ channelsError' = TRUE
  /\ loading' = Loaded("channels")
  /\ Ended("channels", i)
  /\ UNCHANGED <<table, region, channels, videos, stats>>

VideosEnded(i, data) ==
  /\ videos' = [list |-> data, region |-> inFlight.videos[i].region]
  /\ loading' = Loaded("videos")
  /\ Ended("videos", i)
  /\ UNCHANGED <<table, region, channels, stats, channelsError>>

VideosAnswered(i) ==
  \E data \in getVideos(recent, inFlight.videos[i].region, AnyCategory, 200) :
    VideosEnded(i, OrEmpty(data))
VideosFailed(i) == VideosEnded(i, <<>>)

-----------------------------------------------------------------------------
(* The cards that are fetched once.                                        *)

\* setRegion((r) => ...)
Mounted(regions) ==                              \* slip: the region of the first render
  IF "US" \in Range(regions) THEN "US" ELSE regions[1]
Untouched(regions) == region                     \* slip: the region is left alone
Corrected(regions) ==
  IF region \in Range(regions) THEN region ELSE regions[1]

StatsHalves == {"count", "regions"}

\* getVideoCount, whose number nothing below depends on, and getTrackedRegions.
StatsData(half) == IF half = "count" THEN {"a number"}
                   ELSE getTrackedRegions(table, Regions)

\* The regions decide which can be selected, and the region may have to change.
StatsArrived(got) ==
  IF \A h \in StatsHalves : got[h] # NoData
  THEN /\ stats' = [regions |-> got.regions, pending |-> FALSE, got |-> stats.got]
       /\ IF Crashed' \/ Corrected(got.regions) = region
          THEN /\ loading' = Loaded("stats")
               /\ UNCHANGED <<region, inFlight, channelsError>>
          ELSE /\ region' = Corrected(got.regions)
               /\ SendFor(region', Loaded("stats"))
  ELSE /\ stats' = [stats EXCEPT !.got = got]
       /\ UNCHANGED <<region, inFlight, loading, channelsError>>

StatsAnswered(half) ==
  /\ stats.got[half] = NoData
  /\ \E data \in StatsData(half) : StatsArrived([stats.got EXCEPT ![half] = data])
  /\ UNCHANGED <<table, channels, videos, stale>>

StatsFailed ==
  /\ stats' = [stats EXCEPT !.pending = FALSE]
  /\ loading' = Loaded("stats")
  /\ UNCHANGED <<table, region, channels, videos, channelsError, inFlight, stale>>

-----------------------------------------------------------------------------

\* A job inserts videos.
Ingest ==
  /\ \E more \in Tables : table \subseteq more /\ table # more /\ table' = more
  /\ UNCHANGED <<region, channels, videos, stats, loading, channelsError,
                 inFlight, stale>>

Init ==
  /\ table \in Tables
  /\ region = "US"
  /\ channels = [sort \in Sorts |-> Nothing]
  /\ videos = Nothing
  /\ stats = [regions |-> <<>>, pending |-> TRUE,
              got |-> [half \in StatsHalves |-> NoData]]
  /\ loading = [channels |-> TRUE, videos |-> TRUE, stats |-> TRUE]
  /\ channelsError = FALSE
  /\ inFlight = [kind \in Kinds |-> <<Fetch("US")>>]
  /\ stale = [kind \in Kinds |-> FALSE]

ChannelsEnd ==
  /\ ~ Crashed
  /\ \E i \in DOMAIN inFlight.channels :
        ChannelsFailed(i) \/ \E sort \in Sorts : ChannelsAnswered(i, sort)
VideosEnd ==
  /\ ~ Crashed
  /\ \E i \in DOMAIN inFlight.videos : VideosAnswered(i) \/ VideosFailed(i)
StatsEnd ==
  /\ stats.pending
  /\ StatsFailed \/ \E half \in StatsHalves : StatsAnswered(half)

Next ==
  \/ \E r \in RegionSet : setRegion(r)
  \/ ChannelsEnd \/ VideosEnd \/ StatsEnd \/ Ingest

Spec == Init /\ [][Next]_vars

-----------------------------------------------------------------------------

Settled(kind) == inFlight[kind] = <<>> /\ ~ stale[kind]

\* The two charts are of one region at any time, although their lists are
\* asked for separately and each chart is shown or not by a rule of its own
\* (analytics-dashboard.tsx:81-86, 236-310).
ChartsAgree == channels.appear_count.region = channels.total_views.region

\* Once the fetches have ended, and if the last answer was not overtaken,
\* nothing spins, the card shows a video of the selected region that none has
\* more views than, although a count of zero is missing, and the charts are of
\* that region unless there is an error (analytics-dashboard.tsx:77-126).
SettledIsSelected ==
  /\ Settled("videos") =>
       /\ videos.region = region
       /\ MostViewed # <<"spinner">>
       /\ MostViewed[1] = "shown" => \A i \in DOMAIN videos.list :
            OrZero(videos.list[i].view_count) <= OrZero(MostViewed[2].view_count)
  /\ Settled("channels") =>
       /\ ChannelsChart # "spinner" /\ ViewsChart # "spinner"
       /\ ChannelsChart = "error" \/ channels.appear_count.region = region

\* The selected region is one that can be selected, although the choice
\* changes under the user, and the card counts as many regions as can be
\* selected (analytics-dashboard.tsx:117, 151, 198).
RegionIsOffered ==
  ~ Crashed =>
    /\ region \in Offered
    /\ RegionsTracked[1] = "shown" => RegionsTracked[2] = Cardinality(Offered)

\* A region the user chose while the regions were on their way is kept if it
\* has videos (analytics-dashboard.tsx:117).
ChoiceIsKept ==
  [][stats.pending /\ ~ stats'.pending /\ ~ Crashed' /\ region \in Range(stats'.regions)
       => region' = region]_vars

=============================================================================
