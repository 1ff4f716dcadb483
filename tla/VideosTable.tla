----------------------------- MODULE VideosTable -----------------------------
(***************************************************************************)
(* The video browser (frontend/components/videos-table.tsx): two selectors *)
(* that start a fetch each time they change, a search box, columns to sort *)
(* by, and pages.  Nothing cancels a fetch, and answers come in any order. *)
(*                                                                         *)
(* React runs the effects of a click before it returns to the event loop:  *)
(* a selection and the fetch it starts are one step.                       *)
(***************************************************************************)
EXTENDS RestApi, Arrays

CONSTANTS
  Regions, Categories,    \* the options of the selectors
  Searches,               \* what is typed, and AnyWord
  AnyWord,                \* nothing typed
  Contents,               \* the contents of the table videos of the last hour
  PageSize,               \* PAGE_SIZE
  MaxInFlight             \* bound on the fetches in flight

ASSUME TableAssumption ==
  /\ AnyWord \in Searches /\ "US" \in Regions /\ AnyCategory \in Categories
  /\ PageSize \in Nat \ {0} /\ MaxInFlight \in Nat \ {0}
  /\ \A rows \in Contents : IsFiniteSet(rows)

VARIABLES
  selected,     \* region and categoryId
  list,         \* videos, and the filter they were fetched with (history)
  loading, error,
  inFlight,     \* the fetches on their way, in the order they were sent
  view,         \* search, sortKey, sortDir and page
  stale         \* history: the last answer was overtaken by another

vars == <<selected, list, loading, error, inFlight, view, stale>>

Columns == {"view_count", "like_count", "comment_count"}
Filters == [region : Regions, category : Categories]
NoFilter == [region |-> "none", category |-> 0]

-----------------------------------------------------------------------------
(* What is rendered.                                                       *)

\* The places of the videos that filter keeps.
Matching ==
  { i \in DOMAIN list.videos :
      view.search = AnyWord \/ view.search \in list.videos[i].words }

Matches == Kept(list.videos, Matching)

\* a[sortKey] - b[sortKey] is NaN, which counts as a tie, if one is missing.
Before(a, b) ==
  LET m == a[view.key]  n == b[view.key] IN
  IsNumber(m) /\ IsNumber(n) /\ (IF view.dir = "desc" THEN m > n ELSE m < n)

Tie(a, b) == ~ Before(a, b) /\ ~ Before(b, a)

\* Array.prototype.sort is stable, and if ties are not transitive any order
\* may come out.
Sortings(videos) ==
  LET ids == DOMAIN videos
      Consistent == \A i, j, k \in ids :
        Tie(videos[i], videos[j]) /\ Tie(videos[j], videos[k])
          => Tie(videos[i], videos[k])
      Sorted(order) == \A i, j \in ids : i < j =>
        \/ Before(videos[order[i]], videos[order[j]])
        \/ Tie(videos[order[i]], videos[order[j]]) /\ order[i] < order[j]
  IN { [i \in ids |-> videos[order[i]]] :
       order \in { o \in SetToSeqs(ids) : Consistent => Sorted(o) } }

PagesOf(n) == (n + PageSize - 1) \div PageSize
TotalPages == PagesOf(Len(Matches))

\* pageSlice
Slice(sorted, page) ==
  SubSeq(sorted, page * PageSize + 1, Min({(page + 1) * PageSize, Len(sorted)}))

\* Above the table: how many, and the page.
Caption ==
  IF loading THEN [text |-> "Loading"]
  ELSE [text  |-> IF view.search = AnyWord THEN "all" ELSE "matching",
        shown |-> Len(Matches), of |-> Len(list.videos),
        page  |-> view.page + 1, pages |-> Max({1, TotalPages})]

Body ==
  CASE loading                            -> "spinner"
    [] ~ loading /\ error                 -> "error and Retry"
    [] ~ loading /\ ~ error /\ list.videos = <<>> -> "No videos found for this filter"
    [] OTHER                              -> "table"

\* The rows of the table, one for each video of the page.
Rows(sorted) ==
  [i \in DOMAIN Slice(sorted, view.page) |-> Slice(sorted, view.page)[i].video_id]

\* Below the table: the range of the page, and which buttons are enabled.
PagerShown == Body = "table" /\ TotalPages > 1
Pager ==
  [from |-> view.page * PageSize + 1,
   to   |-> Min({(view.page + 1) * PageSize, Len(Matches)}),
   prev |-> view.page > 0, next |-> view.page < TotalPages - 1]

-----------------------------------------------------------------------------
(* Fetches.                                                                *)

\* From Redis or from the table, whose content is the last of Contents.
Answers == [filter \in Filters |->
              getVideos(Contents, filter.region, filter.category, 200)]

Send(filter) ==
  /\ Len(inFlight) < MaxInFlight
  /\ inFlight' = Append(inFlight, [filter |-> filter, late |-> FALSE])
  /\ loading' = TRUE
  /\ error' = FALSE

\* The effect depends on fetchVideos, which depends on both selectors.
ForgetsCategory(old, new) == old.region # new.region   \* slip: a dependency
Refetches(old, new)       == old # new

Select(filter) ==
  /\ filter # selected
  /\ selected' = filter
  /\ IF Refetches(selected, filter) THEN Send(filter)
     ELSE UNCHANGED <<inFlight, loading, error>>
  /\ UNCHANGED <<list, view, stale>>

SelectRegion(region)     == Select([selected EXCEPT !.region = region])
SelectCategory(category) == Select([selected EXCEPT !.category = category])

Retry ==
  /\ Body = "error and Retry"
  /\ Send(selected)
  /\ UNCHANGED <<selected, list, view, stale>>

\* Of the fetches that are left, those sent before the i-th are overtaken.
Overtaken(i) ==
  RemoveAt([j \in DOMAIN inFlight |->
              [inFlight[j] EXCEPT !.late = @ \/ j < i]], i)

KeepsPage(p) == p                                \* slip: no setPage(0)
FirstPage(p) == 0

Answered(i) ==
  /\ \E data \in Answers[inFlight[i].filter] :
        list' = [videos |-> OrEmpty(data), filter |-> inFlight[i].filter]
  /\ view' = [view EXCEPT !.page = FirstPage(@)]
  /\ stale' = inFlight[i].late
  /\ inFlight' = Overtaken(i)
  /\ loading' = FALSE
  /\ UNCHANGED <<selected, error>>

\* finally runs setLoading(false) after an error, too.
Failed(i) ==
  /\ error' = TRUE
  /\ loading' = FALSE
  /\ stale' = inFlight[i].late
  /\ inFlight' = Overtaken(i)
  /\ UNCHANGED <<selected, list, view>>

-----------------------------------------------------------------------------
(* The rest of the controls.                                               *)

See(new) ==
  /\ view' = new
  /\ UNCHANGED <<selected, list, loading, error, inFlight, stale>>

handleSearch(search) ==
  /\ search # view.search
  /\ See([view EXCEPT !.search = search, !.page = FirstPage(@)])

toggleSort(key) ==
  /\ Body = "table"
  /\ See([view EXCEPT
            !.key = key,
            !.dir = IF view.key = key /\ @ = "desc" THEN "asc" ELSE "desc",
            !.page = FirstPage(@)])

PrevPage ==
  /\ PagerShown /\ Pager.prev
  /\ See([view EXCEPT !.page = Max({0, @ - 1})])

NextPage ==
  /\ PagerShown /\ Pager.next
  /\ See([view EXCEPT !.page = Min({TotalPages - 1, @ + 1})])

-----------------------------------------------------------------------------

\* The first render, and the effect that follows it.
Init ==
  /\ selected = [region |-> "US", category |-> AnyCategory]
  /\ list     = [videos |-> <<>>, filter |-> NoFilter]
  /\ loading  = TRUE
  /\ error    = FALSE
  /\ inFlight = <<[filter |-> selected, late |-> FALSE]>>
  /\ view     = [search |-> AnyWord, key |-> "view_count", dir |-> "desc", page |-> 0]
  /\ stale    = FALSE

FetchEnds == \E i \in DOMAIN inFlight : Answered(i) \/ Failed(i)

Next ==
  \/ \E region \in Regions : SelectRegion(region)
  \/ \E category \in Categories : SelectCategory(category)
  \/ Retry
  \/ FetchEnds
  \/ \E search \in Searches : handleSearch(search)
  \/ \E key \in Columns : toggleSort(key)
  \/ PrevPage \/ NextPage

Spec == Init /\ [][Next]_vars

-----------------------------------------------------------------------------

\* Once every fetch has ended nothing spins, and if the last answer was not
\* overtaken the videos are those of the two selectors, or an error is shown
\* (videos-table.tsx:83-104).
ShownIsSelected ==
  inFlight = <<>> =>
    /\ Body # "spinner"
    /\ stale \/ Body = "error and Retry" \/ list.filter = selected

\* The page exists: the caption never counts past the last page, and a table
\* with matches has a row on its page, and the pager names the rows of it.
PageExists ==
  Body = "table" =>
    /\ Caption.page <= Caption.pages
    /\ \A sorted \in Sortings(Matches) :
         /\ Matches # <<>> => Rows(sorted) # <<>>
         /\ Matches # <<>> => Len(Rows(sorted)) = Pager.to - Pager.from + 1

\* Turning the pages shows every match once, in every order the sort may give.
PagesCoverMatches ==
  \A sorted \in Sortings(Matches) :
    FlattenSeq([p \in 1 .. TotalPages |-> Slice(sorted, p - 1)]) = sorted

\* Whatever was searched, sorted, fetched and turned before, in any order: the
\* page shown exists, and the pages show every match once (videos-table.tsx:
\* 94, 106-136, 294-322).
PagesShowMatches == PageExists /\ PagesCoverMatches

=============================================================================
