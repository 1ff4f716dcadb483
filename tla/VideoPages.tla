------------------------------ MODULE VideoPages ------------------------------
(***************************************************************************)
(* A client of GET /videos that reads page after page with limit and       *)
(* offset (backend/db/db.go), until a page is empty.  Each page is a query *)
(* of its own, and Redis keeps the answer for an hour by its offset        *)
(* (backend/analytics/server.go): workers save snapshots between two       *)
(* pages, and a later page may be of an earlier table.                     *)
(***************************************************************************)
EXTENDS VideoQueries

CONSTANTS
  Snapshots,     \* the rows of videos that may be saved
  Limit,         \* limit
  MaxRecent      \* bound on the contents an hour may hold

ASSUME PagesAssumption ==
  /\ Limit \in Nat \ {0}
  /\ IsFiniteSet(Snapshots)
  /\ \A row \in Snapshots : row.at \in Int /\ row.view_count \in Int
  /\ \A a, b \in Snapshots : a.video = b.video /\ a.at = b.at => a = b

VARIABLES
  table,         \* the table videos
  recent,        \* the contents of the table that a page may be of
  offset, done,  \* the client
  seen,          \* the videos of the pages it has read
  made           \* history: the contents these pages were of

vars == <<table, recent, offset, done, seen, made>>

Videos(rows) == { row.video : row \in rows }

-----------------------------------------------------------------------------

\* A page: handleGetVideos, GetVideos, from Redis or from the table.
Read ==
  /\ ~ done
  /\ \E content \in recent :
     \E page \in GetVideos(content, AnyRegion, AnyCategory, Limit, offset) :
        /\ seen' = seen \o [i \in DOMAIN page |-> page[i].video]
        /\ done' = (page = <<>>)
        /\ made' = Append(made, content)
  /\ offset' = offset + Limit
  /\ UNCHANGED <<table, recent>>

\* The first page again.
Start ==
  /\ done
  /\ offset' = 0 /\ done' = FALSE /\ seen' = <<>> /\ made' = <<>>
  /\ UNCHANGED <<table, recent>>

\* A worker saves a row it fetched at some time before.
Save(row) ==
  /\ row \notin table /\ Cardinality(recent) < MaxRecent
  /\ table' = table \cup {row}
  /\ recent' = recent \cup {table'}
  /\ UNCHANGED <<offset, done, seen, made>>

\* The last entry of an earlier content expires.
Expire ==
  /\ \E content \in recent \ {table} : recent' = recent \ {content}
  /\ UNCHANGED <<table, offset, done, seen, made>>

Init ==
  /\ table \in SUBSET Snapshots
  /\ recent = {table}
  /\ offset = 0 /\ done = FALSE /\ seen = <<>> /\ made = <<>>

Next == Read \/ Start \/ Expire \/ \E row \in Snapshots : Save(row)

Spec == Init /\ [][Next]_vars

-----------------------------------------------------------------------------
(* Where a video stands in a table.                                        *)

Views(rows, video) ==
  LET latest == CHOOSE row \in rows :
        /\ row.video = video
        /\ \A other \in rows : other.video = video => row.at >= other.at
  IN latest.view_count

Above(rows, video) ==
  { other \in Videos(rows) : Views(rows, other) > Views(rows, video) }

Rank(rows, video) == Cardinality(Above(rows, video))

\* It shares its place with no other.
Alone(rows, video) ==
  /\ video \in Videos(rows)
  /\ \A other \in Videos(rows) \ {video} : Views(rows, other) # Views(rows, video)

\* It never moves up, or down, from a page to the next.
NeverRises(video) == \A i, j \in DOMAIN made :
  j = i + 1 => Rank(made[i], video) <= Rank(made[j], video)
NeverSinks(video) == \A i, j \in DOMAIN made :
  j = i + 1 => Rank(made[j], video) <= Rank(made[i], video)

AlwaysAlone(video) == \A i \in DOMAIN made : Alone(made[i], video)

-----------------------------------------------------------------------------

\* Every variable has its type, and no page is longer than limit.
TypeOK ==
  /\ table \subseteq Snapshots /\ table \in recent
  /\ recent \subseteq SUBSET Snapshots
  /\ done \in BOOLEAN
  /\ offset \in Nat /\ Len(seen) <= offset
  /\ seen \in Seq(Videos(Snapshots))
  /\ made \in Seq(SUBSET Snapshots)

\* A video that was there all along is missed only if it moved up between two
\* pages or has as many views as another, however old each page was.
MissedOnlyIfItRose ==
  done => \A video \in Videos(Snapshots) :
    AlwaysAlone(video) /\ NeverRises(video) => video \in Range(seen)

\* It is read twice only if it moved down, or shares its place.
TwiceOnlyIfItSank ==
  \A video \in Videos(Snapshots) :
    AlwaysAlone(video) /\ NeverSinks(video) =>
      \A i, j \in DOMAIN seen : seen[i] = video /\ seen[j] = video => i = j

\* What a client that turns the pages of a growing table has read at the end,
\* of pages from Redis and from the table (db/db.go:152-154,
\* analytics/server.go:39-54).
PagesCover == TypeOK /\ MissedOnlyIfItRose /\ TwiceOnlyIfItSank

=============================================================================
