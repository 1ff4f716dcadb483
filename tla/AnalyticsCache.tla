--------------------------- MODULE AnalyticsCache ---------------------------
(***************************************************************************)
(* GetVideos and GetTopChannels of the analytics service                   *)
(* (backend/analytics/server.go): lists read through Redis, where an entry *)
(* lives for an hour, over a table that the workers add to meanwhile.      *)
(*                                                                         *)
(* Time is a sequence of ticks.  Of a list only two things are kept: the   *)
(* request it answers and for how many ticks the database would have       *)
(* answered something else.                                                *)
(***************************************************************************)
EXTENDS Naturals

CONSTANTS
  Requests,     \* what is asked
  Regions,      \* of the videos
  Categories,   \* of the videos
  Moments,      \* at which videos are fetched, in parts of a second
  PerSecond,    \* parts of a second
  Readers,      \* calls that can be in progress at once
  NoValue,      \* no list
  TTL,          \* ticks an entry lives
  MaxDelay      \* bound on the ticks between a query and its redis.Set

AnyRegion   == ""        \* none given
AnyCategory == 0
NoTime      == 0         \* the zero time.Time

\* Of a filter, later than the first second of the year 1.
Filter == {NoTime} \cup { m \in Nat : m >= PerSecond }

VideosRequest ==
  [call : {"videos"}, region : Regions \cup {AnyRegion},
   category : Categories \cup {AnyCategory}, limit : Nat, offset : Nat,
   after : Filter, before : Filter]

ChannelsRequest ==
  [call : {"top_channels"}, region : Regions \cup {AnyRegion}, limit : Nat,
   sort : {"APPEAR_COUNT", "VIEW_COUNT", "other"}]

ASSUME CacheAssumption ==
  /\ Requests # {} /\ Requests \subseteq VideosRequest \cup ChannelsRequest
  /\ Moments \subseteq Nat /\ PerSecond \in Nat \ {0}
  /\ TTL \in Nat \ {0} /\ MaxDelay \in Nat
  /\ NoValue \notin [request : Requests, fresh : BOOLEAN, age : Nat]

VARIABLES
  cache,        \* Redis: by key, a list and the ticks it has left
  reader,       \* the calls
  quiet         \* no more videos are ingested

vars == <<cache, reader, quiet>>

\* Bound: ages are counted no further.
MaxAge == TTL + MaxDelay

Value   == [request : Requests, fresh : BOOLEAN, age : 0 .. MaxAge]
Entry   == [value : Value, left : 1 .. TTL]
NoEntry == [value |-> NoValue, left |-> 0]
Reader  == [pc : {"idle", "get", "query", "set", "answered", "failed"},
            request : Requests, value : Value \cup {NoValue}, waited : Nat]

\* Format(time.RFC3339) writes whole seconds.
Second(time) == time \div PerSecond

SortBy(request) ==
  IF request.sort = "VIEW_COUNT" THEN "total_views" ELSE "appear_count"

\* slip: all pages of a list under one key
KeyWithoutOffset(r) ==
  <<"videos", r.region, r.category, r.limit, Second(r.after), Second(r.before)>>

\* The Sprintf of each handler.  Only the region is free text, and it comes
\* first, so the separators keep the parameters apart.
Key(r) ==
  IF r.call = "videos"
  THEN <<"videos", r.region, r.category, r.limit, r.offset,
         Second(r.after), Second(r.before)>>
  ELSE <<"top_channels", r.region, r.limit, SortBy(r)>>

Keys == { Key(r) : r \in Requests }

-----------------------------------------------------------------------------
(* The handlers.                                                           *)

Move(r, from, to, value) ==
  /\ reader[r].pc = from
  /\ reader' = [reader EXCEPT ![r].pc = to, ![r].value = value]

Call(r, request) ==
  /\ reader[r].pc \in {"idle", "answered", "failed"}
  /\ reader' = [reader EXCEPT ![r] = [pc |-> "get", request |-> request,
                                      value |-> NoValue, waited |-> 0]]
  /\ UNCHANGED <<cache, quiet>>

\* What a read does to the entry it finds.
Touch(entry)     == [entry EXCEPT !.left = TTL]        \* slip: GETEX
AfterGet(entry)  == entry

\* redis.Get: a hit is the answer; an error of Redis counts as a miss.
Get(r) ==
  LET key == Key(reader[r].request) IN
  /\ \/ /\ cache[key] # NoEntry
        /\ Move(r, "get", "answered", cache[key].value)
        /\ cache' = [cache EXCEPT ![key] = AfterGet(@)]
     \/ /\ Move(r, "get", "query", NoValue)
        /\ UNCHANGED cache
  /\ UNCHANGED quiet

\* db.GetVideos, db.GetTopChannels.
Query(r) ==
  /\ \/ Move(r, "query", "set", [request |-> reader[r].request,
                                 fresh   |-> TRUE, age |-> 0])
     \/ Move(r, "query", "failed", NoValue)
  /\ UNCHANGED <<cache, quiet>>

\* redis.Set, whose error is dropped, and the answer.
Set(r) ==
  /\ Move(r, "set", "answered", reader[r].value)
  /\ \/ cache' = [cache EXCEPT ![Key(reader[r].request)] =
                    [value |-> reader[r].value, left |-> TTL]]
     \/ UNCHANGED cache
  /\ UNCHANGED quiet

-----------------------------------------------------------------------------
(* Time, and the workers.                                                  *)

Older(v) ==
  IF v = NoValue \/ v.fresh \/ v.age = MaxAge THEN v
  ELSE [v EXCEPT !.age = @ + 1]
Outdated(v) == IF v = NoValue THEN v ELSE [v EXCEPT !.fresh = FALSE]

Aged(entry) == [entry EXCEPT !.value = Older(@), !.left = @ - 1]

ExpiresLate(entry) ==                                  \* slip: off by one
  IF entry = NoEntry \/ entry.left = 0 THEN NoEntry ELSE Aged(entry)

Expired(entry) ==
  IF entry = NoEntry \/ entry.left = 1 THEN NoEntry ELSE Aged(entry)

\* What a call that is over was told is not followed any further.
Holds(r) == reader[r].pc = "set"

Tick ==
  /\ \A r \in Readers : Holds(r) => reader[r].waited < MaxDelay
  /\ cache' = [k \in Keys |-> Expired(cache[k])]
  /\ reader' = [r \in Readers |->
                  IF Holds(r) THEN [reader[r] EXCEPT !.value  = Older(@),
                                                     !.waited = @ + 1]
                  ELSE reader[r]]
  /\ UNCHANGED quiet

\* A worker inserts videos: every list that was read before is out of date.
Ingest ==
  /\ ~ quiet
  /\ cache' = [k \in Keys |-> [cache[k] EXCEPT !.value = Outdated(@)]]
  /\ reader' = [r \in Readers |->
                  IF Holds(r) THEN [reader[r] EXCEPT !.value = Outdated(@)]
                  ELSE reader[r]]
  /\ UNCHANGED quiet

IngestStops ==
  /\ ~ quiet
  /\ quiet' = TRUE
  /\ UNCHANGED <<cache, reader>>

-----------------------------------------------------------------------------

Init ==
  /\ cache = [k \in Keys |-> NoEntry]
  /\ reader = [r \in Readers |->
                 [pc |-> "idle", request |-> CHOOSE request \in Requests : TRUE,
                  value |-> NoValue, waited |-> 0]]
  /\ quiet = FALSE

Step(r) == Get(r) \/ Query(r) \/ Set(r)

Next ==
  \/ \E r \in Readers : Step(r) \/ \E request \in Requests : Call(r, request)
  \/ Tick \/ Ingest \/ IngestStops

Spec == Init /\ [][Next]_vars

\* Handlers run, statements return and time goes on.
FairSpec == Spec /\ WF_vars(Tick) /\ \A r \in Readers : WF_vars(Step(r))

-----------------------------------------------------------------------------

\* README.md:120, "Stale data is acceptable": how stale.  A slow reader may
\* put a list in the cache after newer videos came, even over a newer list,
\* and no answer is out of date for as long as the hour and that delay.
BoundedStaleness ==
  \A r \in Readers :
     reader[r].pc = "answered" => reader[r].value.age < MaxAge

\* The rows a list is made of: the WHERE of db.go.
Selects(r, row) ==
  /\ r.region \in {AnyRegion, row.region}
  /\ r.call = "videos" =>
       /\ r.category \in {AnyCategory, row.category}
       /\ r.after = NoTime \/ row.at > r.after
       /\ r.before = NoTime \/ row.at < r.before

SamePart(r, other) ==
  /\ r.call = other.call /\ r.limit = other.limit
  /\ r.call = "videos" => r.offset = other.offset
  /\ r.call = "top_channels" => (r.sort = "VIEW_COUNT") = (other.sort = "VIEW_COUNT")

\* Fetched within the very second of a filter.
AtTheEdge(r, row) ==
  r.call = "videos" /\ Second(row.at) \in {Second(r.after), Second(r.before)}

\* server.go:29, "keyed on all filter parameters": readers that share the
\* cache each get the part they asked for of a list of the rows they asked for.
\* The key keeps whole seconds only, so of the videos fetched in the second
\* of a time filter a reader may get what another one asked for.
AnswersTheRequest ==
  \A r \in Readers : reader[r].pc = "answered" =>
     LET asked    == reader[r].request
         answered == reader[r].value.request
     IN  /\ SamePart(asked, answered)
         /\ \A row \in [region : Regions, category : Categories, at : Moments] :
               AtTheEdge(asked, row) \/ Selects(asked, row) = Selects(answered, row)

\* Of FairSpec.  Once no more videos come, the cache one day holds the newest
\* lists only, however often they are asked for (README.md:120).
StaleDataGoes ==
  quiet ~> [](\A k \in Keys : cache[k] # NoEntry => cache[k].value.fresh)

=============================================================================
