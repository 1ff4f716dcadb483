------------------------ MODULE AnalyticsCacheProofs ------------------------
(***************************************************************************)
(* Proofs about AnalyticsCache, for every number of readers, every set of  *)
(* requests and every length of an hour and of a delay.                    *)
(*                                                                         *)
(* What bounds the age of an answer is a sum: a list enters the cache no   *)
(* older than its reader has waited, with the whole hour ahead of it, and  *)
(* from then on each tick that may add to its age takes from what is left  *)
(* of its hour.                                                            *)
(***************************************************************************)
EXTENDS AnalyticsCache, TLAPS

-----------------------------------------------------------------------------
(* The inductive invariant.                                                *)

CacheTypeOK ==
  /\ cache \in [Keys -> Entry \cup {NoEntry}]
  /\ reader \in [Readers -> Reader]

\* An entry answers its key, and the ticks it has left bound its age.
EntryOK(k) ==
  cache[k] # NoEntry =>
    /\ Key(cache[k].value.request) = k
    /\ cache[k].value.age + cache[k].left <= MaxAge

ReaderOK(r) ==
  /\ reader[r].waited <= MaxDelay
  /\ reader[r].pc = "set" =>
       /\ reader[r].value # NoValue
       /\ reader[r].value.request = reader[r].request
       /\ reader[r].value.age <= reader[r].waited
  /\ reader[r].pc = "answered" =>
       /\ reader[r].value # NoValue
       /\ reader[r].value.age < MaxAge
       /\ Key(reader[r].value.request) = Key(reader[r].request)

Inv ==
  /\ CacheTypeOK
  /\ \A k \in Keys : EntryOK(k)
  /\ \A r \in Readers : ReaderOK(r)

-----------------------------------------------------------------------------
(* The operators.                                                          *)

\* The bounds are numbers, and no list is no list.
LEMMA Bounds ==
  /\ TTL \in Nat /\ TTL >= 1 /\ MaxDelay \in Nat
  /\ MaxAge \in Nat /\ MaxAge = TTL + MaxDelay
  /\ NoValue \notin Value
  /\ NoEntry \notin Entry
<1>1. /\ TTL \in Nat /\ TTL >= 1 /\ MaxDelay \in Nat
      /\ MaxAge \in Nat /\ MaxAge = TTL + MaxDelay
  BY CacheAssumption DEF MaxAge
<1>2. NoValue \notin Value
  <2>1. Value \subseteq [request : Requests, fresh : BOOLEAN, age : Nat]
    BY <1>1 DEF Value
  <2> QED BY <2>1, CacheAssumption
<1>3. NoEntry \notin Entry
  BY DEF NoEntry, Entry
<1> QED BY <1>1, <1>2, <1>3

\* The key of a request is a key.
LEMMA KeyIsKey == \A request \in Requests : Key(request) \in Keys
  BY DEF Keys

\* A moment outside the second of two filters is on the same side of both.
LEMMA SameSide ==
  ASSUME NEW at \in Nat, NEW one \in Nat, NEW other \in Nat,
         Second(one) = Second(other), Second(at) # Second(one)
  PROVE  (at > one) = (at > other) /\ (at < one) = (at < other)
<1> DEFINE s(t) == t \div PerSecond
           rest(t) == t % PerSecond
<1>1. PerSecond \in Nat /\ PerSecond > 0
  BY CacheAssumption
<1>2. \A t \in Nat : /\ s(t) \in Nat /\ rest(t) \in 0 .. PerSecond - 1
                     /\ t = PerSecond * s(t) + rest(t)
  BY <1>1
<1>3. s(one) = s(other) /\ s(at) # s(one)
  BY DEF Second
<1>4. s(at) \in Nat /\ s(one) \in Nat
  BY <1>2
<1>5. CASE s(at) < s(one)
  <2>1. PerSecond * s(at) + PerSecond <= PerSecond * s(one)
    <3>1. s(at) + 1 <= s(one)
      BY <1>4, <1>5
    <3> HIDE DEF s
    <3> QED BY <1>1, <1>4, <3>1
  <2>2. PICK A \in Nat, B \in Nat : A = PerSecond * s(at) /\ B = PerSecond * s(one)
    BY <1>1, <1>4
  <2>3. /\ at = A + rest(at) /\ one = B + rest(one) /\ other = B + rest(other)
        /\ rest(at) \in 0 .. PerSecond - 1 /\ rest(one) \in 0 .. PerSecond - 1
        /\ rest(other) \in 0 .. PerSecond - 1
    BY <1>2, <1>3, <2>2
  <2>4. A + PerSecond <= B
    BY <2>1, <2>2
  <2> HIDE DEF s, rest
  <2> QED BY <1>1, <2>3, <2>4
<1>6. CASE s(at) > s(one)
  <2>1. PerSecond * s(one) + PerSecond <= PerSecond * s(at)
    <3>1. s(one) + 1 <= s(at)
      BY <1>4, <1>6
    <3> HIDE DEF s
    <3> QED BY <1>1, <1>4, <3>1
  <2>2. PICK A \in Nat, B \in Nat : A = PerSecond * s(at) /\ B = PerSecond * s(one)
    BY <1>1, <1>4
  <2>3. /\ at = A + rest(at) /\ one = B + rest(one) /\ other = B + rest(other)
        /\ rest(at) \in 0 .. PerSecond - 1 /\ rest(one) \in 0 .. PerSecond - 1
        /\ rest(other) \in 0 .. PerSecond - 1
    BY <1>2, <1>3, <2>2
  <2>4. B + PerSecond <= A
    BY <2>1, <2>2
  <2> HIDE DEF s, rest
  <2> QED BY <1>1, <2>3, <2>4
<1> QED BY <1>3, <1>4, <1>5, <1>6

\* Of two filters in the same second, both are given or none is.
LEMMA BothGiven ==
  ASSUME NEW one \in Filter, NEW other \in Filter, Second(one) = Second(other)
  PROVE  (one = NoTime) = (other = NoTime)
<1>1. PerSecond \in Nat /\ PerSecond > 0
  BY CacheAssumption
<1>2. 0 \div PerSecond = 0
  BY <1>1
<1>3. \A t \in Nat : t >= PerSecond => t \div PerSecond # 0
  BY <1>1
<1> QED BY <1>2, <1>3 DEF Filter, NoTime, Second

\* Requests with one key ask for the same part of a list of the same rows.
LEMMA KeyTells ==
  ASSUME NEW r \in Requests, NEW other \in Requests, Key(r) = Key(other)
  PROVE  /\ SamePart(r, other)
         /\ \A row \in [region : Regions, category : Categories, at : Moments] :
              AtTheEdge(r, row) \/ Selects(r, row) = Selects(other, row)
<1>1. r \in VideosRequest \cup ChannelsRequest /\ other \in VideosRequest \cup ChannelsRequest
  BY CacheAssumption
<1>2. CASE r \in ChannelsRequest /\ other \in ChannelsRequest
  <2>1. r.call = "top_channels" /\ other.call = "top_channels"
    BY <1>2 DEF ChannelsRequest
  <2>2. /\ r.region = other.region /\ r.limit = other.limit
        /\ SortBy(r) = SortBy(other)
    BY <2>1 DEF Key
  <2> QED BY <2>1, <2>2 DEF SamePart, Selects, SortBy
<1>3. CASE r \in VideosRequest /\ other \in VideosRequest
  <2>1. /\ r.call = "videos" /\ other.call = "videos"
        /\ r.after \in Filter /\ r.before \in Filter
        /\ other.after \in Filter /\ other.before \in Filter
    BY <1>3 DEF VideosRequest
  <2>2. /\ r.region = other.region /\ r.category = other.category
        /\ r.limit = other.limit /\ r.offset = other.offset
        /\ Second(r.after) = Second(other.after)
        /\ Second(r.before) = Second(other.before)
    BY <2>1 DEF Key
  <2>3. SamePart(r, other)
    BY <2>1, <2>2 DEF SamePart
  <2>4. /\ (r.after = NoTime) = (other.after = NoTime)
        /\ (r.before = NoTime) = (other.before = NoTime)
    BY <2>1, <2>2, BothGiven
  <2>5. ASSUME NEW row \in [region : Regions, category : Categories, at : Moments],
               ~ AtTheEdge(r, row)
        PROVE  Selects(r, row) = Selects(other, row)
    <3>1. /\ row.at \in Nat
          /\ Second(row.at) # Second(r.after) /\ Second(row.at) # Second(r.before)
      BY <2>1, <2>5, CacheAssumption DEF AtTheEdge
    <3>2. /\ r.after \in Nat /\ other.after \in Nat
          /\ r.before \in Nat /\ other.before \in Nat
      BY <2>1 DEF Filter, NoTime
    <3>3. (row.at > r.after) = (row.at > other.after)
      BY <2>2, <3>1, <3>2, SameSide
    <3>4. (row.at < r.before) = (row.at < other.before)
      BY <2>2, <3>1, <3>2, SameSide
    <3> QED BY <2>1, <2>2, <2>4, <3>3, <3>4 DEF Selects
  <2> QED BY <2>3, <2>5
<1>4. ~ (r.call = "videos" /\ other.call = "top_channels")
      /\ ~ (r.call = "top_channels" /\ other.call = "videos")
  <2>1. \A v, c : v.call = "videos" /\ c.call = "top_channels" => Key(v)[1] # Key(c)[1]
    BY DEF Key
  <2> QED BY <2>1
<1> QED BY <1>1, <1>2, <1>3, <1>4 DEF VideosRequest, ChannelsRequest

\* A tick makes a list at most one tick older, and no other list of it.
LEMMA OlderList ==
  ASSUME NEW v \in Value
  PROVE  /\ Older(v) \in Value
         /\ Older(v).request = v.request
         /\ Older(v).age \in {v.age, v.age + 1}
  BY Bounds DEF Older, Value

\* What a worker inserts changes no age.
LEMMA OutdatedList ==
  ASSUME NEW v \in Value
  PROVE  /\ Outdated(v) \in Value
         /\ Outdated(v).request = v.request
         /\ Outdated(v).age = v.age
  BY Bounds DEF Outdated, Value

\* An entry that outlives a tick loses it from what it has left.
LEMMA ExpiredEntry ==
  ASSUME NEW e \in Entry
  PROVE  \/ Expired(e) = NoEntry
         \/ /\ Expired(e) \in Entry
            /\ Expired(e).value = Older(e.value)
            /\ Expired(e).left = e.left - 1
<1>1. e.value \in Value /\ e.left \in 1 .. TTL
  BY DEF Entry
<1>2. Older(e.value) \in Value
  BY <1>1, OlderList
<1>3. CASE e.left = 1
  BY <1>3 DEF Expired
<1>4. CASE e.left # 1
  <2>1. Expired(e) = [e EXCEPT !.value = Older(e.value), !.left = e.left - 1]
    BY <1>4, Bounds DEF Expired, Aged, Entry
  <2>2. e.left - 1 \in 1 .. TTL
    BY <1>1, <1>4, Bounds
  <2> QED BY <1>2, <2>1, <2>2 DEF Entry
<1> QED BY <1>3, <1>4

-----------------------------------------------------------------------------
(* The handlers.                                                           *)

\* What is left to show of a step of one call.
LEMMA ReaderUpdate ==
  ASSUME Inv, NEW r \in Readers, NEW new \in Reader,
         reader' = [reader EXCEPT ![r] = new],
         new.waited <= MaxDelay,
         new.pc = "set" => /\ new.value # NoValue
                           /\ new.value.request = new.request
                           /\ new.value.age <= new.waited,
         new.pc = "answered" => /\ new.value # NoValue
                                /\ new.value.age < MaxAge
                                /\ Key(new.value.request) = Key(new.request)
  PROVE  reader' \in [Readers -> Reader] /\ \A q \in Readers : ReaderOK(q)'
<1>1. \A q \in Readers : reader'[q] = IF q = r THEN new ELSE reader[q]
  BY DEF Inv, CacheTypeOK
<1> QED BY <1>1 DEF Inv, CacheTypeOK, ReaderOK

\* A call begins.
LEMMA CallKeepsInv ==
  ASSUME Inv, NEW r \in Readers, NEW request \in Requests, Call(r, request)
  PROVE  Inv'
<1> DEFINE new == [pc |-> "get", request |-> request, value |-> NoValue, waited |-> 0]
<1>1. new \in Reader /\ new.waited <= MaxDelay
      /\ new.pc # "set" /\ new.pc # "answered"
  BY Bounds DEF Reader
<1>2. reader' = [reader EXCEPT ![r] = new] /\ UNCHANGED cache
  BY DEF Call
<1> HIDE DEF new
<1>3. reader' \in [Readers -> Reader] /\ \A q \in Readers : ReaderOK(q)'
  BY <1>1, <1>2, ReaderUpdate
<1> QED BY <1>2, <1>3 DEF Inv, CacheTypeOK, EntryOK

\* A call looks the key up: a hit has not outlived its hour.
LEMMA GetKeepsInv ==
  ASSUME Inv, NEW r \in Readers, Get(r)
  PROVE  Inv'
<1> DEFINE key == Key(reader[r].request)
<1>1. reader[r] \in Reader /\ reader[r].waited <= MaxDelay
      /\ reader[r].request \in Requests /\ key \in Keys
  BY KeyIsKey DEF Inv, CacheTypeOK, ReaderOK, Reader
<1>2. CASE /\ cache[key] # NoEntry
           /\ Move(r, "get", "answered", cache[key].value)
           /\ cache' = [cache EXCEPT ![key] = AfterGet(@)]
  <2> DEFINE new == [reader[r] EXCEPT !.pc = "answered", !.value = cache[key].value]
  <2>1. cache[key] \in Entry /\ EntryOK(key)
    BY <1>1, <1>2 DEF Inv, CacheTypeOK
  <2>2. /\ cache[key].value \in Value /\ cache[key].value # NoValue
        /\ cache[key].value.age < MaxAge
        /\ Key(cache[key].value.request) = key
    BY <1>2, <2>1, Bounds DEF EntryOK, Entry, Value
  <2>3. reader' = [reader EXCEPT ![r] = new]
    BY <1>2 DEF Move, Inv, CacheTypeOK
  <2>4. new \in Reader /\ new.pc = "answered" /\ new.value = cache[key].value
        /\ new.request = reader[r].request /\ new.waited = reader[r].waited
    BY <1>1, <2>2 DEF Reader
  <2>5. UNCHANGED cache
    BY <1>2 DEF AfterGet, Inv, CacheTypeOK
  <2> HIDE DEF new
  <2>6. reader' \in [Readers -> Reader] /\ \A q \in Readers : ReaderOK(q)'
    BY <1>1, <2>2, <2>3, <2>4, ReaderUpdate
  <2> QED BY <2>5, <2>6 DEF Inv, CacheTypeOK, EntryOK
<1>3. CASE Move(r, "get", "query", NoValue) /\ UNCHANGED cache
  <2> DEFINE new == [reader[r] EXCEPT !.pc = "query", !.value = NoValue]
  <2>1. reader' = [reader EXCEPT ![r] = new]
    BY <1>3 DEF Move, Inv, CacheTypeOK
  <2>2. new \in Reader /\ new.pc = "query" /\ new.waited = reader[r].waited
    BY <1>1 DEF Reader
  <2> HIDE DEF new
  <2>3. reader' \in [Readers -> Reader] /\ \A q \in Readers : ReaderOK(q)'
    BY <1>1, <2>1, <2>2, ReaderUpdate
  <2> QED BY <1>3, <2>3 DEF Inv, CacheTypeOK, EntryOK
<1> QED BY <1>2, <1>3 DEF Get

\* A call queries the table: the list is new, and the one asked for.
LEMMA QueryKeepsInv ==
  ASSUME Inv, NEW r \in Readers, Query(r)
  PROVE  Inv'
<1> DEFINE list == [request |-> reader[r].request, fresh |-> TRUE, age |-> 0]
<1>1. reader[r] \in Reader /\ reader[r].waited <= MaxDelay
      /\ reader[r].request \in Requests /\ reader[r].waited \in Nat
  BY DEF Inv, CacheTypeOK, ReaderOK, Reader
<1>2. list \in Value /\ list # NoValue /\ list.request = reader[r].request
      /\ list.age = 0
  <2>1. 0 \in 0 .. MaxAge
    BY Bounds
  <2>2. list \in Value
    BY <1>1, <2>1 DEF Value
  <2> QED BY <2>2, Bounds
<1>3. PICK pc \in {"set", "failed"}, value \in {list, NoValue} :
        /\ pc = "set" => value = list
        /\ Move(r, "query", pc, value)
  BY DEF Query
<1> HIDE DEF list
<1> DEFINE new == [reader[r] EXCEPT !.pc = pc, !.value = value]
<1>4. reader' = [reader EXCEPT ![r] = new]
  BY <1>3 DEF Move, Inv, CacheTypeOK
<1>5. new \in Reader /\ new.pc = pc /\ new.value = value
      /\ new.request = reader[r].request /\ new.waited = reader[r].waited
  BY <1>1, <1>2, <1>3 DEF Reader
<1> HIDE DEF new
<1>6. /\ new.waited <= MaxDelay /\ new.pc # "answered"
      /\ new.pc = "set" => /\ new.value # NoValue
                           /\ new.value.request = new.request
                           /\ new.value.age <= new.waited
  BY <1>1, <1>2, <1>3, <1>5
<1>7. reader' \in [Readers -> Reader] /\ \A q \in Readers : ReaderOK(q)'
  BY <1>4, <1>5, <1>6, ReaderUpdate
<1> QED BY <1>7 DEF Query, Inv, CacheTypeOK, EntryOK

\* A call stores its list, or fails to, and answers: the list is no older than
\* the call has waited.
LEMMA SetKeepsInv ==
  ASSUME Inv, NEW r \in Readers, Set(r)
  PROVE  Inv'
<1> DEFINE key   == Key(reader[r].request)
           new   == [reader[r] EXCEPT !.pc = "answered"]
           entry == [value |-> reader[r].value, left |-> TTL]
<1>1. /\ reader[r] \in Reader /\ reader[r].waited <= MaxDelay
      /\ reader[r].waited \in Nat /\ key \in Keys
      /\ reader[r].value \in Value
      /\ reader[r].value.request = reader[r].request
      /\ reader[r].value.age <= reader[r].waited
      /\ reader[r].value.age \in Nat
  <2>1. reader[r].pc = "set" /\ reader[r] \in Reader /\ ReaderOK(r)
    BY DEF Set, Move, Inv, CacheTypeOK
  <2> QED BY <2>1, KeyIsKey, Bounds DEF ReaderOK, Reader, Value
<1>2. reader' = [reader EXCEPT ![r] = new]
  BY DEF Set, Move, Inv, CacheTypeOK, Reader
<1>3. new \in Reader /\ new.pc = "answered" /\ new.value = reader[r].value
      /\ new.request = reader[r].request /\ new.waited = reader[r].waited
  BY <1>1 DEF Reader
<1>4. reader[r].value.age < MaxAge /\ reader[r].value # NoValue
  BY <1>1, Bounds
<1>5. /\ entry \in Entry /\ entry.value = reader[r].value
      /\ entry.value.age + entry.left <= MaxAge
      /\ Key(entry.value.request) = key
  BY <1>1, Bounds DEF Entry
<1> HIDE DEF new, entry
<1>6. reader' \in [Readers -> Reader] /\ \A q \in Readers : ReaderOK(q)'
  BY <1>1, <1>2, <1>3, <1>4, ReaderUpdate
<1>7. CASE cache' = [cache EXCEPT ![key] = entry]
  <2>1. \A k \in Keys : cache'[k] = IF k = key THEN entry ELSE cache[k]
    BY <1>1, <1>7 DEF Inv, CacheTypeOK
  <2>2. cache' \in [Keys -> Entry \cup {NoEntry}]
    BY <1>5, <1>7 DEF Inv, CacheTypeOK
  <2>3. \A k \in Keys : EntryOK(k)'
    BY <1>5, <2>1 DEF Inv, EntryOK
  <2> QED BY <1>6, <2>2, <2>3 DEF Inv, CacheTypeOK
<1>8. CASE UNCHANGED cache
  BY <1>6, <1>8 DEF Inv, CacheTypeOK, EntryOK
<1> QED BY <1>7, <1>8 DEF Set, entry

-----------------------------------------------------------------------------
(* Time, and the workers.                                                  *)

\* A tick.
LEMMA TickKeepsInv ==
  ASSUME Inv, Tick
  PROVE  Inv'
<1>1. ASSUME NEW k \in Keys
      PROVE  cache'[k] \in Entry \cup {NoEntry} /\ EntryOK(k)'
  <2>1. cache'[k] = Expired(cache[k]) /\ cache[k] \in Entry \cup {NoEntry}
    BY DEF Tick, Inv, CacheTypeOK
  <2>2. CASE cache[k] = NoEntry
    BY <2>1, <2>2 DEF Expired, EntryOK
  <2>3. CASE cache[k] \in Entry
    <3>1. CASE Expired(cache[k]) = NoEntry
      BY <2>1, <3>1 DEF EntryOK
    <3>2. CASE /\ Expired(cache[k]) \in Entry
               /\ Expired(cache[k]).value = Older(cache[k].value)
               /\ Expired(cache[k]).left = cache[k].left - 1
      <4>1. /\ cache[k].value \in Value /\ cache[k].left \in Nat
            /\ cache[k].value.age \in Nat
            /\ cache[k].value.age + cache[k].left <= MaxAge
            /\ Key(cache[k].value.request) = k
        BY <2>3, Bounds DEF Inv, EntryOK, Entry, Value
      <4>2. /\ Older(cache[k].value).request = cache[k].value.request
            /\ Older(cache[k].value).age \in
                 {cache[k].value.age, cache[k].value.age + 1}
        BY <4>1, OlderList
      <4> QED BY <2>1, <3>2, <4>1, <4>2, Bounds DEF EntryOK
    <3> QED BY <2>3, <3>1, <3>2, ExpiredEntry
  <2> QED BY <2>1, <2>2, <2>3
<1>2. ASSUME NEW r \in Readers
      PROVE  reader'[r] \in Reader /\ ReaderOK(r)'
  <2>1. reader[r] \in Reader /\ ReaderOK(r)
    BY DEF Inv, CacheTypeOK
  <2>2. CASE ~ Holds(r)
    BY <2>1, <2>2 DEF Tick, ReaderOK
  <2>3. CASE Holds(r)
    <3> DEFINE v == reader[r].value
    <3>1. /\ reader'[r] = [reader[r] EXCEPT !.value  = Older(v),
                                            !.waited = reader[r].waited + 1]
          /\ reader[r].waited < MaxDelay /\ reader[r].waited \in Nat
      BY <2>1, <2>3 DEF Tick, Reader
    <3>2. v \in Value /\ v.age \in Nat /\ v.age <= reader[r].waited
          /\ v.request = reader[r].request
      BY <2>1, <2>3, Bounds DEF Holds, ReaderOK, Reader, Value
    <3> HIDE DEF v
    <3>3. /\ Older(v) \in Value /\ Older(v) # NoValue
          /\ Older(v).request = v.request /\ Older(v).age \in {v.age, v.age + 1}
      BY <3>2, OlderList, Bounds
    <3>4. /\ reader'[r] \in Reader /\ reader'[r].pc = "set"
          /\ reader'[r].value = Older(v)
          /\ reader'[r].request = reader[r].request
          /\ reader'[r].waited = reader[r].waited + 1
      <4>1. reader[r].waited + 1 \in Nat
        BY <3>1
      <4>2. reader'[r] \in Reader
        BY <2>1, <3>1, <3>3, <4>1 DEF Reader
      <4> QED BY <2>1, <2>3, <3>1, <4>2 DEF Reader, Holds
    <3> QED BY <3>1, <3>2, <3>3, <3>4, Bounds DEF ReaderOK
  <2> QED BY <2>2, <2>3
<1>3. cache' \in [Keys -> Entry \cup {NoEntry}] /\ reader' \in [Readers -> Reader]
  BY <1>1, <1>2 DEF Tick
<1> QED BY <1>1, <1>2, <1>3 DEF Inv, CacheTypeOK

\* A worker inserts videos.
LEMMA IngestKeepsInv ==
  ASSUME Inv, Ingest
  PROVE  Inv'
<1>1. ASSUME NEW k \in Keys
      PROVE  cache'[k] \in Entry \cup {NoEntry} /\ EntryOK(k)'
  <2>1. cache'[k] = [cache[k] EXCEPT !.value = Outdated(@)]
        /\ cache[k] \in Entry \cup {NoEntry}
    BY DEF Ingest, Inv, CacheTypeOK
  <2>2. CASE cache[k] = NoEntry
    BY <2>1, <2>2 DEF Outdated, NoEntry, EntryOK
  <2>3. CASE cache[k] \in Entry
    <3>1. cache[k].value \in Value /\ EntryOK(k) /\ cache[k] # NoEntry
      BY <2>3, Bounds DEF Inv, Entry
    <3>2. /\ Outdated(cache[k].value) \in Value
          /\ Outdated(cache[k].value).request = cache[k].value.request
          /\ Outdated(cache[k].value).age = cache[k].value.age
      BY <3>1, OutdatedList
    <3>3. cache'[k] \in Entry /\ cache'[k].value = Outdated(cache[k].value)
          /\ cache'[k].left = cache[k].left
      BY <2>1, <2>3, <3>2 DEF Entry
    <3> QED BY <3>1, <3>2, <3>3 DEF EntryOK
  <2> QED BY <2>1, <2>2, <2>3
<1>2. ASSUME NEW r \in Readers
      PROVE  reader'[r] \in Reader /\ ReaderOK(r)'
  <2>1. reader[r] \in Reader /\ ReaderOK(r)
    BY DEF Inv, CacheTypeOK
  <2>2. CASE ~ Holds(r)
    BY <2>1, <2>2 DEF Ingest, ReaderOK
  <2>3. CASE Holds(r)
    <3> DEFINE v == reader[r].value
    <3>1. reader'[r] = [reader[r] EXCEPT !.value = Outdated(v)]
      BY <2>1, <2>3 DEF Ingest
    <3>2. v \in Value /\ v.age <= reader[r].waited /\ v.request = reader[r].request
      BY <2>1, <2>3 DEF Holds, ReaderOK, Reader
    <3> HIDE DEF v
    <3>3. /\ Outdated(v) \in Value /\ Outdated(v) # NoValue
          /\ Outdated(v).request = v.request /\ Outdated(v).age = v.age
      BY <3>2, OutdatedList, Bounds
    <3>4. /\ reader'[r] \in Reader /\ reader'[r].pc = "set"
          /\ reader'[r].value = Outdated(v)
          /\ reader'[r].request = reader[r].request
          /\ reader'[r].waited = reader[r].waited
      BY <2>1, <2>3, <3>1, <3>3 DEF Reader, Holds
    <3> QED BY <2>1, <3>2, <3>3, <3>4 DEF ReaderOK
  <2> QED BY <2>2, <2>3
<1>3. cache' \in [Keys -> Entry \cup {NoEntry}] /\ reader' \in [Readers -> Reader]
  BY <1>1, <1>2 DEF Ingest
<1> QED BY <1>1, <1>2, <1>3 DEF Inv, CacheTypeOK

-----------------------------------------------------------------------------
(* The theorems.                                                           *)

\* An empty cache and no call.
LEMMA InitInv == Init => Inv
<1> SUFFICES ASSUME Init PROVE Inv
  OBVIOUS
<1>1. (CHOOSE request \in Requests : TRUE) \in Requests
  BY CacheAssumption
<1> DEFINE idle == [pc |-> "idle", request |-> CHOOSE request \in Requests : TRUE,
                    value |-> NoValue, waited |-> 0]
<1>2. idle \in Reader /\ idle.waited <= MaxDelay /\ idle.pc = "idle"
  BY <1>1, Bounds DEF Reader
<1>3. reader = [r \in Readers |-> idle] /\ cache = [k \in Keys |-> NoEntry]
  BY DEF Init
<1> HIDE DEF idle
<1>4. CacheTypeOK
  BY <1>2, <1>3 DEF CacheTypeOK
<1>5. \A r \in Readers : ReaderOK(r)
  BY <1>2, <1>3 DEF ReaderOK
<1>6. \A k \in Keys : EntryOK(k)
  BY <1>3 DEF EntryOK
<1> QED BY <1>4, <1>5, <1>6 DEF Inv

\* Inv holds in every state that Spec reaches.
THEOREM Invariance == Spec => []Inv
<1>1. Init => Inv
  BY InitInv
<1>2. ASSUME Inv, [Next]_vars
      PROVE  Inv'
  <2>1. CASE \E r \in Readers : Step(r) \/ \E request \in Requests : Call(r, request)
    BY <1>2, <2>1, GetKeepsInv, QueryKeepsInv, SetKeepsInv, CallKeepsInv DEF Step
  <2>2. CASE Tick \/ Ingest
    BY <1>2, <2>2, TickKeepsInv, IngestKeepsInv
  <2>3. CASE IngestStops \/ UNCHANGED vars
    BY <1>2, <2>3 DEF IngestStops, vars, Inv, CacheTypeOK, EntryOK, ReaderOK
  <2> QED BY <1>2, <2>1, <2>2, <2>3 DEF Next
<1> QED BY <1>1, <1>2, PTL DEF Spec

\* No answer has been out of date for as long as the hour of an entry and the
\* longest delay between a query and its redis.Set, whichever calls share the
\* cache and however late they write it (README.md:120).
THEOREM StalenessIsBounded == Spec => []BoundedStaleness
<1>1. Inv => BoundedStaleness
  BY DEF Inv, ReaderOK, BoundedStaleness
<1> QED BY <1>1, Invariance, PTL

\* A cache shared by all requests answers each with its own part of a list of
\* its own rows, but for the rows fetched in the second of a time filter
\* (server.go:29): no parameter is missing in a key.
THEOREM EachIsAnsweredItsOwn == Spec => []AnswersTheRequest
<1>1. ASSUME Inv PROVE AnswersTheRequest
  <2>1. ASSUME NEW r \in Readers, reader[r].pc = "answered"
        PROVE  /\ reader[r].request \in Requests
               /\ reader[r].value.request \in Requests
               /\ Key(reader[r].request) = Key(reader[r].value.request)
    BY <1>1, <2>1 DEF Inv, CacheTypeOK, ReaderOK, Reader, Value
  <2> QED BY <2>1, KeyTells DEF AnswersTheRequest
<1> QED BY <1>1, Invariance, PTL

=============================================================================
