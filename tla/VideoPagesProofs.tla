-------------------------- MODULE VideoPagesProofs --------------------------
(***************************************************************************)
(* Proofs about VideoPages, for every finite set of snapshots, whose       *)
(* counts may be equal and may fall, and every limit.                      *)
(*                                                                         *)
(* A page is a stretch of a list that is nowhere in the state: each query  *)
(* makes it anew, of a content of its own.  What does not depend on the    *)
(* query is a video's rank, how many videos have more views; every list    *)
(* has a video that shares its place with no other at the place of its     *)
(* rank.  While the rank of a video never falls from page to page, a       *)
(* client that has not read it yet has it still ahead; while it never      *)
(* grows, a client that has read it has left it behind.                    *)
(***************************************************************************)
EXTENDS VideoPages, TLAPS, SequenceTheorems, FiniteSetTheorems

-----------------------------------------------------------------------------
(* The inductive invariant.                                                *)

\* What the last page was of.
LastMade == made[Len(made)]

\* A video that never rose is read already or still ahead.
AheadOrSeen ==
  \A v \in Videos(Snapshots) : AlwaysAlone(v) /\ NeverRises(v) =>
    v \in Range(seen) \/ (~ done /\ (made # <<>> => offset <= Rank(LastMade, v)))

\* A video that was read and never sank is behind.
SeenIsBehind ==
  \A v \in Videos(Snapshots) : AlwaysAlone(v) /\ NeverSinks(v) /\ v \in Range(seen) =>
    made # <<>> /\ Rank(LastMade, v) < offset

Inv ==
  /\ TypeOK
  /\ made = <<>> => offset = 0 /\ seen = <<>> /\ ~ done
  /\ AheadOrSeen /\ SeenIsBehind /\ TwiceOnlyIfItSank

-----------------------------------------------------------------------------
(* Finite sets and lists.                                                  *)

\* The smaller of two numbers.
LEMMA MinOfTwo ==
  ASSUME NEW a \in Int, NEW b \in Int
  PROVE  Min({a, b}) \in Int /\ Min({a, b}) <= a /\ Min({a, b}) <= b
<1>1. \E x \in {a, b} : \A y \in {a, b} : x <= y
  BY DEF Min
<1>2. Min({a, b}) \in {a, b} /\ \A y \in {a, b} : Min({a, b}) <= y
  BY <1>1 DEF Min
<1> QED BY <1>2

\* Lists of the rows of a finite set hold each of them.
LEMMA ListsOfAll ==
  ASSUME NEW S, IsFiniteSet(S), NEW list \in SetToSeqs(S)
  PROVE  /\ list \in Seq(S) /\ DOMAIN list = 1 .. Len(list) /\ Len(list) \in Nat
         /\ \A x \in S : \E i \in DOMAIN list : list[i] = x
<1> DEFINE c == Cardinality(S)
<1>1. c \in Nat
  BY FS_CardinalityType
<1>2. /\ list \in [1 .. c -> S]
      /\ \A i, j \in 1 .. c : i # j => list[i] # list[j]
  BY DEF SetToSeqs
<1> HIDE DEF c
<1>3. list \in Seq(S)
  BY <1>1, <1>2, SeqDef
<1>4. list \in Injection(1 .. c, S)
  BY <1>2 DEF Injection, IsInjective
<1>5. Cardinality(1 .. c) = c
  BY <1>1, FS_Interval
<1>6. list \in Surjection(1 .. c, S)
  BY <1>4, <1>5, FS_Injection DEF c
<1> QED BY <1>2, <1>3, <1>6, LenProperties DEF Surjection

\* Every set that is counted is finite.
LEMMA Finite ==
  ASSUME NEW T \in SUBSET Snapshots
  PROVE  /\ IsFiniteSet(T)
         /\ \A v : IsFiniteSet(Above(T, v)) /\ Rank(T, v) \in Nat
<1>1. IsFiniteSet(T)
  BY PagesAssumption, FS_Subset
<1>2. IsFiniteSet(Videos(T))
  <2> DEFINE f == [row \in T |-> row.video]
  <2>1. f \in Surjection(T, Videos(T))
    BY DEF Surjection, Videos
  <2> QED BY <1>1, <2>1, FS_Surjection
<1>3. ASSUME NEW v PROVE IsFiniteSet(Above(T, v)) /\ Rank(T, v) \in Nat
  <2>1. Above(T, v) \in SUBSET Videos(T)
    BY DEF Above
  <2>2. IsFiniteSet(Above(T, v))
    BY <1>2, <2>1, FS_Subset
  <2> QED BY <2>2, FS_CardinalityType DEF Rank
<1> QED BY <1>1, <1>3

-----------------------------------------------------------------------------
(* A table and its pages.                                                  *)

\* The newest rows are one for each video, with its views.
LEMMA NewestRows ==
  ASSUME NEW T \in SUBSET Snapshots,
         NEW some \in Newest(InFilter(T, AnyRegion, AnyCategory))
  PROVE  /\ some \subseteq T
         /\ \A row \in T : \E one \in some : one.video = row.video
         /\ \A one, two \in some : one.video = two.video => one = two
         /\ \A one \in some : Views(T, one.video) = one.view_count
<1> DEFINE rows == InFilter(T, AnyRegion, AnyCategory)
<1>1. rows = T
  BY DEF InFilter, InRegion
<1> HIDE DEF rows
<1>2. /\ some \subseteq T
      /\ \A row \in T : \E one \in some : one.video = row.video
      /\ \A one \in some, row \in T :
           one.video = row.video => one.at >= row.at /\ (row \in some => row = one)
  BY <1>1 DEF Newest, rows
<1>3. ASSUME NEW one \in some PROVE Views(T, one.video) = one.view_count
  <2> DEFINE Latest(row) == /\ row.video = one.video
                            /\ \A other \in T : other.video = one.video => row.at >= other.at
             latest == CHOOSE row \in T : Latest(row)
  <2>1. one \in T /\ Latest(one)
    BY <1>2
  <2>2. latest \in T /\ Latest(latest)
    <3> HIDE DEF Latest
    <3> QED BY <2>1
  <2>3. latest.at >= one.at /\ one.at >= latest.at /\ latest.video = one.video
    BY <2>1, <2>2
  <2>4. latest = one
    <3>1. latest \in Snapshots /\ one \in Snapshots
      BY <2>1, <2>2
    <3> HIDE DEF latest
    <3>2. latest.at \in Int /\ one.at \in Int
      BY <3>1, PagesAssumption
    <3> QED BY <2>3, <3>1, <3>2, PagesAssumption
  <2> QED BY <2>4 DEF Views
<1> QED BY <1>2, <1>3

\* In every list that the query may make, a video that shares its place with no
\* other is at the place of its rank.
LEMMA PlaceIsRank ==
  ASSUME NEW T \in SUBSET Snapshots,
         NEW some \in Newest(InFilter(T, AnyRegion, AnyCategory)),
         NEW list \in OrderedBy(some, "view_count"),
         NEW i \in DOMAIN list, Alone(T, list[i].video)
  PROVE  Rank(T, list[i].video) = i - 1
<1>1. /\ some \subseteq T
      /\ \A row \in T : \E one \in some : one.video = row.video
      /\ \A one, two \in some : one.video = two.video => one = two
      /\ \A one \in some : Views(T, one.video) = one.view_count
  BY NewestRows
<1>2. /\ list \in SetToSeqs(some)
      /\ \A j, k \in DOMAIN list : j < k => list[j]["view_count"] >= list[k]["view_count"]
  BY DEF OrderedBy
<1>3. /\ DOMAIN list = 1 .. Len(list) /\ Len(list) \in Nat
      /\ \A j \in DOMAIN list : list[j] \in some
      /\ \A x \in some : \E j \in DOMAIN list : list[j] = x
  <2>1. IsFiniteSet(some)
    <3>1. some \in SUBSET Snapshots
      BY <1>1
    <3> QED BY <3>1, Finite
  <2>2. /\ list \in Seq(some) /\ DOMAIN list = 1 .. Len(list) /\ Len(list) \in Nat
        /\ \A x \in some : \E j \in DOMAIN list : list[j] = x
    BY <1>2, <2>1, ListsOfAll
  <2> QED BY <2>2, ElementOfSeq
<1>4. \A j, k \in DOMAIN list : j # k => list[j] # list[k]
  <2>1. list \in [1 .. Cardinality(some) -> some]
    BY <1>2 DEF SetToSeqs
  <2> QED BY <1>2, <2>1 DEF SetToSeqs
<1>5. i \in 1 .. Len(list) /\ list[i] \in some
  BY <1>3
<1>6. \A one \in some : one.video \in Videos(T) /\ one.view_count \in Int
  BY <1>1, PagesAssumption DEF Videos
<1> DEFINE f == [j \in 1 .. i - 1 |-> list[j].video]
           A == Above(T, list[i].video)
<1>7. ASSUME NEW j \in 1 .. i - 1 PROVE list[j].video \in A
  <2>1. j \in DOMAIN list /\ j < i /\ list[j] \in some
    BY <1>3, <1>5
  <2>2. list[j].view_count >= list[i].view_count
    BY <1>2, <1>5, <2>1
  <2>3. list[j].video # list[i].video
    BY <1>1, <1>4, <1>5, <2>1
  <2>4. list[j].view_count # list[i].view_count
    BY <1>1, <1>5, <1>6, <2>1, <2>3 DEF Alone
  <2> QED BY <1>1, <1>5, <1>6, <2>1, <2>2, <2>4 DEF Above
<1>8. \A j, k \in 1 .. i - 1 : list[j].video = list[k].video => j = k
  <2>1. \A j \in 1 .. i - 1 : j \in DOMAIN list /\ list[j] \in some
    BY <1>3, <1>5
  <2> QED BY <1>1, <1>4, <2>1
<1>9. ASSUME NEW w \in A PROVE \E j \in 1 .. i - 1 : list[j].video = w
  <2>1. w \in Videos(T) /\ Views(T, w) > Views(T, list[i].video)
    BY DEF Above
  <2>2. PICK one \in some : one.video = w
    BY <1>1, <2>1 DEF Videos
  <2>3. one.view_count > list[i].view_count
    BY <1>1, <1>5, <2>1, <2>2
  <2>4. PICK j \in DOMAIN list : list[j] = one
    BY <1>3
  <2>5. ~ (i <= j)
    <3>1. one.view_count \in Int /\ list[i].view_count \in Int
      BY <1>5, <1>6
    <3>2. i # j
      BY <2>3, <2>4, <3>1
    <3>3. ~ (i < j)
      BY <1>2, <2>3, <2>4, <3>1
    <3> QED BY <1>3, <1>5, <2>4, <3>2, <3>3
  <2> QED BY <1>3, <1>5, <2>2, <2>4, <2>5
<1> HIDE DEF A
<1>10. f \in Bijection(1 .. i - 1, A)
  BY <1>7, <1>8, <1>9 DEF Bijection, Injection, Surjection, IsInjective
<1>11. i - 1 \in Nat /\ ExistsBijection(1 .. i - 1, A)
  BY <1>5, <1>10 DEF ExistsBijection
<1> QED BY <1>11, FS_CountingElements DEF Rank, A

\* The smaller of two numbers is one of them.
LEMMA MinIsEither ==
  ASSUME NEW a \in Int, NEW b \in Int
  PROVE  Min({a, b}) \in {a, b}
<1>1. \E x \in {a, b} : \A y \in {a, b} : x <= y
  BY DEF Min
<1> QED BY <1>1 DEF Min

\* A page that follows off videos has the next limit of them by rank.
LEMMA PageByRank ==
  ASSUME NEW T \in SUBSET Snapshots, NEW off \in Nat,
         NEW page \in GetVideos(T, AnyRegion, AnyCategory, Limit, off)
  PROVE  /\ page \in Seq(T) /\ Len(page) <= Limit
         /\ \A k \in 1 .. Len(page) :
              Alone(T, page[k].video) => Rank(T, page[k].video) = off + k - 1
         /\ \A v : Alone(T, v) /\ off <= Rank(T, v) =>
              \/ off + Limit <= Rank(T, v)
              \/ \E k \in 1 .. Len(page) : page[k].video = v
         /\ page = <<>> => \A v : Alone(T, v) => Rank(T, v) < off
<1>1. PICK some \in Newest(InFilter(T, AnyRegion, AnyCategory)) :
        page \in { Page(list, Limit, off) : list \in OrderedBy(some, "view_count") }
  BY DEF GetVideos
<1>2. PICK list \in OrderedBy(some, "view_count") : page = Page(list, Limit, off)
  BY <1>1
<1> DEFINE n == Len(list)
           m == Min({off + Limit, n})
<1>3. /\ some \subseteq T
      /\ \A row \in T : \E one \in some : one.video = row.video
  BY NewestRows
<1>4. list \in SetToSeqs(some) /\ IsFiniteSet(some)
  <2>1. some \in SUBSET Snapshots
    BY <1>3
  <2> QED BY <2>1, Finite DEF OrderedBy
<1>5. /\ list \in Seq(some) /\ DOMAIN list = 1 .. n /\ n \in Nat
      /\ \A x \in some : \E i \in DOMAIN list : list[i] = x
  BY <1>4, ListsOfAll
<1>6. \A i \in 1 .. n :
        list[i] \in T /\ (Alone(T, list[i].video) => Rank(T, list[i].video) = i - 1)
  <2>1. \A i \in DOMAIN list :
          Alone(T, list[i].video) => Rank(T, list[i].video) = i - 1
    BY PlaceIsRank
  <2>2. \A i \in 1 .. n : list[i] \in some
    BY <1>5, ElementOfSeq
  <2> QED BY <1>3, <1>5, <2>1, <2>2
<1>7. /\ Limit \in Nat \ {0} /\ m \in Int
      /\ m <= off + Limit /\ m <= n /\ m \in {off + Limit, n}
  <2>1. Limit \in Nat \ {0}
    BY PagesAssumption
  <2>2. off + Limit \in Int /\ n \in Int
    BY <1>5, <2>1
  <2> HIDE DEF n
  <2> QED BY <2>1, <2>2, MinOfTwo, MinIsEither
<1>8. page = SubSeq(list, off + 1, m)
  BY <1>2 DEF Page
<1> HIDE DEF n, m
<1>9. \A i \in off + 1 .. m : list[i] \in T
  BY <1>5, <1>6, <1>7
<1>10. /\ page \in Seq(T)
       /\ Len(page) = IF off + 1 <= m THEN m - off ELSE 0
       /\ \A k \in 1 .. m - off : page[k] = list[off + k]
  <2>1. off + 1 \in Int
    OBVIOUS
  <2>2. /\ page \in Seq(T)
        /\ Len(page) = IF off + 1 <= m THEN m - (off + 1) + 1 ELSE 0
        /\ \A k \in 1 .. m - (off + 1) + 1 : page[k] = list[off + 1 + k - 1]
    BY <1>7, <1>8, <1>9, <2>1, SubSeqProperties
  <2>3. m - (off + 1) + 1 = m - off /\ \A k \in Int : off + 1 + k - 1 = off + k
    BY <1>7
  <2> QED BY <2>2, <2>3
<1>11. Len(page) <= Limit
  BY <1>7, <1>10
<1>12. ASSUME NEW k \in 1 .. Len(page), Alone(T, page[k].video)
       PROVE  Rank(T, page[k].video) = off + k - 1
  <2>1. k \in 1 .. m - off /\ off + k \in 1 .. n
    BY <1>5, <1>7, <1>10
  <2> QED BY <1>6, <1>10, <1>12, <2>1
<1>13. ASSUME NEW v, Alone(T, v)
       PROVE  \E i \in 1 .. n : list[i].video = v /\ i - 1 = Rank(T, v)
  <2>1. PICK row \in T : row.video = v
    BY <1>13 DEF Alone, Videos
  <2>2. PICK one \in some : one.video = v
    BY <1>3, <2>1
  <2>3. PICK i \in 1 .. n : list[i] = one
    BY <1>5
  <2> QED BY <1>6, <1>13, <2>2, <2>3
<1>14. ASSUME NEW v, Alone(T, v), off <= Rank(T, v), ~ (off + Limit <= Rank(T, v))
       PROVE  \E k \in 1 .. Len(page) : page[k].video = v
  <2>1. PICK i \in 1 .. n : list[i].video = v /\ i - 1 = Rank(T, v)
    BY <1>13, <1>14
  <2>2. i \in Int /\ i >= off + 1 /\ i <= off + Limit
    BY <1>5, <1>7, <1>14, <2>1
  <2>3. i <= m
    BY <1>5, <1>7, <2>1, <2>2
  <2>4. i - off \in 1 .. m - off /\ i - off \in 1 .. Len(page) /\ off + (i - off) = i
    BY <1>7, <1>10, <2>2, <2>3
  <2> QED BY <1>10, <2>1, <2>4
<1>15. ASSUME page = <<>>, NEW v, Alone(T, v) PROVE Rank(T, v) < off
  <2>1. Len(page) = 0
    BY <1>15, EmptySeq
  <2>2. n <= off
    BY <1>5, <1>7, <1>10, <2>1
  <2>3. PICK i \in 1 .. n : list[i].video = v /\ i - 1 = Rank(T, v)
    BY <1>13, <1>15
  <2> QED BY <1>5, <2>2, <2>3
<1> QED BY <1>10, <1>11, <1>12, <1>14, <1>15

-----------------------------------------------------------------------------
(* The steps.                                                              *)

\* One page more.
LEMMA OneMore ==
  ASSUME NEW m \in Seq(SUBSET Snapshots), NEW C \in SUBSET Snapshots
  PROVE  /\ Append(m, C) \in Seq(SUBSET Snapshots)
         /\ Len(m) \in Nat /\ Len(Append(m, C)) = Len(m) + 1
         /\ DOMAIN m = 1 .. Len(m) /\ DOMAIN Append(m, C) = 1 .. Len(m) + 1
         /\ \A i \in 1 .. Len(m) : Append(m, C)[i] = m[i] /\ m[i] \in SUBSET Snapshots
         /\ Append(m, C)[Len(m) + 1] = C /\ Append(m, C) # <<>>
         /\ m # <<>> => Len(m) \in 1 .. Len(m)
<1> DEFINE S == SUBSET Snapshots
           n == Append(m, C)
<1>1. m \in Seq(S) /\ C \in S
  OBVIOUS
<1> HIDE DEF S, n
<1>2. /\ n \in Seq(S) /\ Len(n) = Len(m) + 1
      /\ \A i \in 1 .. Len(m) : n[i] = m[i]
      /\ n[Len(m) + 1] = C
  BY <1>1, AppendProperties DEF n
<1>3. /\ Len(m) \in Nat /\ DOMAIN m = 1 .. Len(m) /\ DOMAIN n = 1 .. Len(n)
  BY <1>1, <1>2, LenProperties
<1>4. \A i \in 1 .. Len(m) : m[i] \in S
  BY <1>1, ElementOfSeq
<1>5. n # <<>>
  BY <1>2, <1>3, EmptySeq
<1>6. m # <<>> => Len(m) \in 1 .. Len(m)
  BY <1>1, <1>3, EmptySeq
<1> QED BY <1>2, <1>3, <1>4, <1>5, <1>6 DEF S, n

\* What holds of all the pages held of those before the last, and the last agrees
\* with the one before it.
LEMMA OfAllPages ==
  ASSUME made \in Seq(SUBSET Snapshots), NEW C \in SUBSET Snapshots,
         made' = Append(made, C), NEW v
  PROVE  /\ AlwaysAlone(v)' => AlwaysAlone(v) /\ Alone(C, v)
         /\ NeverRises(v)' => /\ NeverRises(v)
                              /\ made # <<>> => Rank(LastMade, v) <= Rank(C, v)
         /\ NeverSinks(v)' => /\ NeverSinks(v)
                              /\ made # <<>> => Rank(C, v) <= Rank(LastMade, v)
<1>1. /\ Len(made) \in Nat /\ DOMAIN made = 1 .. Len(made)
      /\ DOMAIN made' = 1 .. Len(made) + 1
      /\ \A i \in 1 .. Len(made) : made'[i] = made[i]
      /\ made'[Len(made) + 1] = C
      /\ made # <<>> => Len(made) \in 1 .. Len(made)
  BY OneMore
<1>2. \A i \in DOMAIN made : i \in DOMAIN made' /\ made'[i] = made[i]
  BY <1>1
<1>3. Len(made) + 1 \in DOMAIN made'
  BY <1>1
<1>4. AlwaysAlone(v)' => AlwaysAlone(v) /\ Alone(C, v)
  <2> SUFFICES ASSUME \A i \in DOMAIN made' : Alone(made'[i], v)
               PROVE  AlwaysAlone(v) /\ Alone(C, v)
    BY DEF AlwaysAlone, Alone, Videos, Views
  <2> QED BY <1>1, <1>2, <1>3 DEF AlwaysAlone
<1>5. NeverRises(v)' => /\ NeverRises(v)
                        /\ made # <<>> => Rank(LastMade, v) <= Rank(C, v)
  <2> SUFFICES ASSUME \A i, j \in DOMAIN made' :
                        j = i + 1 => Rank(made'[i], v) <= Rank(made'[j], v)
               PROVE  /\ NeverRises(v)
                      /\ made # <<>> => Rank(LastMade, v) <= Rank(C, v)
    BY DEF NeverRises, Rank, Above, Videos, Views
  <2>1. NeverRises(v)
    BY <1>2 DEF NeverRises
  <2>2. made # <<>> => Rank(LastMade, v) <= Rank(C, v)
    BY <1>1, <1>2, <1>3 DEF LastMade
  <2> QED BY <2>1, <2>2
<1>6. NeverSinks(v)' => /\ NeverSinks(v)
                        /\ made # <<>> => Rank(C, v) <= Rank(LastMade, v)
  <2> SUFFICES ASSUME \A i, j \in DOMAIN made' :
                        j = i + 1 => Rank(made'[j], v) <= Rank(made'[i], v)
               PROVE  /\ NeverSinks(v)
                      /\ made # <<>> => Rank(C, v) <= Rank(LastMade, v)
    BY DEF NeverSinks, Rank, Above, Videos, Views
  <2>1. NeverSinks(v)
    BY <1>2 DEF NeverSinks
  <2>2. made # <<>> => Rank(C, v) <= Rank(LastMade, v)
    BY <1>1, <1>2, <1>3 DEF LastMade
  <2> QED BY <2>1, <2>2
<1> QED BY <1>4, <1>5, <1>6

\* A client that reads a page.
LEMMA ReadKeeps ==
  ASSUME Inv, Read
  PROVE  Inv'
<1>1. PICK C \in recent :
        \E page \in GetVideos(C, AnyRegion, AnyCategory, Limit, offset) :
          /\ seen' = seen \o [i \in DOMAIN page |-> page[i].video]
          /\ done' = (page = <<>>)
          /\ made' = Append(made, C)
  BY DEF Read
<1>2. PICK page \in GetVideos(C, AnyRegion, AnyCategory, Limit, offset) :
        /\ seen' = seen \o [i \in DOMAIN page |-> page[i].video]
        /\ done' = (page = <<>>)
        /\ made' = Append(made, C)
  BY <1>1
<1>3. ~ done /\ offset' = offset + Limit /\ table' = table /\ recent' = recent
  BY DEF Read
<1>4. /\ C \in SUBSET Snapshots /\ made \in Seq(SUBSET Snapshots)
      /\ offset \in Nat /\ Limit \in Nat \ {0}
      /\ seen \in Seq(Videos(Snapshots)) /\ Len(seen) <= offset
      /\ made = <<>> => offset = 0 /\ seen = <<>>
  BY PagesAssumption DEF Inv, TypeOK
<1> DEFINE read == [i \in DOMAIN page |-> page[i].video]
<1>5. /\ page \in Seq(C) /\ Len(page) <= Limit
      /\ \A k \in 1 .. Len(page) :
           Alone(C, page[k].video) => Rank(C, page[k].video) = offset + k - 1
      /\ \A v : Alone(C, v) /\ offset <= Rank(C, v) =>
           \/ offset + Limit <= Rank(C, v)
           \/ \E k \in 1 .. Len(page) : page[k].video = v
      /\ page = <<>> => \A v : Alone(C, v) => Rank(C, v) < offset
  BY <1>4, PageByRank
<1>6. \A v : Rank(C, v) \in Nat
  BY <1>4, Finite
<1>7. /\ Len(page) \in Nat /\ DOMAIN page = 1 .. Len(page)
      /\ \A i \in 1 .. Len(page) : page[i] \in C
  BY <1>5, LenProperties, ElementOfSeq
<1>8. \A i \in 1 .. Len(page) : read[i] = page[i].video /\ read[i] \in Videos(Snapshots)
  BY <1>4, <1>7 DEF Videos
<1>9. read \in Seq(Videos(Snapshots)) /\ Len(read) = Len(page)
  <2>1. read \in [1 .. Len(page) -> Videos(Snapshots)]
    BY <1>7, <1>8
  <2> HIDE DEF read
  <2>2. read \in Seq(Videos(Snapshots))
    BY <1>7, <2>1, SeqDef
  <2> QED BY <1>7, <2>1, <2>2, LenProperties
<1>10. seen' = seen \o read
  BY <1>2
<1> HIDE DEF read
<1>11. Len(seen) \in Nat /\ DOMAIN seen = 1 .. Len(seen)
  BY <1>4, LenProperties
<1>12. /\ seen' \in Seq(Videos(Snapshots))
       /\ Len(seen') = Len(seen) + Len(page)
       /\ \A i \in 1 .. Len(seen) + Len(page) :
            seen'[i] = IF i <= Len(seen) THEN seen[i] ELSE read[i - Len(seen)]
  <2> DEFINE S   == Videos(Snapshots)
             all == seen \o read
  <2>1. seen \in Seq(S) /\ read \in Seq(S) /\ Len(read) = Len(page)
    BY <1>4, <1>9
  <2> HIDE DEF S
  <2>2. /\ all \in Seq(S) /\ Len(all) = Len(seen) + Len(read)
        /\ \A i \in 1 .. Len(seen) + Len(read) :
              all[i] = IF i <= Len(seen) THEN seen[i] ELSE read[i - Len(seen)]
    BY ONLY <2>1, ConcatProperties
  <2> HIDE DEF all
  <2>3. seen' = all
    BY <1>10 DEF all
  <2> QED BY <2>1, <2>2, <2>3 DEF S
<1>13. DOMAIN seen' = 1 .. Len(seen) + Len(page)
  BY <1>12, LenProperties
<1>14. \A i \in DOMAIN seen : i \in DOMAIN seen' /\ seen'[i] = seen[i]
  BY <1>7, <1>11, <1>12, <1>13
<1>15. ASSUME NEW i \in DOMAIN seen', i \notin DOMAIN seen
       PROVE  /\ i - Len(seen) \in 1 .. Len(page) /\ i \in Int
              /\ seen'[i] = page[i - Len(seen)].video
  <2>1. i \in 1 .. Len(seen) + Len(page) /\ ~ (i <= Len(seen))
    BY <1>11, <1>13, <1>15
  <2>2. i - Len(seen) \in 1 .. Len(page)
    BY <1>7, <1>11, <2>1
  <2> QED BY <1>8, <1>12, <2>1, <2>2
<1>16. \A k \in 1 .. Len(page) : page[k].video \in Range(seen')
  <2>1. ASSUME NEW k \in 1 .. Len(page) PROVE page[k].video \in Range(seen')
    <3>1. /\ Len(seen) + k \in 1 .. Len(seen) + Len(page)
          /\ ~ (Len(seen) + k <= Len(seen)) /\ Len(seen) + k - Len(seen) = k
      BY <1>7, <1>11
    <3>2. seen'[Len(seen) + k] = page[k].video
      BY <1>8, <1>12, <3>1
    <3> QED BY <1>13, <3>1, <3>2 DEF Range
  <2> QED BY <2>1
<1>17. made' = Append(made, C) /\ made' \in Seq(SUBSET Snapshots) /\ made' # <<>>
  BY <1>2, <1>4, OneMore
<1>18. LastMade' = C
  BY <1>2, <1>4, OneMore DEF LastMade
<1>19. TypeOK'
  <2>1. offset' \in Nat /\ Len(seen') <= offset'
    <3>1. /\ Len(seen) \in Nat /\ Len(page) \in Nat /\ offset \in Nat /\ Limit \in Nat
          /\ Len(seen) <= offset /\ Len(page) <= Limit
      BY <1>4, <1>5, <1>7, <1>11
    <3>2. Len(seen) + Len(page) <= offset + Limit /\ offset + Limit \in Nat
      BY <3>1
    <3> QED BY <1>3, <1>12, <3>2
  <2>2. done' \in BOOLEAN
    BY <1>2
  <2>3. Videos(Snapshots)' = Videos(Snapshots)
    BY DEF Videos
  <2>4. table' \subseteq Snapshots /\ table' \in recent' /\ recent' \subseteq SUBSET Snapshots
    BY <1>3 DEF Inv, TypeOK
  <2> QED BY <1>12, <1>17, <2>1, <2>2, <2>3, <2>4 DEF TypeOK
\* A video that is not read was not on a page before; if it is not on this one
\* either, it is of a higher rank.
<1>20. AheadOrSeen'
  <2>1. ASSUME NEW v \in Videos(Snapshots), AlwaysAlone(v)', NeverRises(v)'
        PROVE  v \in Range(seen') \/ (~ done' /\ offset' <= Rank(C, v))
    <3>1. /\ AlwaysAlone(v) /\ Alone(C, v) /\ NeverRises(v)
          /\ made # <<>> => Rank(LastMade, v) <= Rank(C, v)
      BY <1>4, <1>17, <2>1, OfAllPages
    <3>2. CASE v \in Range(seen)
      BY <1>14, <3>2 DEF Range
    <3>3. CASE v \notin Range(seen)
      <4>1. made # <<>> => offset <= Rank(LastMade, v) /\ Rank(LastMade, v) \in Nat
        <5>1. made # <<>> => offset <= Rank(LastMade, v)
          BY <3>1, <3>3 DEF Inv, AheadOrSeen
        <5>2. made # <<>> => LastMade \in SUBSET Snapshots
          BY <1>4, OneMore DEF LastMade
        <5> QED BY <5>1, <5>2, Finite
      <4>2. offset <= Rank(C, v)
        BY <1>4, <1>6, <3>1, <4>1
      <4>3. ~ done'
        <5>1. ~ (Rank(C, v) < offset)
          BY <1>4, <1>6, <4>2
        <5>2. page # <<>>
          BY <1>5, <3>1, <5>1
        <5> QED BY <1>2, <5>2
      <4> QED BY <1>3, <1>5, <1>16, <3>1, <4>2, <4>3
    <3> QED BY <3>2, <3>3
  <2>2. \A v : Rank(LastMade, v)' = Rank(C, v)
    BY <1>18
  <2>3. Videos(Snapshots)' = Videos(Snapshots)
    BY DEF Videos
  <2> QED BY <2>1, <2>2, <2>3 DEF AheadOrSeen
\* What was read is behind this page, or on it: it cannot be read again.
<1>21. ASSUME NEW v \in Videos(Snapshots), AlwaysAlone(v)', NeverSinks(v)'
       PROVE  /\ v \in Range(seen') => Rank(C, v) < offset'
              /\ \A i, j \in DOMAIN seen' : seen'[i] = v /\ seen'[j] = v => i = j
  <2>1. /\ AlwaysAlone(v) /\ Alone(C, v) /\ NeverSinks(v)
        /\ made # <<>> => Rank(C, v) <= Rank(LastMade, v)
    BY <1>4, <1>17, <1>21, OfAllPages
  <2>2. v \in Range(seen) => Rank(C, v) < offset
    <3>1. made # <<>> => Rank(LastMade, v) \in Nat
      <4>1. made # <<>> => LastMade \in SUBSET Snapshots
        BY <1>4, OneMore DEF LastMade
      <4> QED BY <4>1, Finite
    <3>2. v \in Range(seen) => made # <<>> /\ Rank(LastMade, v) < offset
      BY <2>1 DEF Inv, SeenIsBehind
    <3> QED BY <1>4, <1>6, <2>1, <3>1, <3>2
  <2>3. ASSUME NEW i \in DOMAIN seen', i \notin DOMAIN seen, seen'[i] = v
        PROVE  /\ i - Len(seen) \in 1 .. Len(page) /\ i \in Int
               /\ Rank(C, v) = offset + (i - Len(seen)) - 1
    <3>1. /\ i - Len(seen) \in 1 .. Len(page) /\ i \in Int
          /\ page[i - Len(seen)].video = v
      BY <1>15, <2>3
    <3> QED BY <1>5, <2>1, <3>1
  <2>4. v \in Range(seen') => Rank(C, v) < offset'
    <3>1. ASSUME NEW i \in DOMAIN seen', seen'[i] = v PROVE Rank(C, v) < offset'
      <4>1. CASE i \in DOMAIN seen
        <5>1. v \in Range(seen)
          BY <1>14, <3>1, <4>1 DEF Range
        <5> QED BY <1>3, <1>4, <1>6, <2>2, <5>1
      <4>2. CASE i \notin DOMAIN seen
        BY <1>3, <1>4, <1>5, <1>7, <1>11, <2>3, <3>1, <4>2
      <4> QED BY <4>1, <4>2
    <3> QED BY <3>1 DEF Range
  <2>5. ASSUME NEW i \in DOMAIN seen', NEW j \in DOMAIN seen', seen'[i] = v, seen'[j] = v
        PROVE  i = j
    <3>1. CASE i \in DOMAIN seen /\ j \in DOMAIN seen
      BY <1>14, <2>1, <2>5, <3>1 DEF Inv, TwiceOnlyIfItSank
    <3>2. CASE i \notin DOMAIN seen /\ j \notin DOMAIN seen
      <4>1. i \in Int /\ Rank(C, v) = offset + (i - Len(seen)) - 1
        BY <2>3, <2>5, <3>2
      <4>2. j \in Int /\ Rank(C, v) = offset + (j - Len(seen)) - 1
        BY <2>3, <2>5, <3>2
      <4> QED BY <1>4, <1>11, <4>1, <4>2
    <3>3. ASSUME NEW k \in DOMAIN seen', NEW l \in DOMAIN seen', seen'[k] = v,
                 seen'[l] = v, k \in DOMAIN seen, l \notin DOMAIN seen
          PROVE  FALSE
      <4>1. v \in Range(seen)
        BY <1>14, <3>3 DEF Range
      <4>2. Rank(C, v) < offset /\ Rank(C, v) \in Nat
        BY <1>6, <2>2, <4>1
      <4>3. /\ l - Len(seen) \in 1 .. Len(page) /\ l \in Int
            /\ Rank(C, v) = offset + (l - Len(seen)) - 1
        BY <2>3, <3>3
      <4> QED BY <1>4, <1>11, <4>2, <4>3
    <3> QED BY <2>5, <3>1, <3>2, <3>3
  <2> QED BY <2>4, <2>5
<1>22. SeenIsBehind' /\ TwiceOnlyIfItSank'
  <2>1. \A v : Rank(LastMade, v)' = Rank(C, v)
    BY <1>18
  <2>2. Videos(Snapshots)' = Videos(Snapshots)
    BY DEF Videos
  <2> QED BY <1>17, <1>21, <2>1, <2>2 DEF SeenIsBehind, TwiceOnlyIfItSank
<1> QED BY <1>17, <1>19, <1>20, <1>22 DEF Inv

\* Nothing the client knows changes when a row is saved or an entry expires.
LEMMA OthersKeep ==
  ASSUME Inv, UNCHANGED <<offset, done, seen, made>>,
         table' \in recent', recent' \subseteq SUBSET Snapshots
  PROVE  Inv'
<1>1. TypeOK'
  BY DEF Inv, TypeOK, Videos
<1>2. /\ \A v : AlwaysAlone(v)' = AlwaysAlone(v)
      /\ \A v : NeverRises(v)' = NeverRises(v) /\ NeverSinks(v)' = NeverSinks(v)
  BY DEF AlwaysAlone, NeverRises, NeverSinks
<1>3. LastMade' = LastMade /\ Videos(Snapshots)' = Videos(Snapshots)
  BY DEF LastMade, Videos
<1>4. AheadOrSeen' /\ SeenIsBehind' /\ TwiceOnlyIfItSank'
  BY <1>2, <1>3 DEF Inv, AheadOrSeen, SeenIsBehind, TwiceOnlyIfItSank
<1> QED BY <1>1, <1>4 DEF Inv

\* The types of a client that has read nothing.
LEMMA NothingRead ==
  /\ <<>> \in Seq(Videos(Snapshots)) /\ <<>> \in Seq(SUBSET Snapshots)
  /\ Len(<<>>) <= 0
<1>1. \A S : <<>> \in Seq(S) /\ Len(<<>>) = 0
  BY EmptySeq
<1> QED BY <1>1

\* Before the first page nothing is read.
LEMMA StartKeeps ==
  ASSUME TypeOK, offset = 0, done = FALSE, seen = <<>>, made = <<>>
  PROVE  Inv
<1>1. DOMAIN seen = {} /\ Range(seen) = {}
  BY EmptySeq DEF Range
<1> QED BY <1>1 DEF Inv, AheadOrSeen, SeenIsBehind, TwiceOnlyIfItSank

\* Inv is an inductive invariant of the client, the workers and the cache
\* (db/db.go:139, analytics/server.go:39-54).
THEOREM Invariance == Spec => []Inv
<1>1. Init => Inv
  <2> SUFFICES ASSUME Init PROVE Inv
    OBVIOUS
  <2>1. TypeOK
    <3>1. table \subseteq Snapshots /\ table \in recent /\ recent \subseteq SUBSET Snapshots
      BY DEF Init
    <3>2. offset = 0 /\ done = FALSE /\ seen = <<>> /\ made = <<>>
      BY DEF Init
    <3> QED BY <3>1, <3>2, NothingRead DEF TypeOK
  <2> QED BY <2>1, StartKeeps DEF Init
<1>2. Inv /\ [Next]_vars => Inv'
  <2> SUFFICES ASSUME Inv, [Next]_vars PROVE Inv'
    OBVIOUS
  <2>1. CASE Read
    BY <2>1, ReadKeeps
  <2>2. CASE Start
    <3>1. /\ UNCHANGED <<table, recent>>
          /\ offset' = 0 /\ done' = FALSE /\ seen' = <<>> /\ made' = <<>>
      BY <2>2 DEF Start
    <3>2. TypeOK'
      <4>1. /\ table' \subseteq Snapshots /\ table' \in recent'
            /\ recent' \subseteq SUBSET Snapshots
        BY <3>1 DEF Inv, TypeOK
      <4>2. Videos(Snapshots)' = Videos(Snapshots)
        BY DEF Videos
      <4> QED BY <3>1, <4>1, <4>2, NothingRead DEF TypeOK
    <3>3. \A i \in DOMAIN <<>> : FALSE
      BY EmptySeq
    <3>4. AheadOrSeen' /\ SeenIsBehind' /\ TwiceOnlyIfItSank'
      BY <3>1, <3>3 DEF AheadOrSeen, SeenIsBehind, TwiceOnlyIfItSank, Range
    <3> QED BY <3>1, <3>2, <3>4 DEF Inv
  <2>3. ASSUME NEW row \in Snapshots, Save(row) PROVE Inv'
    <3>1. /\ table' = table \cup {row} /\ recent' = recent \cup {table'}
          /\ UNCHANGED <<offset, done, seen, made>>
      BY <2>3 DEF Save
    <3>2. table' \in recent' /\ recent' \subseteq SUBSET Snapshots
      BY <3>1 DEF Inv, TypeOK
    <3> QED BY <3>1, <3>2, OthersKeep
  <2>4. CASE Expire
    <3>1. /\ table' = table /\ recent' \subseteq recent /\ table \in recent'
          /\ UNCHANGED <<offset, done, seen, made>>
      BY <2>4 DEF Expire, Inv, TypeOK
    <3>2. table' \in recent' /\ recent' \subseteq SUBSET Snapshots
      BY <3>1 DEF Inv, TypeOK
    <3> QED BY <3>1, <3>2, OthersKeep
  <2>5. CASE UNCHANGED vars
    <3>1. table' \in recent' /\ recent' \subseteq SUBSET Snapshots
      BY <2>5 DEF vars, Inv, TypeOK
    <3> QED BY <2>5, <3>1, OthersKeep DEF vars
  <2> QED BY <2>1, <2>2, <2>3, <2>4, <2>5 DEF Next
<1> QED BY <1>1, <1>2, PTL DEF Spec

-----------------------------------------------------------------------------
(* What the client has read at the end.                                    *)

\* A client that turns the pages to the end, of contents of the table that may
\* each be an hour old, misses a video only if it moved up between two pages or
\* shares its place, and reads one twice only if it moved down or shares its
\* place (db/db.go:152-154, analytics/server.go:39-54).
THEOREM ThePagesCover == Spec => []PagesCover
<1>1. Inv => PagesCover
  BY DEF Inv, AheadOrSeen, PagesCover, MissedOnlyIfItRose
<1> QED BY <1>1, Invariance, PTL

=============================================================================
