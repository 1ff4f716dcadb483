-------------------------- MODULE VideosTableProofs --------------------------
(***************************************************************************)
(* Proofs about VideosTable, for all regions, categories and searches,     *)
(* all finite tables of videos, every size of a page and every number of  *)
(* fetches in flight.                                                      *)
(*                                                                         *)
(* The fetch that was sent last is the one for the two selectors.  Until   *)
(* it ends it is the last of those in flight; when it has ended, all that  *)
(* are left are overtaken, so that the last answer of all is stale unless  *)
(* it is that fetch's.                                                     *)
(*                                                                         *)
(* The page is the first or has a match: whatever changes the matches goes *)
(* back to the first page.  That the pages are all of the matches holds    *)
(* of any list, of any length.                                             *)
(***************************************************************************)
EXTENDS VideosTable, TLAPS, SequenceTheorems, FiniteSetTheorems,
        WellFoundedInduction

Fetch == [filter : Filters, late : BOOLEAN]

-----------------------------------------------------------------------------
(* The inductive invariant.                                                *)

TableTypeOK ==
  /\ selected \in Filters
  /\ inFlight \in Seq(Fetch)
  /\ loading \in BOOLEAN /\ error \in BOOLEAN

\* The spinner turns only while a fetch is in flight.
SpinsForAFetch == loading => inFlight # <<>>

\* Only fetches that were sent before an overtaken one are overtaken, ...
LateComeFirst ==
  \A j, k \in 1 .. Len(inFlight) : j < k /\ inFlight[k].late => inFlight[j].late

\* ... and the last, if it is not, is for the selectors.
LastIsSelected ==
  inFlight # <<>> /\ ~ inFlight[Len(inFlight)].late =>
    inFlight[Len(inFlight)].filter = selected

NoneLeft ==
  inFlight = <<>> => stale \/ error \/ list.filter = selected

Inv ==
  /\ TableTypeOK /\ SpinsForAFetch
  /\ LateComeFirst /\ LastIsSelected /\ NoneLeft

\* The rows of the table as the browser has them.
Videos == { VideoJson(row) : row \in UNION Contents }

\* The list's videos are rows of the table, and the page is the first or has
\* a match.
PageTurned ==
  /\ list.videos \in Seq(Videos)
  /\ view \in [search : Searches, key : Columns, dir : {"desc", "asc"}, page : Nat]
  /\ view.page = 0 \/ view.page < TotalPages

\* Every video that matches is on a page, in every order the sort may give.
EachMatchHasAPage ==
  \A sorted \in Sortings(Matches), i \in Matching :
    \E p \in 0 .. TotalPages - 1 :
      \E k \in DOMAIN Slice(sorted, p) : Slice(sorted, p)[k] = list.videos[i]

-----------------------------------------------------------------------------
(* The operators.                                                          *)

\* What RemoveAt leaves, place by place.
LEMMA Removed ==
  ASSUME NEW S, NEW s \in Seq(S), NEW i \in 1 .. Len(s)
  PROVE  /\ RemoveAt(s, i) \in Seq(S)
         /\ Len(RemoveAt(s, i)) = Len(s) - 1
         /\ \A k \in 1 .. Len(s) - 1 :
              RemoveAt(s, i)[k] = IF k < i THEN s[k] ELSE s[k + 1]
<1> DEFINE n == Len(s)
           a == SubSeq(s, 1, i - 1)
           b == SubSeq(s, i + 1, n)
<1>1. n \in Nat /\ i \in 1 .. n
  BY LenProperties
<1>2. \A j \in 1 .. n : s[j] \in S
  BY ElementOfSeq
<1>3. RemoveAt(s, i) = a \o b
  BY DEF RemoveAt
<1> HIDE DEF n
<1>4. /\ a \in Seq(S) /\ Len(a) = i - 1
      /\ \A k \in 1 .. i - 1 : a[k] = s[k]
  <2>1. i - 1 \in Int /\ 1 \in Int /\ \A j \in 1 .. i - 1 : s[j] \in S
    BY <1>1, <1>2
  <2>2. /\ a \in Seq(S) /\ Len(a) = IF 1 <= i - 1 THEN i - 1 - 1 + 1 ELSE 0
        /\ \A k \in 1 .. i - 1 - 1 + 1 : a[k] = s[1 + k - 1]
    BY <2>1, SubSeqProperties
  <2> QED BY <1>1, <2>2
<1>5. /\ b \in Seq(S) /\ Len(b) = n - i
      /\ \A k \in 1 .. n - i : b[k] = s[k + i]
  <2>1. i + 1 \in Int /\ n \in Int /\ \A j \in i + 1 .. n : s[j] \in S
    BY <1>1, <1>2
  <2>2. /\ b \in Seq(S) /\ Len(b) = IF i + 1 <= n THEN n - (i + 1) + 1 ELSE 0
        /\ \A k \in 1 .. n - (i + 1) + 1 : b[k] = s[i + 1 + k - 1]
    BY <2>1, SubSeqProperties
  <2>3. n - (i + 1) + 1 = n - i /\ (i + 1 <= n \/ n - i = 0)
    BY <1>1
  <2>4. ASSUME NEW k \in 1 .. n - i PROVE b[k] = s[k + i]
    <3>1. i + 1 + k - 1 = k + i /\ k \in 1 .. n - (i + 1) + 1
      BY <1>1
    <3> HIDE DEF b
    <3> QED BY <2>2, <3>1
  <2>5. Len(b) = n - i
    BY <2>2, <2>3
  <2> QED BY <2>2, <2>4, <2>5
<1> HIDE DEF a, b
<1>6. /\ a \o b \in Seq(S) /\ Len(a \o b) = Len(a) + Len(b)
      /\ \A k \in 1 .. Len(a) + Len(b) :
           (a \o b)[k] = IF k <= Len(a) THEN a[k] ELSE b[k - Len(a)]
  BY <1>4, <1>5, ConcatProperties
<1>7. Len(a) + Len(b) = n - 1
  BY <1>1, <1>4, <1>5
<1>8. ASSUME NEW k \in 1 .. n - 1
      PROVE  (a \o b)[k] = IF k < i THEN s[k] ELSE s[k + 1]
  <2>1. CASE k < i
    <3>1. k \in 1 .. i - 1 /\ k <= Len(a)
      BY <1>1, <1>4, <2>1
    <3> QED BY <1>4, <1>6, <1>7, <2>1, <3>1
  <2>2. CASE ~ (k < i)
    <3>1. k - (i - 1) \in 1 .. n - i /\ k - (i - 1) + i = k + 1 /\ ~ (k <= i - 1)
      BY <1>1, <2>2
    <3>2. b[k - (i - 1)] = s[k - (i - 1) + i]
      BY <1>5, <3>1
    <3>3. (a \o b)[k] = b[k - (i - 1)]
      BY <1>4, <1>6, <1>7, <3>1
    <3> QED BY <2>2, <3>1, <3>2, <3>3
  <2> QED BY <2>1, <2>2
<1> QED BY <1>3, <1>6, <1>7, <1>8 DEF n

\* The fetches that are left when the i-th ends: the last is still the last,
\* or overtaken.
LEMMA OvertakenFetches ==
  ASSUME inFlight \in Seq(Fetch), NEW i \in 1 .. Len(inFlight)
  PROVE  /\ Overtaken(i) \in Seq(Fetch)
         /\ Len(Overtaken(i)) = Len(inFlight) - 1
         /\ \A k \in 1 .. Len(inFlight) - 1 :
              LET old == inFlight[IF k < i THEN k ELSE k + 1] IN
              /\ Overtaken(i)[k].filter = old.filter
              /\ Overtaken(i)[k].late = (old.late \/ k < i)
<1> DEFINE n == Len(inFlight)
           e(j) == [inFlight[j] EXCEPT !.late = @ \/ j < i]
           marked == [j \in 1 .. n |-> e(j)]
<1>1. /\ n \in Nat /\ DOMAIN inFlight = 1 .. n /\ i \in 1 .. n
      /\ \A j \in 1 .. n : inFlight[j] \in Fetch
  BY LenProperties, ElementOfSeq
<1>2. \A j \in 1 .. n : /\ e(j) \in Fetch /\ e(j).filter = inFlight[j].filter
                        /\ e(j).late = (inFlight[j].late \/ j < i)
  BY <1>1 DEF Fetch
<1>3. Overtaken(i) = RemoveAt(marked, i)
  BY <1>1 DEF Overtaken
<1> HIDE DEF n, e
<1>4. marked \in Seq(Fetch) /\ \A j \in 1 .. n : marked[j] = e(j)
  BY <1>1, <1>2, IsASeq
<1>5. Len(marked) = n
  BY <1>1, <1>4, LenProperties
<1> HIDE DEF marked
<1>6. /\ RemoveAt(marked, i) \in Seq(Fetch)
      /\ Len(RemoveAt(marked, i)) = n - 1
      /\ \A k \in 1 .. n - 1 :
           RemoveAt(marked, i)[k] = IF k < i THEN marked[k] ELSE marked[k + 1]
  BY <1>1, <1>4, <1>5, Removed
<1>7. ASSUME NEW k \in 1 .. n - 1
      PROVE  LET old == inFlight[IF k < i THEN k ELSE k + 1] IN
             /\ RemoveAt(marked, i)[k].filter = old.filter
             /\ RemoveAt(marked, i)[k].late = (old.late \/ k < i)
  <2>1. k \in 1 .. n /\ k + 1 \in 1 .. n /\ (k + 1 < i => k < i)
    BY <1>1
  <2>2. CASE k < i
    <3>1. RemoveAt(marked, i)[k] = e(k)
      BY <1>4, <1>6, <2>1, <2>2
    <3> QED BY <1>2, <2>1, <2>2, <3>1
  <2>3. CASE ~ (k < i)
    <3>1. RemoveAt(marked, i)[k] = e(k + 1)
      BY <1>4, <1>6, <2>1, <2>3
    <3> QED BY <1>2, <2>1, <2>3, <3>1
  <2> QED BY <2>2, <2>3
<1> QED BY <1>3, <1>6, <1>7 DEF n

-----------------------------------------------------------------------------
(* The steps.                                                              *)

\* A fetch for the selectors is sent.
LEMMA SendKeepsInv ==
  ASSUME Inv, selected' \in Filters, Send(selected'), UNCHANGED <<list, stale>>
  PROVE  Inv'
<1> DEFINE new == [filter |-> selected', late |-> FALSE]
           n == Len(inFlight)
<1>1. /\ new \in Fetch /\ new.filter = selected' /\ new.late = FALSE
      /\ inFlight' = Append(inFlight, new)
      /\ loading' \in BOOLEAN /\ error' \in BOOLEAN
  BY DEF Send, Fetch
<1>2. inFlight \in Seq(Fetch)
  BY DEF Inv, TableTypeOK
<1> HIDE DEF new
<1>3. n \in Nat
  BY <1>2, LenProperties
<1>4. /\ inFlight' \in Seq(Fetch) /\ inFlight' # <<>> /\ Len(inFlight') = n + 1
      /\ \A j \in 1 .. n : inFlight'[j] = inFlight[j]
      /\ inFlight'[n + 1] = new
  BY <1>1, <1>2, AppendProperties
<1> HIDE DEF n
<1>5. LateComeFirst'
  <2>1. ASSUME NEW j \in 1 .. n + 1, NEW k \in 1 .. n + 1, j < k, inFlight'[k].late
        PROVE  inFlight'[j].late
    <3>1. k # n + 1
      BY <1>1, <1>4, <2>1
    <3>2. j \in 1 .. n /\ k \in 1 .. n
      BY <1>3, <2>1, <3>1
    <3> QED BY <1>4, <2>1, <3>2 DEF Inv, LateComeFirst, n
  <2> QED BY <1>4, <2>1 DEF LateComeFirst
<1>6. LastIsSelected'
  BY <1>1, <1>4 DEF LastIsSelected
<1> QED BY <1>1, <1>4, <1>5, <1>6
        DEF Inv, TableTypeOK, SpinsForAFetch, NoneLeft

\* A selection that is one starts a fetch.
LEMMA SelectKeepsInv ==
  ASSUME Inv, NEW filter \in Filters, Select(filter)
  PROVE  Inv'
<1>1. selected' = filter /\ Send(selected') /\ UNCHANGED <<list, stale>>
  BY DEF Select, Refetches
<1> QED BY <1>1, SendKeepsInv

\* A fetch ends: with its filter's videos, or with an error.
LEMMA FetchKeepsInv ==
  ASSUME Inv, NEW i \in 1 .. Len(inFlight),
         inFlight' = Overtaken(i), loading' = FALSE, error' \in BOOLEAN,
         stale' = inFlight[i].late, UNCHANGED selected,
         error' \/ list'.filter = inFlight[i].filter
  PROVE  Inv'
<1> DEFINE n == Len(inFlight)
<1>1. inFlight \in Seq(Fetch) /\ selected' \in Filters
  BY DEF Inv, TableTypeOK
<1>2. n \in Nat /\ i \in 1 .. n /\ \A j \in 1 .. n : inFlight[j] \in Fetch
  BY <1>1, LenProperties, ElementOfSeq
<1>3. /\ inFlight' \in Seq(Fetch) /\ Len(inFlight') = n - 1
      /\ \A k \in 1 .. n - 1 :
           LET old == inFlight[IF k < i THEN k ELSE k + 1] IN
           /\ inFlight'[k].filter = old.filter
           /\ inFlight'[k].late = (old.late \/ k < i)
  BY <1>1, <1>2, OvertakenFetches
<1>4. /\ \A j, k \in 1 .. n : j < k /\ inFlight[k].late => inFlight[j].late
      /\ n # 0 /\ ~ inFlight[n].late => inFlight[n].filter = selected
  <2>1. n # 0 => inFlight # <<>>
    BY EmptySeq
  <2> QED BY <2>1 DEF Inv, LateComeFirst, LastIsSelected
<1>5. inFlight' = <<>> => n = 1
  BY <1>2, <1>3, EmptySeq
<1> HIDE DEF n
<1>6. ASSUME NEW j \in 1 .. n - 1, NEW k \in 1 .. n - 1, j < k, inFlight'[k].late
      PROVE  inFlight'[j].late
  <2>1. CASE j < i
    BY <1>3, <2>1
  <2>2. CASE ~ (j < i)
    <3>1. ~ (k < i) /\ j + 1 \in 1 .. n /\ k + 1 \in 1 .. n /\ j + 1 < k + 1
      BY <1>2, <1>6, <2>2
    <3>2. inFlight'[k].late = (inFlight[k + 1].late \/ FALSE)
      BY <1>3, <3>1
    <3>3. inFlight[j + 1].late
      BY <1>4, <1>6, <3>1, <3>2
    <3> QED BY <1>3, <2>2, <3>3
  <2> QED BY <2>1, <2>2
<1>7. ASSUME n # 1, ~ inFlight'[n - 1].late
      PROVE  inFlight'[n - 1].filter = selected
  <2>1. n - 1 \in 1 .. n - 1 /\ n - 1 + 1 = n /\ n # 0
    BY <1>2, <1>7
  <2>2. ~ (n - 1 < i)
    BY <1>3, <1>7, <2>1
  <2>3. /\ inFlight'[n - 1].filter = inFlight[n].filter
        /\ inFlight'[n - 1].late = (inFlight[n].late \/ FALSE)
    BY <1>3, <2>1, <2>2
  <2> QED BY <1>4, <1>7, <2>1, <2>3
<1>8. ASSUME n = 1 PROVE stale' \/ error' \/ list'.filter = selected
  <2>1. i = n /\ n # 0
    BY <1>2, <1>8
  <2> QED BY <1>4, <2>1
<1>9. LateComeFirst' /\ NoneLeft'
  BY <1>3, <1>5, <1>6, <1>8 DEF LateComeFirst, NoneLeft
<1>10. LastIsSelected'
  <2>1. ASSUME inFlight' # <<>> PROVE n # 1
    BY <1>3, <2>1, EmptySeq
  <2> QED BY <1>3, <1>7, <2>1 DEF LastIsSelected
<1> QED BY <1>1, <1>3, <1>9, <1>10 DEF Inv, TableTypeOK, SpinsForAFetch

LEMMA FetchEndsKeepsInv ==
  ASSUME Inv, FetchEnds
  PROVE  Inv'
<1>1. DOMAIN inFlight = 1 .. Len(inFlight) /\ error \in BOOLEAN
  BY LenProperties DEF Inv, TableTypeOK
<1>2. PICK i \in 1 .. Len(inFlight) : Answered(i) \/ Failed(i)
  BY <1>1 DEF FetchEnds
<1>3. CASE Answered(i)
  <2>1. PICK data \in Answers[inFlight[i].filter] :
          list' = [videos |-> OrEmpty(data), filter |-> inFlight[i].filter]
    BY <1>3 DEF Answered
  <2>2. list'.filter = inFlight[i].filter
    BY <2>1
  <2>3. /\ inFlight' = Overtaken(i) /\ loading' = FALSE /\ error' \in BOOLEAN
        /\ stale' = inFlight[i].late /\ UNCHANGED selected
    BY <1>1, <1>3 DEF Answered
  <2> QED BY <2>2, <2>3, FetchKeepsInv
<1>4. CASE Failed(i)
  BY <1>4, FetchKeepsInv DEF Failed
<1> QED BY <1>2, <1>3, <1>4

\* The other controls change only what is shown of the videos.
LEMMA SeeKeepsInv ==
  ASSUME Inv, UNCHANGED <<selected, list, loading, error, inFlight, stale>>
  PROVE  Inv'
  BY DEF Inv, TableTypeOK, SpinsForAFetch, LateComeFirst, LastIsSelected, NoneLeft

LEMMA StepKeepsInv ==
  ASSUME Inv, [Next]_vars
  PROVE  Inv'
<1>1. selected \in Filters
  BY DEF Inv, TableTypeOK
<1>2. ASSUME NEW region \in Regions, SelectRegion(region) PROVE Inv'
  <2>1. [selected EXCEPT !.region = region] \in Filters
    BY <1>1 DEF Filters
  <2> QED BY <1>2, <2>1, SelectKeepsInv DEF SelectRegion
<1>3. ASSUME NEW category \in Categories, SelectCategory(category) PROVE Inv'
  <2>1. [selected EXCEPT !.category = category] \in Filters
    BY <1>1 DEF Filters
  <2> QED BY <1>3, <2>1, SelectKeepsInv DEF SelectCategory
<1>4. CASE Retry
  BY <1>1, <1>4, SendKeepsInv DEF Retry
<1>5. CASE FetchEnds
  BY <1>5, FetchEndsKeepsInv
<1>6. ASSUME NEW search \in Searches, handleSearch(search) PROVE Inv'
  BY <1>6, SeeKeepsInv DEF handleSearch, See
<1>7. ASSUME NEW key \in Columns, toggleSort(key) PROVE Inv'
  BY <1>7, SeeKeepsInv DEF toggleSort, See
<1>8. CASE PrevPage \/ NextPage
  BY <1>8, SeeKeepsInv DEF PrevPage, NextPage, See
<1>9. CASE UNCHANGED vars
  BY <1>9, SeeKeepsInv DEF vars
<1> QED BY <1>2, <1>3, <1>4, <1>5, <1>6, <1>7, <1>8, <1>9 DEF Next

\* The first fetch is for the first selection.
LEMMA InitInv == Init => Inv
<1>1. ASSUME Init PROVE Inv
  <2>1. /\ selected \in Filters /\ loading = TRUE /\ error = FALSE
        /\ inFlight = <<[filter |-> selected, late |-> FALSE]>>
    BY <1>1, TableAssumption DEF Init, Filters
  <2>2. [filter |-> selected, late |-> FALSE] \in Fetch
    BY <2>1 DEF Fetch
  <2>3. /\ inFlight \in Seq(Fetch) /\ Len(inFlight) = 1 /\ inFlight # <<>>
        /\ inFlight[1] = [filter |-> selected, late |-> FALSE]
    BY <2>1, <2>2
  <2>4. LateComeFirst
    BY <2>3 DEF LateComeFirst
  <2>5. LastIsSelected
    BY <2>3 DEF LastIsSelected
  <2> QED BY <2>1, <2>3, <2>4, <2>5 DEF Inv, TableTypeOK, SpinsForAFetch, NoneLeft
<1> QED BY <1>1

-----------------------------------------------------------------------------
(* Lists of a finite set, and lists of lists.                              *)

\* The smaller of two numbers.
LEMMA MinOfTwo ==
  ASSUME NEW a \in Int, NEW b \in Int
  PROVE  Min({a, b}) = IF a <= b THEN a ELSE b
<1> DEFINE m == IF a <= b THEN a ELSE b
<1>1. m \in {a, b} /\ \A y \in {a, b} : m <= y
  OBVIOUS
<1>2. \A x \in {a, b} : (\A y \in {a, b} : x <= y) => x = m
  OBVIOUS
<1> QED BY <1>1, <1>2 DEF Min

LEMMA MaxOfTwo ==
  ASSUME NEW a \in Int, NEW b \in Int
  PROVE  Max({a, b}) = IF a <= b THEN b ELSE a
<1> DEFINE m == IF a <= b THEN b ELSE a
<1>1. m \in {a, b} /\ \A y \in {a, b} : m >= y
  OBVIOUS
<1>2. \A x \in {a, b} : (\A y \in {a, b} : x >= y) => x = m
  OBVIOUS
<1> QED BY <1>1, <1>2 DEF Max

\* Numbers have a smallest.
LEMMA Smallest ==
  ASSUME NEW S \in SUBSET Nat, S # {}
  PROVE  \E x \in S : \A y \in S : x <= y
<1> DEFINE Less == OpToRel(<, Nat)
<1>1. PICK x \in S : \A y \in S : ~ (<<y, x>> \in Less)
  BY NatLessThanWellFounded, WFMin
<1>2. ASSUME NEW y \in S PROVE x <= y
  <2>1. Less = {ss \in Nat \X Nat : ss[1] < ss[2]}
    BY DEF OpToRel
  <2> HIDE DEF Less
  <2>2. <<y, x>> \in Nat \X Nat /\ <<y, x>>[1] = y /\ <<y, x>>[2] = x
    OBVIOUS
  <2>3. ~ (y < x)
    BY <1>1, <2>1, <2>2
  <2> QED BY <2>3
<1> QED BY <1>2

\* Lists of a finite set have each of its elements, and each once.
LEMMA ListsOfAll ==
  ASSUME NEW S, IsFiniteSet(S), NEW order \in SetToSeqs(S)
  PROVE  /\ order \in Seq(S) /\ DOMAIN order = 1 .. Len(order)
         /\ Len(order) \in Nat /\ Len(order) = Cardinality(S)
         /\ \A x \in S : \E i \in DOMAIN order : order[i] = x
<1> DEFINE c == Cardinality(S)
<1>1. c \in Nat
  BY FS_CardinalityType
<1>2. /\ order \in [1 .. c -> S]
      /\ \A i, j \in 1 .. c : i # j => order[i] # order[j]
  BY DEF SetToSeqs
<1> HIDE DEF c
<1>3. order \in Seq(S) /\ Len(order) = c
  BY <1>1, <1>2, SeqDef
<1>4. order \in Injection(1 .. c, S)
  BY <1>2 DEF Injection, IsInjective
<1>5. Cardinality(1 .. c) = c
  BY <1>1, FS_Interval
<1>6. order \in Surjection(1 .. c, S)
  BY <1>4, <1>5, FS_Injection DEF c
<1> QED BY <1>1, <1>2, <1>3, <1>6 DEF Surjection, c

\* Numbers can be listed in their order, and so InOrder lists them.
LEMMA OrderExists ==
  ASSUME NEW S \in SUBSET Nat, IsFiniteSet(S)
  PROVE  \E order \in SetToSeqs(S) :
           \A j, k \in DOMAIN order : j < k => order[j] < order[k]
<1> DEFINE c == Cardinality(S)
           upto(x) == { y \in S : y <= x }
           place == [x \in S |-> Cardinality(upto(x))]
<1>1. c \in Nat
  BY FS_CardinalityType
<1>2. ASSUME NEW x \in S PROVE IsFiniteSet(upto(x)) /\ place[x] \in 1 .. c
  <2>1. upto(x) \in SUBSET S
    OBVIOUS
  <2>2. IsFiniteSet(upto(x)) /\ Cardinality(upto(x)) <= c
    BY <2>1, FS_Subset
  <2>3. x \in upto(x)
    OBVIOUS
  <2>4. Cardinality(upto(x)) \in Nat /\ Cardinality(upto(x)) # 0
    BY <2>2, <2>3, FS_CardinalityType, FS_EmptySet
  <2> QED BY <1>1, <2>2, <2>4
<1>3. ASSUME NEW x \in S, NEW y \in S, x < y PROVE place[x] < place[y]
  <2>1. upto(x) \in SUBSET upto(y)
    <3>1. \A z \in Nat : z <= x => z <= y
      BY <1>3
    <3> QED BY <3>1
  <2>2. upto(x) # upto(y)
    BY <1>3
  <2>3. Cardinality(upto(x)) <= Cardinality(upto(y)) /\ Cardinality(upto(x)) # Cardinality(upto(y))
    BY <1>2, <2>1, <2>2, FS_Subset
  <2> HIDE DEF upto
  <2>4. place[x] \in 1 .. c /\ place[y] \in 1 .. c
    BY <1>2
  <2> QED BY <1>1, <2>3, <2>4
<1> HIDE DEF place
<1>4. place \in Injection(S, 1 .. c)
  <2>1. place \in [S -> 1 .. c]
    BY <1>2 DEF place
  <2>2. ASSUME NEW x \in S, NEW y \in S, place[x] = place[y] PROVE x = y
    <3>0. place[x] \in 1 .. c
      BY <1>2 DEF place
    <3>1. place[x] \in Nat
      BY <1>1, <3>0
    <3>2. ~ (place[x] < place[y]) /\ ~ (place[y] < place[x])
      BY <2>2, <3>1
    <3> QED BY <1>3, <3>2
  <2> QED BY <2>1, <2>2 DEF Injection, IsInjective
<1>5. place \in Surjection(S, 1 .. c)
  <2>1. IsFiniteSet(1 .. c) /\ Cardinality(1 .. c) = c
    BY <1>1, FS_Interval
  <2> QED BY <1>4, <2>1, FS_Injection
<1> DEFINE order == [k \in 1 .. c |-> CHOOSE x \in S : place[x] = k]
<1>6. ASSUME NEW k \in 1 .. c PROVE order[k] \in S /\ place[order[k]] = k
  <2>1. \E x \in S : place[x] = k
    BY <1>5 DEF Surjection
  <2> QED BY <2>1
<1>7. DOMAIN order = 1 .. c
  OBVIOUS
<1>8. order \in [1 .. c -> S]
  BY <1>6
<1> HIDE DEF order
<1>9. order \in SetToSeqs(S)
  <2>1. \A i, j \in 1 .. c : i # j => order[i] # order[j]
    BY <1>6
  <2> QED BY <1>8, <2>1 DEF SetToSeqs
<1>10. ASSUME NEW j \in DOMAIN order, NEW k \in DOMAIN order, j < k
       PROVE  order[j] < order[k]
  <2>1. /\ order[j] \in S /\ order[k] \in S /\ j \in Int /\ k \in Int
        /\ place[order[j]] = j /\ place[order[k]] = k
    BY <1>6, <1>7
  <2>2. ~ (order[k] < order[j]) /\ order[k] # order[j]
    <3>1. order[k] < order[j] => k < j
      BY <1>3, <2>1
    <3> QED BY <1>10, <2>1, <3>1
  <2>3. order[j] \in Nat /\ order[k] \in Nat
    BY <2>1
  <2> QED BY <2>2, <2>3
<1> QED BY <1>9, <1>10

\* A list of lists joined one after the other, g[i] being the first i of them.
JoinsTo(seqs, n, g) ==
  /\ n \in Nat \ {0} /\ Len(seqs) = n
  /\ g = [i \in 1 .. n |-> g[i]]
  /\ \A i \in 1 .. n : g[i] = IF i = 1 THEN seqs[i] ELSE g[i - 1] \o seqs[i]

\* FlattenSeq is what its equation says.
LEMMA Joined ==
  ASSUME NEW seqs, NEW n, NEW g, JoinsTo(seqs, n, g)
  PROVE  FlattenSeq(seqs) = g[n]
<1> USE DEF JoinsTo
<1> DEFINE Fits(f) ==
             f = [i \in 1 .. n |-> IF i = 1 THEN seqs[i] ELSE f[i - 1] \o seqs[i]]
           f == CHOOSE h : Fits(h)
<1>1. FlattenSeq(seqs) = f[n]
  BY DEF FlattenSeq
<1>2. Fits(f)
  <2>1. Fits(g)
    OBVIOUS
  <2> HIDE DEF Fits
  <2> QED BY <2>1
<1> HIDE DEF f
<1>3. ASSUME NEW h, Fits(h), NEW i \in 1 .. n
      PROVE  h[i] = IF i = 1 THEN seqs[i] ELSE h[i - 1] \o seqs[i]
  BY <1>3
<1>4. Fits(g)
  OBVIOUS
<1> HIDE DEF Fits
<1> DEFINE D == { i \in 1 .. n : f[i] # g[i] }
<1>5. D = {}
  <2> SUFFICES ASSUME D # {} PROVE FALSE
    OBVIOUS
  <2>0. D \in SUBSET Nat
    OBVIOUS
  <2>1. PICK x \in D : \A y \in D : x <= y
    BY <2>0, Smallest
  <2>2. x \in 1 .. n /\ f[x] # g[x]
    OBVIOUS
  <2>3. x # 1
    BY <1>2, <1>3, <1>4, <2>2
  <2>4. x - 1 \in 1 .. n /\ ~ (x <= x - 1)
    BY <2>2, <2>3
  <2>5. f[x - 1] = g[x - 1]
    BY <2>1, <2>4
  <2>6. /\ f[x] = f[x - 1] \o seqs[x]
        /\ g[x] = g[x - 1] \o seqs[x]
    BY <1>2, <1>3, <1>4, <2>2, <2>3
  <2> QED BY <2>2, <2>5, <2>6
<1>6. n \in 1 .. n
  OBVIOUS
<1> QED BY <1>1, <1>5, <1>6

-----------------------------------------------------------------------------
(* Pages of a list.                                                        *)

\* The pages are as many as it takes.
LEMMA PagesOfCount ==
  ASSUME NEW n \in Nat
  PROVE  /\ PagesOf(n) \in Nat
         /\ PagesOf(n) = 0 <=> n = 0
         /\ n <= PagesOf(n) * PageSize
         /\ \A p \in Nat : p < PagesOf(n) <=> p * PageSize < n
<1> DEFINE P == PageSize
           q == PagesOf(n)
<1>1. P \in Nat \ {0}
  BY TableAssumption
<1>2. q = (n + P - 1) \div P
  BY DEF PagesOf
<1> HIDE DEF P, q
<1>3. q \in Nat /\ q * P <= n + P - 1 /\ n + P - 1 < q * P + P
  BY <1>1, <1>2, Z3
<1>4. q * P \in Nat
  BY <1>1, <1>3
<1>5. n <= q * P
  BY <1>1, <1>3, <1>4
<1>6. ASSUME NEW p \in Nat
      PROVE  p < q <=> p * P < n
  <2>1. p * P \in Nat
    BY <1>1
  <2>2. ASSUME p < q PROVE p * P < n
    <3>1. p * P + P <= q * P
      <4>1. (p + 1) * P <= q * P
        BY <1>1, <1>3, <2>2
      <4>2. (p + 1) * P = p * P + P
        BY <1>1
      <4> QED BY <4>1, <4>2
    <3> QED BY <1>1, <1>3, <1>4, <2>1, <3>1
  <2>3. ASSUME ~ (p < q) PROVE ~ (p * P < n)
    <3>1. q * P <= p * P
      BY <1>1, <1>3, <2>3
    <3> QED BY <1>4, <1>5, <2>1, <3>1
  <2> QED BY <2>2, <2>3
<1>7. q = 0 <=> n = 0
  <2>1. 0 < q <=> 0 * P < n
    BY <1>6
  <2>2. 0 * P = 0
    BY <1>1
  <2> QED BY <1>3, <2>1, <2>2
<1> QED BY <1>3, <1>5, <1>6, <1>7 DEF P, q

\* A page that there is, of a list: so many of its elements in their order.
LEMMA SliceOfPage ==
  ASSUME NEW S, NEW sorted \in Seq(S), NEW p \in Nat, p < PagesOf(Len(sorted))
  PROVE  LET to == Min({(p + 1) * PageSize, Len(sorted)}) IN
         /\ Slice(sorted, p) = SubSeq(sorted, p * PageSize + 1, to)
         /\ Slice(sorted, p) \in Seq(S)
         /\ p * PageSize \in Nat /\ to \in Nat
         /\ p * PageSize < to /\ to <= Len(sorted)
         /\ to = IF (p + 1) * PageSize <= Len(sorted) THEN (p + 1) * PageSize
                 ELSE Len(sorted)
         /\ Len(Slice(sorted, p)) = to - p * PageSize
<1> DEFINE P == PageSize
           n == Len(sorted)
           to == Min({(p + 1) * P, n})
<1>1. P \in Nat \ {0}
  BY TableAssumption
<1>2. n \in Nat /\ \A i \in 1 .. n : sorted[i] \in S
  BY LenProperties, ElementOfSeq
<1>3. Slice(sorted, p) = SubSeq(sorted, p * P + 1, to)
  BY DEF Slice
<1>4. p * P \in Nat /\ (p + 1) * P \in Nat /\ (p + 1) * P = p * P + P /\ p * P < n
  <2>1. n \in Nat /\ p < PagesOf(n)
    BY <1>2
  <2> HIDE DEF n
  <2>2. p * P < n
    BY <2>1, PagesOfCount
  <2> QED BY <1>1, <2>2
<1> HIDE DEF P, n
<1>5. to = IF (p + 1) * P <= n THEN (p + 1) * P ELSE n
  BY <1>2, <1>4, MinOfTwo
<1> HIDE DEF to
<1>6. to \in Nat /\ p * P < to /\ to <= n
  BY <1>1, <1>2, <1>4, <1>5
<1>7. /\ SubSeq(sorted, p * P + 1, to) \in Seq(S)
      /\ Len(SubSeq(sorted, p * P + 1, to)) =
           IF p * P + 1 <= to THEN to - (p * P + 1) + 1 ELSE 0
  <2>1. p * P + 1 \in Int /\ to \in Int /\ \A i \in p * P + 1 .. to : sorted[i] \in S
    BY <1>2, <1>4, <1>6
  <2> QED BY <2>1, SubSeqProperties
<1>8. Len(Slice(sorted, p)) = to - p * P
  BY <1>3, <1>4, <1>6, <1>7
<1> QED BY <1>3, <1>4, <1>5, <1>6, <1>7, <1>8 DEF P, n, to

\* The pages of a list, joined, are the list.
LEMMA PagesJoin ==
  ASSUME NEW S, NEW sorted \in Seq(S)
  PROVE  FlattenSeq([p \in 1 .. PagesOf(Len(sorted)) |-> Slice(sorted, p - 1)]) = sorted
<1> DEFINE n == Len(sorted)
           q == PagesOf(n)
           P == PageSize
           pages == [p \in 1 .. q |-> Slice(sorted, p - 1)]
           to(p) == IF p * P <= n THEN p * P ELSE n
           g == [i \in 1 .. q |-> SubSeq(sorted, 1, to(i))]
<1>1. n \in Nat /\ P \in Nat \ {0}
  BY LenProperties, TableAssumption
<1>2. /\ q \in Nat /\ (q = 0 <=> n = 0) /\ n <= q * P
      /\ \A p \in Nat : p < q <=> p * P < n
  BY <1>1, PagesOfCount
<1> HIDE DEF q
<1>3. ASSUME NEW i \in 1 .. q
      PROVE  /\ i - 1 \in Nat /\ (i - 1) * P \in Nat
             /\ i - 1 + 1 = i
             /\ pages[i] = SubSeq(sorted, (i - 1) * P + 1, to(i))
             /\ (i - 1) * P < to(i) /\ to(i) <= n /\ to(i) \in Nat
             /\ i # 1 => to(i - 1) = (i - 1) * P
  <2>1. i - 1 \in Nat /\ i - 1 < q /\ i - 1 + 1 = i
    BY <1>2
  <2> DEFINE end == Min({(i - 1 + 1) * PageSize, Len(sorted)})
  <2>2. /\ Slice(sorted, i - 1) = SubSeq(sorted, (i - 1) * PageSize + 1, end)
        /\ (i - 1) * PageSize \in Nat /\ end \in Nat
        /\ (i - 1) * PageSize < end /\ end <= Len(sorted)
        /\ end = IF (i - 1 + 1) * PageSize <= Len(sorted)
                 THEN (i - 1 + 1) * PageSize ELSE Len(sorted)
    BY <2>1, SliceOfPage DEF q
  <2> HIDE DEF end
  <2>3. end = to(i)
    BY <2>1, <2>2
  <2>4. (i - 1) * P <= n
    BY <1>1, <2>2
  <2> QED BY <2>1, <2>2, <2>3, <2>4
<1>4. CASE q = 0
  <2>1. sorted = <<>>
    BY <1>1, <1>2, <1>4, EmptySeq
  <2>2. pages = <<>>
    BY <1>4
  <2>3. FlattenSeq(pages) = pages
    BY <2>2, EmptySeq DEF FlattenSeq
  <2> QED BY <2>1, <2>2, <2>3 DEF q
<1>5. CASE q # 0
  <2>1. q \in Nat \ {0}
    BY <1>2, <1>5
  <2>2. Len(pages) = q
    BY <1>2
  <2>3. ASSUME NEW i \in 1 .. q
        PROVE  g[i] = IF i = 1 THEN pages[i] ELSE g[i - 1] \o pages[i]
    <3>1. CASE i = 1
      <4>1. (1 - 1) * P + 1 = 1
        BY <1>1
      <4>2. pages[1] = SubSeq(sorted, (1 - 1) * P + 1, to(1))
        BY <1>3, <3>1
      <4> QED BY <3>1, <4>1, <4>2
    <3>2. CASE i # 1
      <4> DEFINE k == (i - 1) * P
      <4>1. i - 1 \in 1 .. q
        BY <1>2, <3>2
      <4>2. g[i - 1] = SubSeq(sorted, 1, k)
        BY <1>3, <3>2, <4>1
      <4>3. pages[i] = SubSeq(sorted, k + 1, to(i))
        BY <1>3
      <4>4. /\ 1 \in 1 .. Len(sorted) + 1 /\ k \in 1 - 1 .. Len(sorted)
            /\ to(i) \in k .. Len(sorted)
        <5>1. k \in Nat /\ to(i) \in Nat /\ k < to(i) /\ to(i) <= n
          BY <1>3
        <5> HIDE DEF k, to
        <5> QED BY <1>1, <5>1
      <4> HIDE DEF k, to, pages
      <4>5. SubSeq(sorted, 1, k) \o SubSeq(sorted, k + 1, to(i)) = SubSeq(sorted, 1, to(i))
        BY <4>4, ConcatAdjacentSubSeq
      <4>6. g[i] = SubSeq(sorted, 1, to(i))
        OBVIOUS
      <4> QED BY <3>2, <4>2, <4>3, <4>5, <4>6
    <3> QED BY <3>1, <3>2
  <2>4. g = [i \in 1 .. q |-> g[i]]
    OBVIOUS
  <2> HIDE DEF g, pages
  <2>5. JoinsTo(pages, q, g)
    BY <2>1, <2>2, <2>3, <2>4 DEF JoinsTo
  <2>8. FlattenSeq(pages) = g[q]
    BY <2>5, Joined
  <2>6. g[q] = SubSeq(sorted, 1, n)
    <3>1. q \in 1 .. q
      BY <2>1
    <3>3. g[q] = SubSeq(sorted, 1, to(q))
      BY <3>1 DEF g
    <3>2. to(q) = n
      <4>1. q * P \in Nat
        BY <1>1, <1>2
      <4> QED BY <1>1, <1>2, <4>1
    <3> QED BY <3>2, <3>3
  <2>7. SubSeq(sorted, 1, n) = sorted
    BY SubSeqFull
  <2> QED BY <2>6, <2>7, <2>8 DEF pages, q
<1> QED BY <1>4, <1>5

\* Every place of a list is on a page of it.
LEMMA PlaceOnAPage ==
  ASSUME NEW S, NEW sorted \in Seq(S), NEW j \in 1 .. Len(sorted)
  PROVE  \E p \in 0 .. PagesOf(Len(sorted)) - 1 :
           \E k \in DOMAIN Slice(sorted, p) : Slice(sorted, p)[k] = sorted[j]
<1> DEFINE P == PageSize
           n == Len(sorted)
           q == PagesOf(n)
           p == (j - 1) \div P
           k == j - p * P
           to == Min({(p + 1) * PageSize, Len(sorted)})
<1>1. P \in Nat \ {0} /\ n \in Nat /\ j \in 1 .. n /\ \A i \in 1 .. n : sorted[i] \in S
  BY TableAssumption, LenProperties, ElementOfSeq
<1>2. p \in Nat /\ p * P <= j - 1 /\ j - 1 < p * P + P
  <2>1. j - 1 \in Nat
    BY <1>1
  <2> DEFINE a == j - 1
  <2> HIDE DEF P, a
  <2>2. a \div P \in Nat /\ (a \div P) * P <= a /\ a < (a \div P) * P + P
    BY <1>1, <2>1, Z3 DEF a
  <2> QED BY <2>2 DEF a
<1> HIDE DEF p
<1>3. p * P \in Nat /\ (p + 1) * P = p * P + P
  BY <1>1, <1>2
<1>4. p < q /\ q \in Nat
  <2>1. p * P < n
    BY <1>1, <1>2, <1>3
  <2> HIDE DEF n
  <2> QED BY <1>1, <1>2, <2>1, PagesOfCount
<1>5. /\ Slice(sorted, p) = SubSeq(sorted, p * P + 1, to)
      /\ Slice(sorted, p) \in Seq(S)
      /\ to \in Nat /\ to <= n
      /\ to = IF (p + 1) * P <= n THEN (p + 1) * P ELSE n
      /\ Len(Slice(sorted, p)) = to - p * P
  <2> HIDE DEF to
  <2> QED BY <1>2, <1>4, SliceOfPage DEF to
<1> HIDE DEF P, n, q, to
<1>6. j <= to
  BY <1>1, <1>2, <1>3, <1>5
<1>7. k \in 1 .. to - (p * P + 1) + 1 /\ p * P + 1 + k - 1 = j /\ k \in 1 .. to - p * P
  BY <1>1, <1>2, <1>3, <1>5, <1>6
<1>8. \A i \in 1 .. to - (p * P + 1) + 1 :
        SubSeq(sorted, p * P + 1, to)[i] = sorted[p * P + 1 + i - 1]
  <2>1. p * P + 1 \in Int /\ to \in Int /\ \A i \in p * P + 1 .. to : sorted[i] \in S
    BY <1>1, <1>3, <1>5
  <2> QED BY <2>1, SubSeqProperties
<1> HIDE DEF k
<1>9. Slice(sorted, p)[k] = sorted[j]
  BY <1>5, <1>7, <1>8
<1>10. k \in DOMAIN Slice(sorted, p)
  BY <1>5, <1>7, LenProperties
<1>11. p \in 0 .. q - 1
  BY <1>2, <1>4
<1> QED BY <1>9, <1>10, <1>11 DEF q, n

-----------------------------------------------------------------------------
(* The matches and their pages.                                            *)

\* The matches are the videos that filter keeps, each place of the list once.
LEMMA MatchesAreListed ==
  ASSUME NEW S, list.videos \in Seq(S)
  PROVE  /\ Matches \in Seq(S) /\ Len(Matches) \in Nat
         /\ Len(Matches) = Cardinality(Matching)
         /\ \A i \in Matching : \E k \in 1 .. Len(Matches) : Matches[k] = list.videos[i]
<1> DEFINE n == Len(list.videos)
           order == InOrder(Matching)
<1>1. /\ n \in Nat /\ DOMAIN list.videos = 1 .. n
      /\ \A i \in 1 .. n : list.videos[i] \in S
  BY LenProperties, ElementOfSeq
<1>2. Matching \in SUBSET (1 .. n)
  BY <1>1 DEF Matching
<1>3. Matching \in SUBSET Nat /\ IsFiniteSet(Matching)
  <2>1. IsFiniteSet(1 .. n)
    BY <1>1, FS_Interval
  <2>2. IsFiniteSet(Matching)
    BY <1>2, <2>1, FS_Subset
  <2>3. \A i \in 1 .. n : i \in Nat
    BY <1>1
  <2> QED BY <1>2, <2>2, <2>3
<1>4. order \in SetToSeqs(Matching)
  BY <1>3, OrderExists DEF InOrder
<1> HIDE DEF n, order
<1>5. /\ order \in Seq(Matching) /\ DOMAIN order = 1 .. Len(order)
      /\ Len(order) \in Nat /\ Len(order) = Cardinality(Matching)
      /\ \A i \in Matching : \E k \in DOMAIN order : order[k] = i
  BY <1>3, <1>4, ListsOfAll
<1>6. Matches = [k \in 1 .. Len(order) |-> list.videos[order[k]]]
  BY <1>5 DEF Matches, Kept, order
<1>7. ASSUME NEW k \in 1 .. Len(order) PROVE list.videos[order[k]] \in S
  <2>1. order[k] \in Matching
    BY <1>5, ElementOfSeq
  <2> QED BY <1>1, <1>2, <2>1
<1>8. Matches \in Seq(S) /\ Len(Matches) = Len(order)
  <2>1. Matches \in [1 .. Len(order) -> S]
    BY <1>6, <1>7
  <2>2. DOMAIN Matches = 1 .. Len(order)
    BY <1>6
  <2>3. Matches \in Seq(S)
    BY <1>5, <2>1, SeqDef
  <2> QED BY <1>5, <2>2, <2>3, LenProperties
<1>9. ASSUME NEW i \in Matching
      PROVE  \E k \in 1 .. Len(Matches) : Matches[k] = list.videos[i]
  <2>1. PICK k \in 1 .. Len(order) : order[k] = i
    BY <1>5
  <2> QED BY <1>6, <1>8, <2>1
<1> QED BY <1>5, <1>8, <1>9

\* What the sort may give is a list of the same videos.
LEMMA SortingIsOfAll ==
  ASSUME NEW S, NEW videos \in Seq(S), NEW sorted \in Sortings(videos)
  PROVE  /\ sorted \in Seq(S) /\ Len(sorted) = Len(videos)
         /\ \A i \in 1 .. Len(videos) : \E j \in 1 .. Len(videos) : sorted[j] = videos[i]
<1> DEFINE n == Len(videos)
<1>1. n \in Nat /\ DOMAIN videos = 1 .. n /\ \A i \in 1 .. n : videos[i] \in S
  BY LenProperties, ElementOfSeq
<1>2. PICK order \in SetToSeqs(1 .. n) : sorted = [i \in 1 .. n |-> videos[order[i]]]
  BY <1>1 DEF Sortings
<1> HIDE DEF n
<1>3. IsFiniteSet(1 .. n) /\ Cardinality(1 .. n) = n
  BY <1>1, FS_Interval
<1>4. /\ order \in Seq(1 .. n) /\ DOMAIN order = 1 .. n /\ Len(order) = n
      /\ \A i \in 1 .. n : \E j \in 1 .. n : order[j] = i
  <2>1. /\ order \in Seq(1 .. n) /\ DOMAIN order = 1 .. Len(order)
        /\ Len(order) = Cardinality(1 .. n)
        /\ \A i \in 1 .. n : \E j \in DOMAIN order : order[j] = i
    BY <1>3, ListsOfAll
  <2> QED BY <1>3, <2>1
<1>5. \A i \in 1 .. n : order[i] \in 1 .. n
  BY <1>4, ElementOfSeq
<1>6. sorted \in [1 .. n -> S] /\ DOMAIN sorted = 1 .. n
  BY <1>1, <1>2, <1>5
<1>7. sorted \in Seq(S)
  BY <1>1, <1>6, SeqDef
<1>8. Len(sorted) = n
  BY <1>1, <1>6, <1>7, LenProperties
<1>9. \A i \in 1 .. n : \E j \in 1 .. n : sorted[j] = videos[i]
  BY <1>2, <1>4
<1> QED BY <1>7, <1>8, <1>9 DEF n

\* A page exists of what is shown, and the pages are all of it.
LEMMA ThePageIsThere ==
  ASSUME PageTurned
  PROVE  PagesShowMatches
<1> DEFINE n == Len(Matches)
           q == TotalPages
           p == view.page
<1>1. Matches \in Seq(Videos) /\ n \in Nat
  BY MatchesAreListed DEF PageTurned
<1>2. q = PagesOf(n) /\ q \in Nat /\ (q = 0 <=> n = 0)
  BY <1>1, PagesOfCount DEF TotalPages
<1>3. p \in Nat /\ (p = 0 \/ p < q)
  BY DEF PageTurned
<1>4. ASSUME NEW sorted \in Sortings(Matches)
      PROVE  sorted \in Seq(Videos) /\ Len(sorted) = n
  BY <1>1, SortingIsOfAll
<1>5. PagesCoverMatches
  <2>1. ASSUME NEW sorted \in Sortings(Matches)
        PROVE  FlattenSeq([k \in 1 .. TotalPages |-> Slice(sorted, k - 1)]) = sorted
    <3>1. sorted \in Seq(Videos) /\ TotalPages = PagesOf(Len(sorted))
      BY <1>4 DEF TotalPages
    <3> HIDE DEF n, q
    <3> QED BY <3>1, PagesJoin
  <2> QED BY <2>1 DEF PagesCoverMatches
<1>6. ASSUME ~ loading
      PROVE  Caption.page <= Caption.pages
  <2> HIDE DEF q
  <2>1. Max({1, q}) = IF 1 <= q THEN q ELSE 1
    BY <1>2, MaxOfTwo
  <2>2. Caption.page = p + 1 /\ Caption.pages = Max({1, q})
    BY <1>6 DEF Caption, q
  <2> HIDE DEF p
  <2> QED BY <1>2, <1>3, <2>1, <2>2
<1>7. ASSUME NEW sorted \in Sortings(Matches), Matches # <<>>
      PROVE  Rows(sorted) # <<>> /\ Len(Rows(sorted)) = Pager.to - Pager.from + 1
  <2> DEFINE slice == Slice(sorted, p)
             to == Min({(p + 1) * PageSize, Len(sorted)})
  <2>1. sorted \in Seq(Videos) /\ Len(sorted) = n /\ p < PagesOf(Len(sorted))
    <3>1. n # 0
      BY <1>1, <1>7, EmptySeq
    <3>2. p < PagesOf(n)
      BY <1>2, <1>3, <3>1
    <3> QED BY <1>4, <3>2
  <2>2. /\ slice \in Seq(Videos) /\ p * PageSize \in Nat /\ to \in Nat
        /\ p * PageSize < to /\ Len(slice) = to - p * PageSize
    <3> HIDE DEF p, n, q
    <3> QED BY <1>3, <2>1, SliceOfPage
  <2>3. Pager.to = to /\ Pager.from = p * PageSize + 1
    BY <2>1 DEF Pager
  <2>4. Rows(sorted) = [i \in DOMAIN slice |-> slice[i].video_id]
    BY DEF Rows
  <2> HIDE DEF slice, to, p, n, q
  <2>5. DOMAIN slice = 1 .. Len(slice) /\ Len(slice) \in Nat
    BY <2>2, LenProperties
  <2>6. Len(Rows(sorted)) = Len(slice)
    BY <2>4, <2>5
  <2>7. Len(slice) # 0
    BY <2>2
  <2> QED BY <2>2, <2>3, <2>6, <2>7, EmptySeq
<1>8. Body = "table" => ~ loading
  BY DEF Body
<1> HIDE DEF n, q, p
<1> QED BY <1>5, <1>6, <1>7, <1>8 DEF PagesShowMatches, PageExists

\* Every match is on a page.
LEMMA EachIsShown ==
  ASSUME PageTurned
  PROVE  EachMatchHasAPage
<1>1. ASSUME NEW sorted \in Sortings(Matches), NEW i \in Matching
      PROVE  \E p \in 0 .. TotalPages - 1 :
               \E k \in DOMAIN Slice(sorted, p) : Slice(sorted, p)[k] = list.videos[i]
  <2>1. Matches \in Seq(Videos)
        /\ \E k \in 1 .. Len(Matches) : Matches[k] = list.videos[i]
    BY MatchesAreListed DEF PageTurned
  <2>2. PICK k \in 1 .. Len(Matches) : Matches[k] = list.videos[i]
    BY <2>1
  <2>3. sorted \in Seq(Videos) /\ Len(sorted) = Len(Matches)
        /\ \E j \in 1 .. Len(Matches) : sorted[j] = Matches[k]
    BY <2>1, SortingIsOfAll
  <2>4. PICK j \in 1 .. Len(sorted) : sorted[j] = list.videos[i]
    BY <2>2, <2>3
  <2>5. TotalPages = PagesOf(Len(sorted))
    BY <2>3 DEF TotalPages
  <2> QED BY <2>3, <2>4, <2>5, PlaceOnAPage
<1> QED BY <1>1 DEF EachMatchHasAPage

-----------------------------------------------------------------------------
(* The page shown, in every step.                                          *)

\* An answer is a list of rows of the table.
LEMMA AnswerOfRows ==
  ASSUME NEW filter \in Filters, NEW data \in Answers[filter]
  PROVE  OrEmpty(data) \in Seq(Videos)
<1>0. PICK table \in Contents :
        \E rows \in GetVideos(table, filter.region, filter.category, 200, 0) :
          data = Each(VideoJson, rows)
  BY DEF Answers, getVideos
<1>1. PICK rows \in GetVideos(table, filter.region, filter.category, 200, 0) :
        data = Each(VideoJson, rows)
  BY <1>0
<1>2. PICK some \in Newest(InFilter(table, filter.region, filter.category)) :
        \E all \in OrderedBy(some, "view_count") : rows = Page(all, 200, 0)
  BY <1>1 DEF GetVideos
<1>3. PICK all \in OrderedBy(some, "view_count") : rows = Page(all, 200, 0)
  BY <1>2
<1>4. some \in SUBSET table /\ IsFiniteSet(some)
  <2>1. some \in SUBSET table
    BY <1>2 DEF Newest, InFilter, InRegion
  <2> QED BY <2>1, TableAssumption, FS_Subset
<1>5. all \in Seq(some) /\ Len(all) \in Nat
  <2>1. all \in SetToSeqs(some)
    BY DEF OrderedBy
  <2> QED BY <1>4, <2>1, ListsOfAll
<1>6. rows \in Seq(UNION Contents)
  <2> DEFINE to == Min({0 + 200, Len(all)})
  <2>1. rows = SubSeq(all, 0 + 1, to)
    BY <1>3 DEF Page
  <2>2. to \in Int /\ to <= Len(all)
    <3>1. 0 + 200 \in Int /\ Len(all) \in Int
      BY <1>5
    <3>2. to = IF 0 + 200 <= Len(all) THEN 0 + 200 ELSE Len(all)
      BY <3>1, MinOfTwo
    <3> QED BY <3>1, <3>2
  <2> HIDE DEF to
  <2>3. 0 + 1 \in Int /\ \A i \in 0 + 1 .. to : all[i] \in UNION Contents
    BY <1>4, <1>5, <2>2, ElementOfSeq
  <2> QED BY <2>1, <2>2, <2>3, SubSeqProperties
<1> DEFINE json == [i \in DOMAIN rows |-> VideoJson(rows[i])]
<1>7. json \in Seq(Videos)
  <2>1. DOMAIN rows = 1 .. Len(rows) /\ Len(rows) \in Nat
    BY <1>6, LenProperties
  <2>2. \A i \in 1 .. Len(rows) : VideoJson(rows[i]) \in Videos
    BY <1>6, ElementOfSeq DEF Videos
  <2>3. json \in [1 .. Len(rows) -> Videos]
    BY <2>1, <2>2
  <2> HIDE DEF json
  <2> QED BY <2>1, <2>3, SeqDef
<1>8. data = OmitList(json)
  BY <1>1 DEF Each
<1> HIDE DEF json
<1>9. OrEmpty(data) = json \/ OrEmpty(data) = <<>>
  BY <1>8 DEF OmitList, OrEmpty
<1> QED BY <1>7, <1>9, EmptySeq

\* The same list and the same controls: the same page.
LEMMA SamePage ==
  ASSUME PageTurned, UNCHANGED <<list, view>>
  PROVE  PageTurned'
  BY DEF PageTurned, TotalPages, Matches, Kept, Matching

\* Another page of the same matches.
LEMMA OtherPage ==
  ASSUME PageTurned, UNCHANGED list, NEW p \in Nat,
         view' = [view EXCEPT !.page = p], p = 0 \/ p < TotalPages
  PROVE  PageTurned'
<1>1. view'.search = view.search /\ view'.page = p
  BY DEF PageTurned
<1>2. TotalPages' = TotalPages
  BY <1>1 DEF TotalPages, Matches, Kept, Matching
<1> QED BY <1>1, <1>2 DEF PageTurned

\* No control and no answer leaves a page without matches.
LEMMA StepKeepsPage ==
  ASSUME Inv, PageTurned, [Next]_vars
  PROVE  PageTurned'
<1>1. ASSUME NEW filter, Select(filter) PROVE PageTurned'
  BY <1>1, SamePage DEF Select
<1>2. CASE Retry
  BY <1>2, SamePage DEF Retry
<1>3. CASE FetchEnds
  <2>1. DOMAIN inFlight = 1 .. Len(inFlight) /\ inFlight \in Seq(Fetch)
    BY LenProperties DEF Inv, TableTypeOK
  <2>2. PICK i \in 1 .. Len(inFlight) : Answered(i) \/ Failed(i)
    BY <1>3, <2>1 DEF FetchEnds
  <2>3. CASE Answered(i)
    <3>1. PICK data \in Answers[inFlight[i].filter] :
            list' = [videos |-> OrEmpty(data), filter |-> inFlight[i].filter]
      BY <2>3 DEF Answered
    <3>2. inFlight[i].filter \in Filters
      <4>1. inFlight[i] \in Fetch
        BY <2>1, ElementOfSeq
      <4> QED BY <4>1 DEF Fetch
    <3>3. list'.videos \in Seq(Videos)
      BY <3>1, <3>2, AnswerOfRows
    <3>4. view' = [view EXCEPT !.page = 0]
      BY <2>3 DEF Answered, FirstPage
    <3> QED BY <3>3, <3>4 DEF PageTurned
  <2>4. CASE Failed(i)
    BY <2>4, SamePage DEF Failed
  <2> QED BY <2>2, <2>3, <2>4
<1>4. ASSUME NEW search \in Searches, handleSearch(search) PROVE PageTurned'
  <2>1. view' = [view EXCEPT !.search = search, !.page = 0] /\ UNCHANGED list
    BY <1>4 DEF handleSearch, See, FirstPage
  <2> QED BY <2>1 DEF PageTurned
<1>5. ASSUME NEW key \in Columns, toggleSort(key) PROVE PageTurned'
  <2>1. PICK dir \in {"desc", "asc"} :
          view' = [view EXCEPT !.key = key, !.dir = dir, !.page = 0]
    BY <1>5 DEF toggleSort, See, FirstPage
  <2>2. UNCHANGED list
    BY <1>5 DEF toggleSort, See
  <2> QED BY <2>1, <2>2 DEF PageTurned
<1>6. TotalPages \in Nat /\ view.page \in Nat
  <2>1. Len(Matches) \in Nat
    BY MatchesAreListed DEF PageTurned
  <2> QED BY <2>1, PagesOfCount DEF TotalPages, PageTurned
<1>7. CASE PrevPage
  <2> DEFINE p == Max({0, view.page - 1})
  <2>1. view' = [view EXCEPT !.page = p] /\ UNCHANGED list
    BY <1>7 DEF PrevPage, See
  <2>2. p = IF 0 <= view.page - 1 THEN view.page - 1 ELSE 0
    BY <1>6, MaxOfTwo
  <2> HIDE DEF p
  <2>3. p \in Nat /\ (p = 0 \/ p < TotalPages)
    BY <1>6, <2>2 DEF PageTurned
  <2> QED BY <2>1, <2>3, OtherPage
<1>8. CASE NextPage
  <2> DEFINE p == Min({TotalPages - 1, view.page + 1})
  <2>1. view' = [view EXCEPT !.page = p] /\ UNCHANGED list
    BY <1>8 DEF NextPage, See
  <2>2. view.page < TotalPages - 1
    BY <1>8 DEF NextPage, Pager
  <2>3. p = IF TotalPages - 1 <= view.page + 1 THEN TotalPages - 1 ELSE view.page + 1
    BY <1>6, MinOfTwo
  <2> HIDE DEF p
  <2>4. p \in Nat /\ p < TotalPages
    BY <1>6, <2>2, <2>3
  <2> QED BY <2>1, <2>4, OtherPage
<1>9. CASE UNCHANGED vars
  BY <1>9, SamePage DEF vars
<1> QED BY <1>1, <1>2, <1>3, <1>4, <1>5, <1>7, <1>8, <1>9
        DEF Next, SelectRegion, SelectCategory

LEMMA InitPage == Init => PageTurned
<1>1. ASSUME Init PROVE PageTurned
  <2>1. list.videos = <<>> /\ view.page = 0
    BY <1>1 DEF Init
  <2>2. view \in [search : Searches, key : Columns, dir : {"desc", "asc"}, page : Nat]
    BY <1>1, TableAssumption DEF Init, Columns
  <2> QED BY <2>1, <2>2, EmptySeq DEF PageTurned
<1> QED BY <1>1

-----------------------------------------------------------------------------
(* The theorems.                                                           *)

\* The invariant holds in every state.
THEOREM Invariance == Spec => [](Inv /\ PageTurned)
<1>1. Init => Inv /\ PageTurned
  BY InitInv, InitPage
<1>2. Inv /\ PageTurned /\ [Next]_vars => (Inv /\ PageTurned)'
  BY StepKeepsInv, StepKeepsPage
<1> QED BY <1>1, <1>2, PTL DEF Spec

\* Whatever was selected while fetches were on their way, and in whatever order
\* they ended: when the last has ended, and unless it was overtaken, the videos
\* are those of the two selectors or an error is shown (videos-table.tsx:83-104).
THEOREM TheSelectedAreShown == Spec => []ShownIsSelected
<1>1. Inv => ShownIsSelected
  <2>1. ASSUME Inv, inFlight = <<>>
        PROVE  /\ Body # "spinner"
               /\ stale \/ Body = "error and Retry" \/ list.filter = selected
    <3>1. ~ loading /\ (stale \/ error \/ list.filter = selected)
      BY <2>1 DEF Inv, SpinsForAFetch, NoneLeft
    <3>2. Body # "spinner" /\ (error => Body = "error and Retry")
      BY <3>1 DEF Body
    <3> QED BY <3>1, <3>2
  <2> QED BY <2>1 DEF ShownIsSelected
<1> QED BY <1>1, Invariance, PTL

\* Whatever was searched, sorted, fetched and turned before, in any order: the
\* page shown exists, and the pages show every match once, whatever order the
\* sort gives (videos-table.tsx:94, 106-136, 294-322).
THEOREM ThePagesShowTheMatches == Spec => []PagesShowMatches
<1>1. PageTurned => PagesShowMatches
  BY ThePageIsThere
<1> QED BY <1>1, Invariance, PTL

\* Every video of the list that the search matches is on one of the pages the
\* buttons reach (videos-table.tsx:121-136).
THEOREM EachMatchIsShown == Spec => []EachMatchHasAPage
<1>1. PageTurned => EachMatchHasAPage
  BY EachIsShown
<1> QED BY <1>1, Invariance, PTL

=============================================================================
