---------------------------- MODULE RestApiProofs ----------------------------
(***************************************************************************)
(* Proofs about RestApi: what a client that walks through a listing sees.  *)
(* The order of a listing is the rank of each row in it, the number of     *)
(* rows that are newer. The argument is about what happens to the ranks    *)
(* when rows enter and leave between the pages, and the second section     *)
(* holds what it needs to know of them.                                    *)
(***************************************************************************)
EXTENDS RestApi, SequenceTheorems, FiniteSetTheorems, WellFoundedInduction, TLAPS

-----------------------------------------------------------------------------
(* Least and greatest elements, which the proofs have for an induction *)

(* A set of natural numbers that is not empty has a least element. *)
LEMMA LeastElement ==
  ASSUME NEW T \in SUBSET Nat, T # {}
  PROVE  \E x \in T : \A y \in T : x <= y
<1> DEFINE R == OpToRel(<, Nat)
<1>1. IsWellFoundedOn(R, Nat)
  BY NatLessThanWellFounded
<1>2. R = {ss \in Nat \X Nat : ss[1] < ss[2]}
  BY DEF OpToRel
<1> HIDE DEF R
<1>3. \A x, y \in Nat : <<y, x>> \in R <=> y < x
  BY <1>2
<1>4. PICK x \in T : \A y \in T : ~(<<y, x>> \in R)
  BY <1>1, WFMin
<1>5. \A y \in T : y \in Nat /\ x \in Nat /\ ~(y < x)
  BY <1>3, <1>4
<1>6. \A y \in T : x <= y
  BY <1>5
<1> QED BY <1>4, <1>6

(* One that is bounded as well has a greatest element. *)
LEMMA GreatestElement ==
  ASSUME NEW T \in SUBSET Nat, T # {}, NEW b \in Nat, \A y \in T : y <= b
  PROVE  \E x \in T : \A y \in T : y <= x
<1> DEFINE Bounds == {n \in Nat : \A y \in T : y <= n}
<1>1. PICK x \in Bounds : \A n \in Bounds : x <= n
  <2>1. b \in Bounds /\ Bounds \in SUBSET Nat
    OBVIOUS
  <2> HIDE DEF Bounds
  <2> QED BY <2>1, LeastElement
<1>2. CASE x \in T
  BY <1>1, <1>2
<1>3. CASE x \notin T
  <2>1. \A y \in T : y \in Nat /\ y < x
    BY <1>1, <1>3
  <2>2. x \in Nat \ {0}
    <3>1. PICK y \in T : TRUE
      OBVIOUS
    <3>2. x \in Nat /\ y \in Nat /\ y < x
      BY <1>1, <2>1, <3>1
    <3> QED BY <3>2
  <2>3. x - 1 \in Nat /\ \A y \in T : y <= x - 1
    BY <2>1, <2>2
  <2>4. x <= x - 1
    BY <1>1, <2>3
  <2> QED BY <2>2, <2>4
<1> QED BY <1>2, <1>3


-----------------------------------------------------------------------------

USE RestAssumption

-----------------------------------------------------------------------------
(* Ranks *)

Rank(all, i) == Cardinality(Newer(all, i))

(* The first n rows of a listing. *)
First(all, n) == {i \in all : Rank(all, i) < n}

(* A rank is a number, less than the number of rows. *)
LEMMA RankBelowTotal ==
  ASSUME NEW S \in SUBSET Nat, IsFiniteSet(S), NEW i \in S
  PROVE  Rank(S, i) \in Nat /\ Cardinality(S) \in Nat /\ Rank(S, i) < Cardinality(S)
<1> DEFINE N == Newer(S, i)
<1>1. N \subseteq S \ {i}
  BY DEF Newer
<1>2. IsFiniteSet(S \ {i}) /\ Cardinality(S \ {i}) = Cardinality(S) - 1
  BY FS_RemoveElement
<1> HIDE DEF N
<1>3. IsFiniteSet(N) /\ Cardinality(N) <= Cardinality(S \ {i})
  BY <1>1, <1>2, FS_Subset
<1>4. Cardinality(N) \in Nat /\ Cardinality(S) \in Nat
  BY <1>3, FS_CardinalityType
<1>5. Cardinality(N) < Cardinality(S)
  BY <1>2, <1>3, <1>4
<1> QED BY <1>4, <1>5 DEF Rank, N

(* When rows are added, ranks do not decrease. *)
LEMMA RankGrows ==
  ASSUME NEW S \in SUBSET Nat, NEW T \in SUBSET Nat, IsFiniteSet(T), S \subseteq T, NEW i \in S
  PROVE  /\ Rank(S, i) \in Nat /\ Rank(T, i) \in Nat
         /\ Rank(S, i) <= Rank(T, i)
<1>1. Newer(S, i) \subseteq Newer(T, i) /\ Newer(T, i) \subseteq T
  BY DEF Newer
<1>2. IsFiniteSet(Newer(T, i))
  BY <1>1, FS_Subset
<1>3. /\ IsFiniteSet(Newer(S, i))
      /\ Cardinality(Newer(S, i)) <= Cardinality(Newer(T, i))
  BY <1>1, <1>2, FS_Subset
<1>4. Cardinality(Newer(S, i)) \in Nat /\ Cardinality(Newer(T, i)) \in Nat
  BY <1>2, <1>3, FS_CardinalityType
<1> QED BY <1>3, <1>4 DEF Rank

(* At most n rows are the first n. *)
LEMMA FirstAreFew ==
  ASSUME NEW S \in SUBSET Nat, IsFiniteSet(S), NEW n \in Nat
  PROVE  /\ IsFiniteSet(First(S, n))
         /\ Cardinality(First(S, n)) \in Nat
         /\ Cardinality(First(S, n)) <= n
<1> DEFINE F == First(S, n)
<1>1. F \subseteq S /\ F \in SUBSET Nat
  BY DEF First
<1>2. IsFiniteSet(F) /\ Cardinality(F) \in Nat
  <2> HIDE DEF F
  <2> QED BY <1>1, FS_Subset, FS_CardinalityType
<1>3. CASE F = {}
  <2>1. Cardinality(F) = 0
    BY <1>3, FS_EmptySet
  <2> QED BY <1>2, <2>1 DEF F
<1>4. CASE F # {}
  <2>1. PICK m \in F : \A y \in F : m <= y
    <3> HIDE DEF F
    <3> QED BY <1>1, <1>4, LeastElement
  <2>2. m \in S /\ m \in Nat /\ Rank(S, m) < n
    BY <1>1, <2>1 DEF First
  <2> DEFINE N == Newer(S, m)
  <2>3. F \subseteq N \cup {m}
    BY <1>1, <2>1 DEF Newer
  <2>4. N \subseteq S /\ m \notin N
    BY <2>2 DEF Newer
  <2> HIDE DEF N, F
  <2>5. IsFiniteSet(N) /\ Cardinality(N) \in Nat
    BY <2>4, FS_Subset, FS_CardinalityType
  <2>6. IsFiniteSet(N \cup {m}) /\ Cardinality(N \cup {m}) = Cardinality(N) + 1
    BY <2>4, <2>5, FS_AddElement
  <2>7. Cardinality(F) <= Cardinality(N \cup {m})
    BY <2>3, <2>6, FS_Subset
  <2>8. Cardinality(N) < n
    BY <2>2 DEF N, Rank
  <2>9. Cardinality(F) <= n
    BY <1>2, <2>5, <2>6, <2>7, <2>8
  <2> QED BY <1>2, <2>9 DEF F
<1> QED BY <1>3, <1>4

(* When the first n rows are not all there are, they are n, and another    *)
(* row comes next.                                                         *)
LEMMA NextAfterFirst ==
  ASSUME NEW S \in SUBSET Nat, IsFiniteSet(S), NEW n \in Nat, First(S, n) # S,
         NEW b \in Nat, \A y \in S : y <= b
  PROVE  /\ Cardinality(First(S, n)) = n
         /\ \E i \in S : Rank(S, i) = n
<1> DEFINE F == First(S, n)
           R == S \ F
<1>1. R # {} /\ R \in SUBSET Nat /\ F \subseteq S
  BY DEF First
<1>2. PICK i \in R : \A y \in R : y <= i
  <2>1. \A y \in R : y <= b
    OBVIOUS
  <2> HIDE DEF R
  <2> QED BY <1>1, <2>1, GreatestElement
<1>3. Newer(S, i) \subseteq F
  BY <1>1, <1>2 DEF Newer
<1>4. i \in S /\ Rank(S, i) \in Nat /\ ~(Rank(S, i) < n)
  BY <1>2, RankBelowTotal DEF First
<1> HIDE DEF F, R
<1>5. IsFiniteSet(F) /\ Cardinality(F) \in Nat /\ Cardinality(F) <= n
  BY FirstAreFew DEF F
<1>6. Rank(S, i) <= Cardinality(F)
  BY <1>3, <1>5, FS_Subset DEF Rank
<1>7. Rank(S, i) = n /\ Cardinality(F) = n
  BY <1>4, <1>5, <1>6
<1> QED BY <1>4, <1>7 DEF F

(* A row that is among the first n of the larger listing is so in the      *)
(* smaller one, if it is in that.                                          *)
LEMMA FirstOfLarger ==
  ASSUME NEW S \in SUBSET Nat, NEW T \in SUBSET Nat, IsFiniteSet(T), S \subseteq T, NEW n \in Nat
  PROVE  First(T, n) \cap S \subseteq First(S, n)
<1>1. ASSUME NEW i \in First(T, n), i \in S
      PROVE  i \in First(S, n)
  <2>1. /\ Rank(S, i) \in Nat /\ Rank(T, i) \in Nat
        /\ Rank(S, i) <= Rank(T, i)
    BY <1>1, RankGrows
  <2>2. Rank(T, i) < n
    BY DEF First
  <2>3. Rank(S, i) < n
    BY <2>1, <2>2
  <2> QED BY <1>1, <2>3 DEF First
<1> QED BY <1>1

(* The rows up to n include those up to a smaller number.                  *)
LEMMA FirstOfMore ==
  ASSUME NEW S \in SUBSET Nat, IsFiniteSet(S), NEW m \in Nat, NEW n \in Nat, m <= n
  PROVE  First(S, m) \subseteq First(S, n)
<1>1. ASSUME NEW i \in First(S, m)
      PROVE  i \in First(S, n)
  <2>1. i \in S /\ Rank(S, i) < m
    BY DEF First
  <2>2. Rank(S, i) \in Nat
    BY <2>1, RankBelowTotal
  <2>3. Rank(S, i) < n
    BY <2>1, <2>2
  <2> QED BY <2>1, <2>3 DEF First
<1> QED BY <1>1

(* The number of rows up to the end of a page. *)
LEMMA PageEnds ==
  ASSUME NEW page \in Nat, NEW perPage \in Nat \ {0}
  PROVE  /\ page * perPage \in Nat
         /\ page = 1 => Offset(page, perPage) = 0 /\ page * perPage = perPage
         /\ page >= 1 => /\ Offset(page, perPage) \in Nat
                         /\ Offset(page, perPage) = (page - 1) * perPage
                         /\ page * perPage = Offset(page, perPage) + perPage
         /\ \A q \in Nat : q < page =>
              q * perPage \in Nat /\ q * perPage <= Offset(page, perPage)
<1>1. page * perPage \in Nat
  BY SMT
<1>2. ASSUME page >= 1
      PROVE  /\ (page - 1) * perPage \in Nat
             /\ page * perPage = (page - 1) * perPage + perPage
  BY <1>2, SMT
<1>3. ASSUME NEW q \in Nat, q < page
      PROVE  q * perPage \in Nat /\ q * perPage <= (page - 1) * perPage
  <2>1. q * perPage \in Nat
    BY SMT
  <2> DEFINE d == (page - 1) - q
  <2>2. d \in Nat /\ page - 1 = q + d
    BY <1>3
  <2> HIDE DEF d
  <2>3. d * perPage \in Nat
    BY <2>2, SMT
  <2>4. (q + d) * perPage = q * perPage + d * perPage
    BY <2>2, SMT
  <2> QED BY <2>1, <2>2, <2>3, <2>4
<1> QED BY <1>1, <1>2, <1>3 DEF Offset

(* There is a next page when there are more rows than up to the end of     *)
(* this one.                                                               *)
LEMMA NextWhenMore ==
  ASSUME NEW page \in Nat, NEW perPage \in Nat \ {0}, NEW total \in Nat
  PROVE  page < Pages(total, perPage) <=> page * perPage < total
<1> DEFINE q == Pages(total, perPage)
           n == total + perPage - 1
<1>1. n \in Nat
  OBVIOUS
<1>2. q = n \div perPage
  BY DEF Pages
<1> HIDE DEF q, n
<1>3. q \in Nat /\ q * perPage <= n /\ n < (q + 1) * perPage
  BY <1>1, <1>2, SMT
<1>4. CASE page < q
  <2>1. page + 1 <= q
    BY <1>3, <1>4
  <2>2. (page + 1) * perPage <= q * perPage
    BY <1>3, <2>1, SMT
  <2>3. page * perPage + perPage <= n
    BY <1>1, <1>3, <2>2, SMT
  <2> QED BY <1>4, <2>3, SMT DEF n, q
<1>5. CASE ~(page < q)
  <2>1. q + 1 <= page + 1
    BY <1>3, <1>5
  <2>2. (q + 1) * perPage <= (page + 1) * perPage
    BY <1>3, <2>1, SMT
  <2>3. n < page * perPage + perPage
    BY <1>1, <1>3, <2>2, SMT
  <2> QED BY <1>5, <2>3, SMT DEF n, q
<1> QED BY <1>4, <1>5 DEF q

-----------------------------------------------------------------------------
(* Filters *)

Columns(list) ==
  IF list = "/subscription" THEN {"address", "state"}
  ELSE {"subscription_id", "acknowledged"}

(* What parse_args returns: values for some of the columns. *)
IsFilter(list, filter) ==
  /\ filter = [c \in DOMAIN filter |-> filter[c]]
  /\ DOMAIN filter \subseteq Columns(list)

(* What a link makes of a filter. *)
Forgotten(filter) == Restrict(filter, DOMAIN filter \ {"subscription_id"})

LEMMA ParsedIsFilter ==
  ASSUME NEW list \in Listing, NEW args
  PROVE  IsFilter(list, ParseArgs(list, args))
<1>1. CASE list = "/subscription"
  BY <1>1 DEF ParseArgs, IsFilter, Columns, Dest
<1>2. CASE list = "/callback"
  BY <1>2 DEF ParseArgs, IsFilter, Columns, Dest
<1> QED BY <1>1, <1>2 DEF Listing

(* The parser of a listing knows all columns of a filter as arguments but  *)
(* subscription_id.                                                        *)
LEMMA LinkForgets ==
  ASSUME NEW list \in Listing, NEW filter, IsFilter(list, filter)
  PROVE  ParseArgs(list, filter) = Forgotten(filter)
<1> DEFINE D == DOMAIN filter
           Known == D \cap DOMAIN Dest(list)
<1>1. \A n \in Known : Dest(list)[n] = n
  BY DEF IsFilter, Columns, Dest, Listing
<1>2. Known = D \ {"subscription_id"}
  BY DEF IsFilter, Columns, Dest, Listing
<1>3. {Dest(list)[n] : n \in Known} = Known
  BY <1>1
<1>4. \A c \in Known : (CHOOSE n \in Known : Dest(list)[n] = c) = c
  BY <1>1
<1>5. ParseArgs(list, filter) =
        [c \in {Dest(list)[n] : n \in Known} |->
           filter[CHOOSE n \in Known : Dest(list)[n] = c]]
  BY DEF ParseArgs
<1> HIDE DEF Known
<1>6. ParseArgs(list, filter) = [c \in Known |-> filter[c]]
  BY <1>3, <1>4, <1>5
<1> QED BY <1>2, <1>6 DEF Forgotten, Restrict

(* It forgets once. *)
LEMMA ForgottenOnce ==
  ASSUME NEW list \in Listing, NEW filter, IsFilter(list, filter)
  PROVE  /\ IsFilter(list, Forgotten(filter))
         /\ Forgotten(Forgotten(filter)) = Forgotten(filter)
<1>1. /\ DOMAIN Forgotten(filter) = DOMAIN filter \ {"subscription_id"}
      /\ \A c \in DOMAIN Forgotten(filter) : Forgotten(filter)[c] = filter[c]
  BY DEF Forgotten, Restrict
<1>2. Forgotten(filter) = [c \in DOMAIN Forgotten(filter) |-> Forgotten(filter)[c]]
  BY DEF Forgotten, Restrict
<1>3. IsFilter(list, Forgotten(filter))
  BY <1>1, <1>2 DEF IsFilter
<1>4. DOMAIN Forgotten(filter) \ {"subscription_id"} = DOMAIN Forgotten(filter)
  BY <1>1
<1>5. Forgotten(Forgotten(filter)) =
        [c \in DOMAIN Forgotten(filter) |-> Forgotten(filter)[c]]
  BY <1>4 DEF Forgotten, Restrict
<1> QED BY <1>2, <1>3, <1>5

(* A filter that forgets lets more rows through. *)
LEMMA ForgottenMatchesMore ==
  ASSUME NEW table, NEW filter
  PROVE  Matching(table, filter) \subseteq Matching(table, Forgotten(filter))
BY DEF Matching, Forgotten, Restrict

-----------------------------------------------------------------------------
(* The invariant *)

(* The rows the current request asks for, as the table is now. *)
Current == Matching(rows, QueryParams(request))

(* What was shown on the pages up to p. *)
ShownTo(p) == UNION {shown[q] : q \in 1..p}

Row(list) ==
  IF list = "/subscription" THEN [address : Key, state : State]
  ELSE [subscription_id : Key, acknowledged : BOOLEAN]

TypeOK ==
  /\ listing \in Listing
  /\ rows \in Seq(Row(listing))
  /\ step \in {"start", "counting", "answered", "not found"}
  /\ step # "start" => request.page \in Nat /\ request.perPage \in Nat \ {0}
  /\ DOMAIN shown \subseteq Nat \ {0}

WalkShape ==
  /\ step = "start" => shown = << >> /\ late = {} /\ ~left
  /\ step \in {"counting", "answered"} => request.page >= 1
  /\ step = "answered" => request.page \in DOMAIN shown

(* The links of an answer lead to the pages next to it, of the same size.  *)
LinksFit ==
  step = "answered" =>
    /\ paging.prev = IF request.page > 1 THEN Link(request, request.page - 1) ELSE NoLink
    /\ paging.next \in {NoLink, Link(request, request.page + 1)}

(* A request has the filter the client began with, or has forgotten the    *)
(* subscription.                                                           *)
FilterFits ==
  step # "start" =>
    /\ IsFilter(listing, wanted)
    /\ QueryParams(request) \in {wanted, Forgotten(wanted)}

(* The pages up to p have shown all rows that are first enough to belong   *)
(* there now, but for those that came late.                                *)
ShownFirst ==
  FilterKept /\ ~left =>
    \A p \in DOMAIN shown : 1..p \subseteq DOMAIN shown =>
      First(Current, p * request.perPage) \ late \subseteq ShownTo(p)

(* So they will have with the page that has been read but not answered.    *)
FoundFirst ==
  step = "counting" /\ FilterKept /\ ~left /\ 1..(request.page - 1) \subseteq DOMAIN shown =>
    First(Current, request.page * request.perPage) \ late
      \subseteq items \cup ShownTo(request.page - 1)

(* When no row has come, those that were shown on a page belong there or   *)
(* on an earlier one.                                                      *)
ShownStay ==
  late = {} /\ FilterKept =>
    \A p \in DOMAIN shown : shown[p] \cap Current \subseteq First(Current, p * request.perPage)

(* The same of the page that has been read, whose rows were not shown on   *)
(* the pages before.                                                       *)
FoundStay ==
  step = "counting" /\ late = {} /\ FilterKept =>
    /\ items \cap Current \subseteq First(Current, request.page * request.perPage)
    /\ \A p \in DOMAIN shown : p < request.page => items \cap shown[p] = {}

(* There are rows for this page, and for the next one if a link leads to   *)
(* it.                                                                     *)
PageIsThere ==
  step \in {"counting", "answered"} /\ ~left =>
    request.page = 1 \/ Offset(request.page, request.perPage) < Cardinality(Current)

NextIsThere ==
  step = "answered" /\ ~left /\ paging.next # NoLink =>
    request.page * request.perPage < Cardinality(Current)

WalkInvariant ==
  /\ TypeOK
  /\ WalkShape
  /\ LinksFit
  /\ FilterFits
  /\ ShownFirst
  /\ FoundFirst
  /\ ShownStay
  /\ FoundStay
  /\ PageIsThere
  /\ NextIsThere
  /\ NothingSkipped
  /\ NothingTwice
  /\ NoDeadLink

-----------------------------------------------------------------------------
(* Steps of the walk *)

(* The rows of a listing are finitely many numbers. *)
LEMMA MatchingRows ==
  ASSUME NEW R, NEW table \in Seq(R), NEW filter
  PROVE  /\ Matching(table, filter) \in SUBSET Nat
         /\ IsFiniteSet(Matching(table, filter))
         /\ Cardinality(Matching(table, filter)) \in Nat
         /\ Len(table) \in Nat
         /\ \A i \in Matching(table, filter) : i <= Len(table)
<1> DEFINE M == Matching(table, filter)
<1>1. DOMAIN table = 1..Len(table) /\ Len(table) \in Nat
  BY LenProperties
<1>2. M \subseteq 1..Len(table)
  BY <1>1 DEF Matching
<1> HIDE DEF M
<1>3. IsFiniteSet(1..Len(table))
  BY <1>1, FS_Interval
<1>4. IsFiniteSet(M) /\ Cardinality(M) \in Nat
  BY <1>2, <1>3, FS_Subset, FS_CardinalityType
<1>5. M \in SUBSET Nat /\ \A i \in M : i <= Len(table)
  BY <1>1, <1>2
<1> QED BY <1>1, <1>4, <1>5 DEF M

(* What the first query of a page finds, and how the request goes on. *)
LEMMA GetFinds ==
  ASSUME TypeOK, NEW req, req.page \in Nat, req.perPage \in Nat \ {0}, Get(req),
         NEW found, found = Matching(rows, QueryParams(req))
  PROVE  /\ request' = req
         /\ UNCHANGED <<listing, rows, left, late>>
         /\ \/ /\ step' = "not found" /\ UNCHANGED <<paging, shown>>
               /\ items' = {}
               /\ req.page >= 1 => req.page # 1
                                   /\ Cardinality(found) <= Offset(req.page, req.perPage)
            \/ /\ step' = "counting" /\ UNCHANGED <<paging, shown>>
               /\ req.page >= 1
               /\ items' = First(found, req.page * req.perPage)
                             \ First(found, Offset(req.page, req.perPage))
               /\ req.page = 1 \/ Offset(req.page, req.perPage) < Cardinality(found)
            \/ /\ step' = "answered" /\ req.page = 1
               /\ items' = found /\ First(found, req.perPage) = found
               /\ shown' = [p \in {1} |-> found]
               /\ paging' = [prev |-> NoLink, next |-> NoLink]
<1> DEFINE off == Offset(req.page, req.perPage)
           end == req.page * req.perPage
<1>1. request' = req /\ UNCHANGED <<listing, rows, left, late>>
  BY DEF Get, historyVars
<1>2. /\ found \in SUBSET Nat /\ IsFiniteSet(found) /\ Cardinality(found) \in Nat
      /\ Len(rows) \in Nat /\ \A i \in found : i <= Len(rows)
  BY MatchingRows DEF TypeOK
<1>3. CASE req.page < 1
  <2>1. /\ step' = "not found" /\ UNCHANGED <<paging, shown>>
        /\ items' = {}
    BY <1>3 DEF Get, NotFound
  <2>2. ~(req.page >= 1)
    BY <1>3
  <2> QED BY <1>1, <2>1, <2>2
<1>4. CASE req.page >= 1
  <2>1. /\ off \in Nat /\ end \in Nat /\ end = off + req.perPage
        /\ req.page = 1 => off = 0 /\ end = req.perPage
    BY <1>4, PageEnds
  <2>2. items' = Page(req) /\ ~(req.page < 1)
    BY <1>4 DEF Get
  <2>3. Page(req) = {i \in found : Rank(found, i) \in off..(off + req.perPage - 1)}
    BY DEF Page, Rank
  <2> HIDE DEF off, end
  <2>4. \A i \in found : Rank(found, i) \in Nat /\ Rank(found, i) < Cardinality(found)
    BY <1>2, RankBelowTotal
  <2>5. items' = First(found, end) \ First(found, off)
    <3>1. \A i \in found : Rank(found, i) \in off..(off + req.perPage - 1)
                           <=> Rank(found, i) < end /\ ~(Rank(found, i) < off)
      BY <2>1, <2>4
    <3> QED BY <2>2, <2>3, <3>1 DEF First
  <2>6. ASSUME items' # {}
        PROVE  off < Cardinality(found)
    <3>1. PICK i \in found : Rank(found, i) \in off..(off + req.perPage - 1)
      BY <2>2, <2>3, <2>6
    <3> QED BY <1>2, <2>1, <2>4, <3>1
  <2>7. ASSUME items' = {}
        PROVE  Cardinality(found) <= off
    <3>1. CASE First(found, off) = found
      BY <1>2, <2>1, <3>1, FirstAreFew
    <3>2. CASE First(found, off) # found
      <4>1. PICK i \in found : Rank(found, i) = off
        BY <1>2, <2>1, <3>2, NextAfterFirst
      <4>2. Rank(found, i) \in off..(off + req.perPage - 1)
        BY <2>1, <4>1
      <4> QED BY <2>2, <2>3, <2>7, <4>2
    <3> QED BY <3>1, <3>2
  <2>8. CASE items' = {} /\ req.page # 1
    <3>1. step' = "not found" /\ UNCHANGED <<paging, shown>>
      BY <2>2, <2>8 DEF Get, NotFound
    <3> QED BY <1>1, <2>7, <2>8, <3>1 DEF off
  <2>9. CASE ~(items' = {} /\ req.page # 1) /\ ~(req.page = 1 /\ Cardinality(items') < req.perPage)
    <3>1. step' = "counting" /\ UNCHANGED <<paging, shown>>
      BY <2>2, <2>9 DEF Get
    <3> QED BY <1>1, <1>4, <2>5, <2>6, <2>9, <3>1 DEF off, end
  <2>10. CASE req.page = 1 /\ Cardinality(items') < req.perPage
    <3>1. Answer(req, items', Cardinality(items'))
      BY <2>2, <2>10 DEF Get
    <3>2. First(found, off) = {}
      BY <1>2, <2>1, <2>4, <2>10 DEF First
    <3>3. items' = First(found, req.perPage)
      BY <2>1, <2>5, <2>10, <3>2
    <3>4. First(found, req.perPage) = found /\ Cardinality(found) < req.perPage
      <4>1. CASE First(found, req.perPage) = found
        BY <2>10, <3>3, <4>1
      <4>2. CASE First(found, req.perPage) # found
        <5>1. req.perPage \in Nat
          OBVIOUS
        <5>2. Cardinality(First(found, req.perPage)) = req.perPage
          BY <1>2, <4>2, <5>1, NextAfterFirst
        <5>3. req.perPage < req.perPage
          BY <2>10, <3>3, <5>2
        <5> QED BY <5>1, <5>3
      <4> QED BY <4>1, <4>2
    <3>5. items' = found
      BY <3>3, <3>4
    <3>6. ~HasNext(req, Cardinality(items'))
      <4>1. req.page < Pages(Cardinality(found), req.perPage)
              <=> req.page * req.perPage < Cardinality(found)
        BY <1>2, NextWhenMore
      <4>2. ~(req.page * req.perPage < Cardinality(found))
        BY <1>2, <2>1, <2>10, <3>4 DEF end
      <4> QED BY <3>5, <4>1, <4>2 DEF HasNext
    <3>7. step' = "answered" /\ paging' = [prev |-> NoLink, next |-> NoLink]
      BY <2>10, <3>1, <3>6 DEF Answer
    <3>8. {q \in DOMAIN shown : q < req.page} = {}
      <4>1. \A q \in DOMAIN shown : q \in Nat \ {0}
        BY DEF TypeOK
      <4>2. \A q \in DOMAIN shown : ~(q < 1)
        BY <4>1
      <4> QED BY <2>10, <4>2
    <3>9. shown' = [p \in {1} |-> found]
      BY <2>10, <3>1, <3>5, <3>8 DEF Answer
    <3> QED BY <1>1, <2>10, <3>4, <3>5, <3>7, <3>9
  <2> QED BY <2>8, <2>9, <2>10
<1>5. req.page < 1 \/ req.page >= 1
  OBVIOUS
<1> QED BY <1>3, <1>4, <1>5

(* A request keeps the invariant when it has the filter it should have,    *)
(* what was shown before fits with the rows it asks for, and a page that   *)
(* is asked for on the way exists.                                         *)
LEMMA GetKeeps ==
  ASSUME TypeOK, NEW req, req.page \in Nat, req.perPage \in Nat \ {0}, Get(req),
         NEW found, found = Matching(rows, QueryParams(req)),
         IsFilter(listing, wanted'), QueryParams(req) \in {wanted', Forgotten(wanted')},
         QueryParams(req) = wanted' =>
           /\ ~left => \A p \in DOMAIN shown : 1..p \subseteq DOMAIN shown =>
                First(found, p * req.perPage) \ late \subseteq ShownTo(p)
           /\ late = {} =>
                /\ \A p \in DOMAIN shown :
                     shown[p] \cap found \subseteq First(found, p * req.perPage)
                /\ \A p, q \in DOMAIN shown : p # q => shown[p] \cap shown[q] = {},
         shown # << >> /\ ~left =>
           req.page >= 1
           /\ (req.page = 1 \/ Offset(req.page, req.perPage) < Cardinality(found))
  PROVE  WalkInvariant'
<1> DEFINE off == Offset(req.page, req.perPage)
           end == req.page * req.perPage
           ToNotFound ==
             /\ step' = "not found" /\ shown' = shown
             /\ req.page >= 1 => req.page # 1 /\ Cardinality(found) <= off
           ToCounting ==
             /\ step' = "counting" /\ shown' = shown
             /\ req.page >= 1
             /\ items' = First(found, end) \ First(found, off)
             /\ req.page = 1 \/ off < Cardinality(found)
           ToAnswered ==
             /\ step' = "answered" /\ req.page = 1
             /\ items' = found /\ First(found, req.perPage) = found
             /\ shown' = [p \in {1} |-> found]
             /\ paging' = [prev |-> NoLink, next |-> NoLink]
<1>1. request' = req /\ UNCHANGED <<listing, rows, left, late>>
  BY GetFinds
<1>2. ToNotFound \/ ToCounting \/ ToAnswered
  BY GetFinds
<1>3. /\ found \in SUBSET Nat /\ IsFiniteSet(found) /\ Cardinality(found) \in Nat
  BY MatchingRows DEF TypeOK
<1>4. /\ Current' = found
      /\ QueryParams(request)' = QueryParams(req)
      /\ FilterKept' <=> QueryParams(req) = wanted'
  BY <1>1 DEF Current, QueryParams, FilterKept
<1>5. step' \in {"counting", "answered", "not found"}
  BY <1>2
<1>6. DOMAIN shown \subseteq Nat \ {0}
  BY DEF TypeOK
<1>7. req.page >= 1 => off \in Nat /\ end \in Nat /\ end = off + req.perPage
  BY PageEnds
<1>8. req.page = 1 => off = 0 /\ end = req.perPage
  BY PageEnds
<1> HIDE DEF off, end
<1>9. TypeOK'
  <2>1. DOMAIN shown' \subseteq Nat \ {0}
    <3>1. CASE shown' = shown
      BY <1>6, <3>1
    <3>2. CASE ToAnswered
      <4>1. DOMAIN shown' = {1}
        BY <3>2
      <4> QED BY <4>1
    <3> QED BY <1>2, <3>1, <3>2
  <2>2. listing' \in Listing /\ rows' \in Seq(Row(listing'))
    BY <1>1 DEF TypeOK
  <2>3. request'.page \in Nat /\ request'.perPage \in Nat \ {0}
    BY <1>1
  <2> QED BY <1>5, <2>1, <2>2, <2>3 DEF TypeOK
<1>10. WalkShape'
  <2>1. CASE ToNotFound
    BY <2>1 DEF WalkShape
  <2>2. CASE ToCounting
    BY <1>1, <2>2 DEF WalkShape
  <2>3. CASE ToAnswered
    <3>1. DOMAIN shown' = {1} /\ request'.page = 1
      BY <1>1, <2>3
    <3> QED BY <2>3, <3>1 DEF WalkShape
  <2> QED BY <1>2, <2>1, <2>2, <2>3
<1>11. LinksFit'
  BY <1>1, <1>2 DEF LinksFit
<1>12. FilterFits'
  BY <1>1, <1>4 DEF FilterFits
<1>13. ShownFirst'
  <2>1. SUFFICES ASSUME FilterKept', ~left, NEW p \in DOMAIN shown', 1..p \subseteq DOMAIN shown'
                 PROVE  First(found, p * req.perPage) \ late \subseteq ShownTo(p)'
    BY <1>1, <1>4 DEF ShownFirst
  <2>2. CASE shown' = shown
    <3>1. ShownTo(p)' = ShownTo(p)
      BY <2>2 DEF ShownTo
    <3> QED BY <1>4, <2>1, <2>2, <3>1
  <2>3. CASE ToAnswered
    <3>1. p = 1 /\ shown'[1] = found
      BY <2>1, <2>3
    <3>2. 1 \in 1..p
      BY <3>1
    <3>3. found \subseteq ShownTo(p)'
      BY <3>1, <3>2 DEF ShownTo
    <3> QED BY <3>3 DEF First
  <2> QED BY <1>2, <2>2, <2>3
<1>14. FoundFirst'
  <2>1. SUFFICES ASSUME step' = "counting", FilterKept', ~left,
                        1..(req.page - 1) \subseteq DOMAIN shown'
                 PROVE  First(found, end) \ late \subseteq items' \cup ShownTo(req.page - 1)'
    BY <1>1, <1>4 DEF FoundFirst, end
  <2>2. ToCounting
    BY <1>2, <2>1
  <2>3. First(found, off) \ late \subseteq ShownTo(req.page - 1)'
    <3>1. CASE req.page = 1
      <4>1. \A i \in found : ~(Rank(found, i) < 0)
        BY <1>3, RankBelowTotal
      <4> QED BY <1>8, <3>1, <4>1 DEF First
    <3>2. CASE req.page > 1
      <4>1. req.page - 1 \in 1..(req.page - 1)
        BY <3>2
      <4>2. req.page - 1 \in DOMAIN shown /\ 1..(req.page - 1) \subseteq DOMAIN shown
        BY <2>1, <2>2, <4>1
      <4>3. First(found, (req.page - 1) * req.perPage) \ late \subseteq ShownTo(req.page - 1)
        BY <1>4, <2>1, <4>2
      <4>4. ShownTo(req.page - 1)' = ShownTo(req.page - 1)
        BY <1>1, <2>2 DEF ShownTo
      <4> QED BY <4>3, <4>4 DEF off, Offset
    <3>3. req.page = 1 \/ req.page > 1
      BY <2>2
    <3> QED BY <3>1, <3>2, <3>3
  <2> QED BY <2>2, <2>3
<1>15. ShownStay'
  <2>1. SUFFICES ASSUME FilterKept', late = {}, NEW p \in DOMAIN shown'
                 PROVE  shown'[p] \cap found \subseteq First(found, p * req.perPage)
    BY <1>1, <1>4 DEF ShownStay
  <2>2. CASE shown' = shown
    BY <1>4, <2>1, <2>2
  <2>3. CASE ToAnswered
    <3>1. p = 1 /\ p * req.perPage = req.perPage
      BY <2>1, <2>3
    <3> QED BY <2>3, <3>1
  <2> QED BY <1>2, <2>2, <2>3
<1>16. FoundStay'
  <2>1. SUFFICES ASSUME step' = "counting", FilterKept', late = {}
                 PROVE  /\ items' \cap found \subseteq First(found, end)
                        /\ \A p \in DOMAIN shown' : p < req.page => items' \cap shown'[p] = {}
    BY <1>1, <1>4 DEF FoundStay, end
  <2>2. ToCounting
    BY <1>2, <2>1
  <2>3. ASSUME NEW p \in DOMAIN shown, p < req.page
        PROVE  items' \cap shown[p] = {}
    <3>1. shown[p] \cap found \subseteq First(found, p * req.perPage)
      BY <1>4, <2>1
    <3>2. p \in Nat
      BY <1>6
    <3>3. p * req.perPage \in Nat /\ p * req.perPage <= off
      BY <2>3, <3>2, PageEnds DEF off
    <3>4. First(found, p * req.perPage) \subseteq First(found, off)
      BY <1>3, <1>7, <2>2, <3>3, FirstOfMore
    <3>5. items' \subseteq found
      BY <2>2 DEF First
    <3> QED BY <2>2, <3>1, <3>4, <3>5
  <2> QED BY <2>2, <2>3
<1>17. PageIsThere'
  BY <1>1, <1>2, <1>4 DEF PageIsThere, off
<1>18. NextIsThere'
  BY <1>2 DEF NextIsThere
<1>19. NothingSkipped'
  <2>1. SUFFICES ASSUME step' = "answered", FilterKept'
                 PROVE  Matching(rows', wanted') \subseteq UNION Range(shown')
    BY DEF NothingSkipped
  <2>2. ToAnswered
    BY <1>2, <2>1
  <2>3. Matching(rows', wanted') = found
    BY <1>1, <1>4, <2>1
  <2>4. found \in Range(shown')
    BY <2>2 DEF Range
  <2> QED BY <2>3, <2>4
<1>20. NothingTwice'
  <2>1. SUFFICES ASSUME FilterKept', late = {}, NEW p \in DOMAIN shown', NEW q \in DOMAIN shown',
                        p # q
                 PROVE  shown'[p] \cap shown'[q] = {}
    BY <1>1 DEF NothingTwice
  <2>2. CASE shown' = shown
    BY <1>4, <2>1, <2>2
  <2>3. CASE ToAnswered
    BY <2>1, <2>3
  <2> QED BY <1>2, <2>2, <2>3
<1>21. NoDeadLink'
  <2>1. SUFFICES ASSUME step' = "not found", shown' # << >>, ~left
                 PROVE  FALSE
    BY <1>1 DEF NoDeadLink
  <2>2. ToNotFound
    BY <1>2, <2>1
  <2>3. req.page >= 1 /\ (req.page = 1 \/ off < Cardinality(found))
    BY <2>1, <2>2 DEF off
  <2>4. off < Cardinality(found) /\ Cardinality(found) <= off /\ off \in Nat
    BY <1>7, <2>2, <2>3
  <2> QED BY <1>3, <2>4
<1> QED BY <1>9, <1>10, <1>11, <1>12, <1>13, <1>14, <1>15, <1>16, <1>17, <1>18, <1>19,
           <1>20, <1>21 DEF WalkInvariant

(* The client may begin anywhere: nothing was shown. *)
LEMMA BeginKeeps ==
  ASSUME WalkInvariant, Begin
  PROVE  WalkInvariant'
<1>1. PICK args \in Filters, page \in 0..2, perPage \in PerPage :
        /\ wanted' = ParseArgs(listing, args)
        /\ Get([args |-> args, page |-> page, perPage |-> perPage])
  BY DEF Begin
<1> DEFINE req == [args |-> args, page |-> page, perPage |-> perPage]
           found == Matching(rows, QueryParams(req))
<1>2. req.page \in Nat /\ req.perPage \in Nat \ {0} /\ Get(req)
  BY <1>1 DEF RestAssumption
<1>3. shown = << >> /\ DOMAIN shown = {}
  BY DEF WalkInvariant, WalkShape, Begin
<1>4. listing \in Listing /\ TypeOK
  BY DEF WalkInvariant, TypeOK
<1>5. IsFilter(listing, wanted')
  BY <1>1, <1>4, ParsedIsFilter
<1>6. QueryParams(req) = wanted'
  BY <1>1 DEF QueryParams, Given
<1>7. found = Matching(rows, QueryParams(req))
  OBVIOUS
<1> HIDE DEF req, found
<1> QED BY <1>2, <1>3, <1>4, <1>5, <1>6, <1>7, GetKeeps

(* What a link asks for: the filter without the subscription, and a page   *)
(* that exists unless rows have left.                                      *)
LEMMA LinkAsks ==
  ASSUME WalkInvariant, step = "answered", NEW link \in {paging.next, paging.prev},
         link # NoLink, NEW found, found = Matching(rows, QueryParams(link))
  PROVE  /\ link.page \in Nat \ {0} /\ link.perPage = request.perPage
         /\ request.perPage \in Nat \ {0}
         /\ IsFilter(listing, wanted) /\ QueryParams(link) = Forgotten(wanted)
         /\ Current \subseteq found
         /\ QueryParams(link) = wanted => FilterKept /\ found = Current
         /\ ~left => link.page = 1
                     \/ Offset(link.page, link.perPage) < Cardinality(Current)
<1>1. /\ request.page \in Nat \ {0} /\ request.perPage \in Nat \ {0}
      /\ listing \in Listing
  BY DEF WalkInvariant, TypeOK, WalkShape
<1>2. /\ IsFilter(listing, wanted)
      /\ QueryParams(request) \in {wanted, Forgotten(wanted)}
  BY DEF WalkInvariant, FilterFits
<1>3. \/ link = Link(request, request.page - 1) /\ request.page > 1
      \/ link = Link(request, request.page + 1) /\ link = paging.next
  BY DEF WalkInvariant, LinksFit
<1>4. link.args = QueryParams(request) /\ link.perPage = request.perPage
  BY <1>3 DEF Link
<1>5. QueryParams(link) = Forgotten(wanted)
  <2>1. IsFilter(listing, QueryParams(request))
    BY <1>1, <1>2, ForgottenOnce
  <2>2. QueryParams(link) = ParseArgs(listing, QueryParams(request))
    BY <1>4 DEF QueryParams, Given
  <2>3. QueryParams(link) = Forgotten(QueryParams(request))
    BY <1>1, <2>1, <2>2, LinkForgets
  <2> QED BY <1>1, <1>2, <2>3, ForgottenOnce
<1>6. Current \subseteq found
  BY <1>2, <1>5, ForgottenMatchesMore DEF Current
<1>7. QueryParams(link) = wanted => FilterKept /\ found = Current
  BY <1>2, <1>5 DEF FilterKept, Current
<1>8. link.page \in Nat \ {0}
  BY <1>1, <1>3 DEF Link
<1>9. ASSUME ~left
      PROVE  link.page = 1 \/ Offset(link.page, link.perPage) < Cardinality(Current)
  <2>1. Cardinality(Current) \in Nat
    BY MatchingRows DEF Current, WalkInvariant, TypeOK
  <2>2. CASE link = Link(request, request.page - 1) /\ request.page > 1
    <3>1. link.page = request.page - 1
      BY <2>2 DEF Link
    <3>2. Offset(request.page, request.perPage) < Cardinality(Current)
      BY <1>9, <2>2 DEF WalkInvariant, PageIsThere
    <3>3. /\ Offset(request.page, request.perPage) = link.page * request.perPage
          /\ link.page * request.perPage \in Nat
          /\ link.page * request.perPage
               = Offset(link.page, request.perPage) + request.perPage
          /\ Offset(link.page, request.perPage) \in Nat
      <4>1. Offset(request.page, request.perPage) = link.page * request.perPage
        BY <3>1 DEF Offset
      <4>2. link.page \in Nat /\ link.page >= 1
        BY <1>8
      <4> QED BY <1>1, <4>1, <4>2, PageEnds
    <3> QED BY <1>1, <1>4, <2>1, <3>2, <3>3
  <2>3. CASE link = Link(request, request.page + 1) /\ link = paging.next
    <3>1. link.page = request.page + 1
      BY <2>3 DEF Link
    <3>2. request.page * request.perPage < Cardinality(Current)
      BY <1>9, <2>3 DEF WalkInvariant, NextIsThere
    <3>3. link.page - 1 = request.page
      BY <1>1, <3>1
    <3> QED BY <1>4, <3>2, <3>3 DEF Offset
  <2> QED BY <1>3, <2>2, <2>3
<1> QED BY <1>1, <1>2, <1>4, <1>5, <1>6, <1>7, <1>8, <1>9

LEMMA FollowKeeps ==
  ASSUME WalkInvariant, NEW link \in {paging.next, paging.prev}, Follow(link)
  PROVE  WalkInvariant'
<1> DEFINE found == Matching(rows, QueryParams(link))
<1>1. step = "answered" /\ link # NoLink /\ Get(link) /\ wanted' = wanted /\ TypeOK
  BY DEF Follow, WalkInvariant
<1>2. found = Matching(rows, QueryParams(link))
  OBVIOUS
<1> HIDE DEF found
<1>3. /\ link.page \in Nat /\ link.page >= 1
      /\ link.perPage \in Nat \ {0} /\ link.perPage = request.perPage
      /\ IsFilter(listing, wanted) /\ QueryParams(link) = Forgotten(wanted)
      /\ Current \subseteq found
      /\ QueryParams(link) = wanted => FilterKept /\ found = Current
      /\ ~left => link.page = 1
                  \/ Offset(link.page, link.perPage) < Cardinality(Current)
  BY <1>1, <1>2, LinkAsks
<1>4. /\ IsFiniteSet(found) /\ Cardinality(found) \in Nat
      /\ Cardinality(Current) \in Nat
  BY <1>1, <1>2, MatchingRows DEF Current, TypeOK
<1>5. Cardinality(Current) <= Cardinality(found)
  BY <1>3, <1>4, FS_Subset
<1>6. Offset(link.page, link.perPage) \in Nat
  BY <1>3, PageEnds
<1>7. ~left => link.page = 1 \/ Offset(link.page, link.perPage) < Cardinality(found)
  BY <1>3, <1>4, <1>5, <1>6
<1>8. ASSUME QueryParams(link) = wanted
      PROVE  /\ ~left => \A p \in DOMAIN shown : 1..p \subseteq DOMAIN shown =>
                  First(found, p * link.perPage) \ late \subseteq ShownTo(p)
             /\ late = {} =>
                  /\ \A p \in DOMAIN shown :
                       shown[p] \cap found \subseteq First(found, p * link.perPage)
                  /\ \A p, q \in DOMAIN shown : p # q => shown[p] \cap shown[q] = {}
  BY <1>3, <1>8 DEF WalkInvariant, ShownFirst, ShownStay, NothingTwice
<1> QED BY <1>1, <1>2, <1>3, <1>7, <1>8, GetKeeps

(* The second query: the page that was read is shown, and there is a next  *)
(* one when more rows are counted than up to its end.                      *)
LEMMA CountKeeps ==
  ASSUME WalkInvariant, Count
  PROVE  WalkInvariant'
<1> DEFINE page == request.page
           end == request.page * request.perPage
           Before == {q \in DOMAIN shown : q < request.page}
           total == Cardinality(Current)
<1>1. /\ step = "counting"
      /\ UNCHANGED <<listing, rows, request, items, wanted, left, late>>
      /\ Answer(request, items, total)
  BY DEF Count, historyVars, Current
<1>2. /\ step' = "answered"
      /\ paging' = [prev |-> IF page > 1 THEN Link(request, page - 1) ELSE NoLink,
                    next |-> IF HasNext(request, total) THEN Link(request, page + 1)
                             ELSE NoLink]
      /\ shown' = [p \in Before \cup {page} |-> IF p = page THEN items ELSE shown[p]]
  BY <1>1 DEF Answer
<1>3. /\ page \in Nat \ {0} /\ request.perPage \in Nat \ {0}
      /\ DOMAIN shown \subseteq Nat \ {0} /\ TypeOK
  BY <1>1 DEF WalkInvariant, TypeOK, WalkShape
<1>4. end \in Nat
  BY <1>3, PageEnds
<1>5. /\ Current \in SUBSET Nat /\ IsFiniteSet(Current) /\ total \in Nat
  BY <1>3, MatchingRows DEF TypeOK, Current
<1>6. /\ Current' = Current
      /\ FilterKept' <=> FilterKept
      /\ QueryParams(request)' = QueryParams(request)
  BY <1>1 DEF Current, FilterKept, QueryParams
<1>7. HasNext(request, total) <=> end < total
  BY <1>3, <1>5, NextWhenMore DEF HasNext
<1>8. /\ DOMAIN shown' = Before \cup {page} /\ page \notin Before
      /\ shown'[page] = items
      /\ \A p \in Before : p \in DOMAIN shown /\ p < page /\ shown'[p] = shown[p]
  BY <1>2, <1>3
<1>9. paging'.next = NoLink <=> ~HasNext(request, total)
  <2>1. page + 1 # 0
    BY <1>3
  <2>2. Link(request, page + 1).page = page + 1 /\ NoLink.page = 0
    BY DEF Link, NoLink
  <2>3. Link(request, page + 1) # NoLink
    BY <2>1, <2>2
  <2> HIDE DEF page
  <2> QED BY <1>2, <2>3
<1> HIDE DEF page, end, Before, total
<1>10. TypeOK'
  <2>1. DOMAIN shown' \subseteq Nat \ {0}
    BY <1>3, <1>8
  <2>2. listing' \in Listing /\ rows' \in Seq(Row(listing'))
    BY <1>1, <1>3 DEF TypeOK
  <2>3. request'.page \in Nat /\ request'.perPage \in Nat \ {0}
    BY <1>1, <1>3 DEF page
  <2> QED BY <1>2, <2>1, <2>2, <2>3 DEF TypeOK
<1>11. WalkShape'
  <2>1. request'.page = page /\ page >= 1 /\ page \in DOMAIN shown'
    BY <1>1, <1>3, <1>8 DEF page
  <2> QED BY <1>2, <2>1 DEF WalkShape
<1>12. LinksFit'
  <2>1. /\ Link(request, page - 1)' = Link(request, page - 1)
        /\ Link(request, page + 1)' = Link(request, page + 1)
        /\ request'.page = page
    BY <1>1, <1>6 DEF Link, page
  <2>2. /\ paging'.prev = IF page > 1 THEN Link(request, page - 1) ELSE NoLink
        /\ paging'.next \in {NoLink, Link(request, page + 1)}
    BY <1>2
  <2> QED BY <2>1, <2>2 DEF LinksFit, page
<1>13. FilterFits'
  BY <1>1, <1>6 DEF WalkInvariant, FilterFits
<1>14. ShownFirst'
  <2>1. SUFFICES ASSUME FilterKept, ~left, NEW p \in DOMAIN shown', 1..p \subseteq DOMAIN shown'
                 PROVE  First(Current, p * request.perPage) \ late \subseteq ShownTo(p)'
    BY <1>1, <1>6 DEF ShownFirst
  <2>2. p \in Nat \ {0}
    BY <1>3, <1>8, <2>1
  <2>3. CASE p \in Before
    <3>1. p \in DOMAIN shown /\ p < page
      BY <1>8, <2>3
    <3>2. \A q \in 1..p : q \in Before
      <4>1. \A q \in 1..p : q # page
        BY <1>3, <2>2, <3>1
      <4> QED BY <1>8, <2>1, <4>1
    <3>3. 1..p \subseteq DOMAIN shown /\ \A q \in 1..p : shown'[q] = shown[q]
      BY <1>8, <3>2
    <3>4. ShownTo(p)' = ShownTo(p)
      BY <3>3 DEF ShownTo
    <3> QED BY <2>1, <3>1, <3>3, <3>4 DEF WalkInvariant, ShownFirst
  <2>4. CASE p = page
    <3>1. \A q \in 1..(page - 1) : q \in 1..p /\ q \in Before
      <4>1. \A q \in 1..(page - 1) : q \in 1..page /\ q # page
        BY <1>3
      <4> QED BY <1>8, <2>1, <2>4, <4>1
    <3>2. /\ 1..(page - 1) \subseteq DOMAIN shown
          /\ \A q \in 1..(page - 1) : q \in 1..p /\ shown'[q] = shown[q]
      BY <1>8, <3>1
    <3>3. First(Current, end) \ late \subseteq items \cup ShownTo(page - 1)
      BY <1>1, <2>1, <3>2 DEF WalkInvariant, FoundFirst, page, end
    <3>4. ShownTo(page - 1) \subseteq ShownTo(p)'
      BY <3>2 DEF ShownTo
    <3>5. p \in 1..p
      BY <2>2
    <3>6. items \subseteq ShownTo(p)'
      BY <1>8, <2>4, <3>5 DEF ShownTo
    <3> QED BY <2>4, <3>3, <3>4, <3>6 DEF end, page
  <2> QED BY <1>8, <2>3, <2>4
<1>15. FoundFirst' /\ FoundStay'
  BY <1>2 DEF FoundFirst, FoundStay
<1>16. ShownStay'
  <2>1. SUFFICES ASSUME FilterKept, late = {}, NEW p \in DOMAIN shown'
                 PROVE  shown'[p] \cap Current \subseteq First(Current, p * request.perPage)
    BY <1>1, <1>6 DEF ShownStay
  <2>2. CASE p \in Before
    BY <1>8, <2>1, <2>2 DEF WalkInvariant, ShownStay
  <2>3. CASE p = page
    BY <1>1, <1>8, <2>1, <2>3 DEF WalkInvariant, FoundStay, page
  <2> QED BY <1>8, <2>2, <2>3
<1>17. PageIsThere'
  BY <1>1, <1>6 DEF WalkInvariant, PageIsThere
<1>18. NextIsThere'
  BY <1>1, <1>6, <1>7, <1>9 DEF NextIsThere, end, total
<1>19. NothingSkipped'
  <2>1. SUFFICES ASSUME paging'.next = NoLink, DOMAIN shown' = 1..page, ~left, FilterKept
                 PROVE  Current \ late \subseteq UNION Range(shown')
    BY <1>1, <1>6 DEF NothingSkipped, FilterKept, Current, page
  <2>2. total <= end
    BY <1>4, <1>5, <1>7, <1>9, <2>1
  <2>3. \A i \in Current : Rank(Current, i) \in Nat /\ Rank(Current, i) < total
    BY <1>5, RankBelowTotal DEF total
  <2>4. \A i \in Current : Rank(Current, i) < end
    BY <1>4, <1>5, <2>2, <2>3
  <2>5. Current \subseteq First(Current, end)
    BY <2>4 DEF First
  <2>6. First(Current, end) \ late \subseteq ShownTo(page)'
    BY <1>1, <1>6, <1>8, <1>14, <2>1 DEF ShownFirst, end, page
  <2>7. ShownTo(page)' \subseteq UNION Range(shown')
    BY <1>1, <2>1 DEF ShownTo, Range, page
  <2> QED BY <2>5, <2>6, <2>7
<1>20. NothingTwice'
  <2>1. SUFFICES ASSUME FilterKept, late = {}, NEW p \in DOMAIN shown', NEW q \in DOMAIN shown',
                        p # q
                 PROVE  shown'[p] \cap shown'[q] = {}
    BY <1>1, <1>6 DEF NothingTwice
  <2>2. \A r \in Before : items \cap shown[r] = {}
    BY <1>1, <1>8, <2>1 DEF WalkInvariant, FoundStay, page
  <2>3. CASE p \in Before /\ q \in Before
    BY <1>8, <2>1, <2>3 DEF WalkInvariant, NothingTwice
  <2>4. CASE p = page \/ q = page
    BY <1>8, <2>1, <2>2, <2>4
  <2> QED BY <1>8, <2>3, <2>4
<1>21. NoDeadLink'
  BY <1>2 DEF NoDeadLink
<1> QED BY <1>10, <1>11, <1>12, <1>13, <1>14, <1>15, <1>16, <1>17, <1>18, <1>19, <1>20,
           <1>21 DEF WalkInvariant

-----------------------------------------------------------------------------
(* Changes of the table *)

(* Rows are added to the end. *)
LEMMA InsertWrites ==
  ASSUME TypeOK, NEW new \in Seq(Row(listing)), new # << >>, Insert(new)
  PROVE  rows' \in Seq(Row(listing)) /\ rows' # rows
<1>1. rows \in Seq(Row(listing)) /\ rows' = rows \o new
  BY DEF TypeOK, Insert
<1>2. Len(new) \in Nat \ {0} /\ Len(rows) \in Nat
  BY <1>1, EmptySeq, LenProperties
<1>3. rows' \in Seq(Row(listing)) /\ Len(rows') = Len(rows) + Len(new)
  BY <1>1, ConcatProperties
<1>4. Len(rows') # Len(rows)
  BY <1>2, <1>3
<1> QED BY <1>3, <1>4

(* A column of a row gets another value. *)
LEMMA UpdateWrites ==
  ASSUME TypeOK, NEW i \in DOMAIN rows, NEW col \in DOMAIN rows[i], NEW value,
         [rows[i] EXCEPT ![col] = value] \in Row(listing), rows[i][col] # value,
         Update(i, col, value)
  PROVE  rows' \in Seq(Row(listing)) /\ rows' # rows
<1> DEFINE new == [rows[i] EXCEPT ![col] = value]
<1>1. rows \in Seq(Row(listing)) /\ rows' = [rows EXCEPT ![i] = new]
  BY DEF TypeOK, Update
<1>2. new[col] = value /\ new # rows[i]
  OBVIOUS
<1>3. i \in 1..Len(rows)
  BY <1>1, LenProperties
<1> HIDE DEF new
<1>4. rows' \in Seq(Row(listing))
  BY <1>1, <1>3, ExceptSeq DEF new
<1>5. rows'[i] = new
  BY <1>1
<1> QED BY <1>2, <1>4, <1>5

(* Whatever changes the table is seen by Watch, and does change it. *)
LEMMA WriteIsWatched ==
  ASSUME TypeOK, WriteStep
  PROVE  /\ rows' \in Seq(Row(listing)) /\ rows' # rows
         /\ UNCHANGED <<listing, walkVars>>
         /\ Watch
<1>1. \A k \in Key : /\ listing = "/subscription" => NewSubscription(k) \in Row(listing)
                     /\ listing = "/callback" => NewCallback(k) \in Row(listing)
  BY DEF NewSubscription, NewCallback, Row, State
<1>2. \A e \in Row(listing) : <<e>> \in Seq(Row(listing)) /\ <<e>> # << >>
  OBVIOUS
<1>3. ASSUME NEW i \in DOMAIN rows
      PROVE  rows[i] \in Row(listing)
  BY LenProperties, ElementOfSeq DEF TypeOK
<1>4. CASE PostSubscription
  <2>1. PICK k \in Key : Insert(<<NewSubscription(k)>>)
    BY <1>4 DEF PostSubscription
  <2>2. <<NewSubscription(k)>> \in Seq(Row(listing)) /\ <<NewSubscription(k)>> # << >>
    BY <1>1, <1>2, <1>4 DEF PostSubscription
  <2>3. rows' \in Seq(Row(listing)) /\ rows' # rows
    BY <2>1, <2>2, InsertWrites
  <2> QED BY <2>1, <2>3 DEF Insert
<1>5. CASE InsertCallback
  <2>1. PICK k \in Key : Insert(<<NewCallback(k)>>)
    BY <1>5 DEF InsertCallback
  <2>2. <<NewCallback(k)>> \in Seq(Row(listing)) /\ <<NewCallback(k)>> # << >>
    BY <1>1, <1>2, <1>5 DEF InsertCallback
  <2>3. rows' \in Seq(Row(listing)) /\ rows' # rows
    BY <2>1, <2>2, InsertWrites
  <2> QED BY <2>1, <2>3 DEF Insert
<1>6. CASE TestSubscription
  <2>1. /\ TestKeys \in Seq(Key) /\ Len(TestKeys) \in Nat \ {0}
        /\ DOMAIN TestKeys = 1..Len(TestKeys)
        /\ \A i \in DOMAIN TestKeys : TestKeys[i] \in Key
    BY EmptySeq, LenProperties, ElementOfSeq DEF RestAssumption
  <2>2. CASE listing = "/subscription"
    <3> DEFINE new == [i \in DOMAIN TestKeys |-> NewSubscription(TestKeys[i])]
    <3>1. Insert(new)
      BY <1>6, <2>2 DEF TestSubscription
    <3>2. new \in [1..Len(TestKeys) -> Row(listing)]
      BY <1>1, <2>1, <2>2
    <3>3. new \in Seq(Row(listing)) /\ DOMAIN new = 1..Len(TestKeys)
      BY <2>1, <3>2
    <3>4. 1 \in DOMAIN new
      BY <2>1, <3>3
    <3>5. new # << >>
      BY <3>4
    <3> HIDE DEF new
    <3>6. rows' \in Seq(Row(listing)) /\ rows' # rows
      BY <3>1, <3>3, <3>5, InsertWrites
    <3> QED BY <3>1, <3>6 DEF Insert
  <2>3. CASE listing # "/subscription"
    <3>1. Insert(<<NewCallback(TestKeys[1])>>)
      BY <1>6, <2>3 DEF TestSubscription
    <3>2. TestKeys[1] \in Key /\ listing = "/callback"
      <4>1. 1 \in DOMAIN TestKeys
        BY <2>1
      <4> QED BY <2>1, <2>3, <4>1 DEF TypeOK, Listing
    <3>3. <<NewCallback(TestKeys[1])>> \in Seq(Row(listing))
          /\ <<NewCallback(TestKeys[1])>> # << >>
      BY <1>1, <1>2, <3>2
    <3>4. rows' \in Seq(Row(listing)) /\ rows' # rows
      BY <3>1, <3>3, InsertWrites
    <3> QED BY <3>1, <3>4 DEF Insert
  <2> QED BY <2>2, <2>3
<1>7. ASSUME NEW i \in DOMAIN rows, PatchSubscription(i)
      PROVE  rows' \in Seq(Row(listing)) /\ rows' # rows
  <2>1. /\ rows[i] \in [address : Key, state : State]
        /\ Update(i, "state", "canceled") /\ rows[i].state # "canceled"
    BY <1>3, <1>7 DEF PatchSubscription, Row
  <2>2. [rows[i] EXCEPT !["state"] = "canceled"] \in Row(listing)
    BY <1>7, <2>1 DEF PatchSubscription, Row, State
  <2> QED BY <2>1, <2>2, UpdateWrites
<1>8. ASSUME NEW i \in DOMAIN rows, SaveExpired(i)
      PROVE  rows' \in Seq(Row(listing)) /\ rows' # rows
  <2>1. /\ rows[i] \in [address : Key, state : State]
        /\ Update(i, "state", "expired") /\ rows[i].state # "expired"
    BY <1>3, <1>8 DEF SaveExpired, Row
  <2>2. [rows[i] EXCEPT !["state"] = "expired"] \in Row(listing)
    BY <1>8, <2>1 DEF SaveExpired, Row, State
  <2> QED BY <2>1, <2>2, UpdateWrites
<1>9. ASSUME NEW i \in DOMAIN rows, PatchCallback(i)
      PROVE  rows' \in Seq(Row(listing)) /\ rows' # rows
  <2>1. /\ rows[i] \in [subscription_id : Key, acknowledged : BOOLEAN]
        /\ Update(i, "acknowledged", TRUE) /\ rows[i].acknowledged # TRUE
    BY <1>3, <1>9 DEF PatchCallback, Row
  <2>2. [rows[i] EXCEPT !["acknowledged"] = TRUE] \in Row(listing)
    BY <1>9, <2>1 DEF PatchCallback, Row
  <2> QED BY <2>1, <2>2, UpdateWrites
<1>10. ASSUME NEW i \in DOMAIN rows, PatchSubscription(i) \/ PatchCallback(i) \/ SaveExpired(i)
       PROVE  /\ rows' \in Seq(Row(listing)) /\ rows' # rows
              /\ UNCHANGED <<listing, walkVars>>
              /\ Watch
  BY <1>7, <1>8, <1>9, <1>10 DEF PatchSubscription, PatchCallback, SaveExpired, Update
<1> QED BY <1>4, <1>5, <1>6, <1>10 DEF WriteStep

(* What Watch says of the rows the request asks for. When none has left,   *)
(* those that did not come late were there, and rank no later; when none   *)
(* has come, those that are there were there, and rank no earlier.         *)
LEMMA WatchedRows ==
  ASSUME WalkInvariant, WriteStep, step # "start"
  PROVE  /\ ~left' => /\ ~left /\ Current \subseteq Current'
                      /\ \A n \in Nat :
                           First(Current, n)' \ late' \subseteq First(Current, n) \ late
                      /\ Cardinality(Current) <= Cardinality(Current)'
         /\ Current' \ late' \subseteq Current \ late
         /\ late' = {} => /\ late = {} /\ Current' \subseteq Current
                          /\ \A n \in Nat :
                               First(Current, n) \cap Current' \subseteq First(Current, n)'
         /\ Cardinality(Current) \in Nat /\ Cardinality(Current)' \in Nat
<1>1. /\ rows' \in Seq(Row(listing)) /\ rows \in Seq(Row(listing))
      /\ UNCHANGED <<listing, walkVars>> /\ Watch
  BY WriteIsWatched DEF WalkInvariant, TypeOK
<1>2. UNCHANGED <<listing, request>>
  BY <1>1 DEF walkVars
<1>3. Current' = Matching(rows', QueryParams(request))
  BY <1>2 DEF Current, QueryParams
<1>4. /\ left' = (left \/ Current \ Current' # {})
      /\ late' = late \cup (Current' \ Current)
  BY <1>1, <1>3 DEF Watch, Current
<1>5. /\ Current \in SUBSET Nat /\ IsFiniteSet(Current)
      /\ Cardinality(Current) \in Nat
  BY <1>1, MatchingRows DEF Current
<1>6. /\ Current' \in SUBSET Nat /\ IsFiniteSet(Current') /\ Cardinality(Current') \in Nat
  BY <1>1, <1>3, MatchingRows
<1>7. \A n : First(Current, n)' = First(Current', n)
  BY DEF First, Rank, Newer
<1>8. ASSUME ~left'
      PROVE  /\ ~left /\ Current \subseteq Current'
             /\ \A n \in Nat : First(Current, n)' \ late' \subseteq First(Current, n) \ late
             /\ Cardinality(Current) <= Cardinality(Current)'
  <2>1. ~left /\ Current \subseteq Current'
    BY <1>4, <1>8
  <2>2. \A n \in Nat : First(Current', n) \cap Current \subseteq First(Current, n)
    BY <1>5, <1>6, <2>1, FirstOfLarger
  <2>3. \A n \in Nat : First(Current', n) \subseteq Current'
    BY DEF First
  <2>4. \A n \in Nat : First(Current, n)' \ late' \subseteq First(Current, n) \ late
    BY <1>4, <1>7, <2>2, <2>3
  <2>5. Cardinality(Current) <= Cardinality(Current')
    BY <1>6, <2>1, FS_Subset
  <2> QED BY <2>1, <2>4, <2>5
<1>9. ASSUME late' = {}
      PROVE  /\ late = {} /\ Current' \subseteq Current
             /\ \A n \in Nat : First(Current, n) \cap Current' \subseteq First(Current, n)'
  <2>1. late = {} /\ Current' \subseteq Current
    BY <1>4, <1>9
  <2>2. \A n \in Nat : First(Current, n) \cap Current' \subseteq First(Current', n)
    BY <1>5, <1>6, <2>1, FirstOfLarger
  <2> QED BY <1>7, <2>1, <2>2
<1>10. Current' \ late' \subseteq Current \ late
  BY <1>4
<1> QED BY <1>5, <1>6, <1>8, <1>9, <1>10

LEMMA WriteKeeps ==
  ASSUME WalkInvariant, WriteStep
  PROVE  WalkInvariant'
<1>1. /\ rows' \in Seq(Row(listing))
      /\ UNCHANGED <<listing, step, request, items, paging, wanted, shown>> /\ Watch
  BY WriteIsWatched DEF WalkInvariant, walkVars
<1>2. TypeOK'
  BY <1>1 DEF WalkInvariant, TypeOK
<1>3. LinksFit'
  BY <1>1 DEF WalkInvariant, LinksFit, Link, QueryParams
<1>4. FilterFits'
  BY <1>1 DEF WalkInvariant, FilterFits, QueryParams
<1>5. FilterKept' <=> FilterKept
  BY <1>1 DEF FilterKept, QueryParams
<1>6. CASE step = "start"
  <2>1. shown = << >> /\ DOMAIN shown = {} /\ late' = {} /\ ~left' /\ step' = "start"
        /\ shown' = shown
    <3>1. shown = << >> /\ late = {} /\ ~left
      BY <1>6 DEF WalkInvariant, WalkShape
    <3>2. /\ left' = (left \/ (step # "start" /\ Matching(rows, QueryParams(request))
                                 \ Matching(rows', QueryParams(request)) # {}))
          /\ late' = late
      BY <1>1, <1>6 DEF Watch
    <3>3. ~left' /\ late' = {}
      BY <1>6, <3>1, <3>2
    <3>4. DOMAIN shown = {}
      BY <3>1
    <3> QED BY <1>1, <1>6, <3>1, <3>3, <3>4
  <2>2. WalkShape'
    BY <2>1 DEF WalkShape
  <2>3. ShownFirst' /\ FoundFirst' /\ ShownStay' /\ FoundStay'
    BY <2>1 DEF ShownFirst, FoundFirst, ShownStay, FoundStay
  <2>4. PageIsThere' /\ NextIsThere'
    BY <2>1 DEF PageIsThere, NextIsThere
  <2>5. NothingSkipped' /\ NothingTwice' /\ NoDeadLink'
    BY <2>1 DEF NothingSkipped, NothingTwice, NoDeadLink
  <2> QED BY <1>2, <1>3, <1>4, <2>2, <2>3, <2>4, <2>5 DEF WalkInvariant
<1>7. CASE step # "start"
  <2>1. ~left' => /\ ~left /\ Current \subseteq Current'
                  /\ \A n \in Nat : First(Current, n)' \ late' \subseteq First(Current, n) \ late
                  /\ Cardinality(Current) <= Cardinality(Current)'
    BY <1>7, WatchedRows
  <2>2. late' = {} => /\ late = {} /\ Current' \subseteq Current
                      /\ \A n \in Nat :
                           First(Current, n) \cap Current' \subseteq First(Current, n)'
    BY <1>7, WatchedRows
  <2>3. /\ Current' \ late' \subseteq Current \ late
        /\ Cardinality(Current) \in Nat /\ Cardinality(Current)' \in Nat
    BY <1>7, WatchedRows
  <2>4. /\ request.page \in Nat /\ request.perPage \in Nat \ {0}
        /\ DOMAIN shown \subseteq Nat \ {0}
    BY <1>7 DEF WalkInvariant, TypeOK
  <2>5. /\ \A p \in DOMAIN shown : p * request.perPage \in Nat
        /\ request.page * request.perPage \in Nat
    BY <2>4, PageEnds
  <2>6. WalkShape'
    BY <1>1, <1>7 DEF WalkInvariant, WalkShape
  <2>7. ShownFirst'
    <3>1. SUFFICES ASSUME FilterKept, ~left', NEW p \in DOMAIN shown, 1..p \subseteq DOMAIN shown
                   PROVE  First(Current, p * request.perPage)' \ late' \subseteq ShownTo(p)'
      BY <1>1, <1>5 DEF ShownFirst
    <3>2. First(Current, p * request.perPage) \ late \subseteq ShownTo(p)
      BY <2>1, <3>1 DEF WalkInvariant, ShownFirst
    <3>3. First(Current, p * request.perPage)' = First(Current', p * request.perPage)
          /\ ShownTo(p)' = ShownTo(p)
      BY <1>1 DEF First, Rank, Newer, ShownTo
    <3>4. First(Current', p * request.perPage) \ late'
            \subseteq First(Current, p * request.perPage) \ late
      BY <2>1, <2>5, <3>1 DEF First, Rank, Newer
    <3> QED BY <3>2, <3>3, <3>4
  <2>8. FoundFirst'
    <3>1. SUFFICES ASSUME step = "counting", FilterKept, ~left',
                          1..(request.page - 1) \subseteq DOMAIN shown
                   PROVE  First(Current', request.page * request.perPage) \ late'
                            \subseteq items \cup ShownTo(request.page - 1)
      BY <1>1, <1>5 DEF FoundFirst, First, Rank, Newer, ShownTo
    <3>2. First(Current, request.page * request.perPage) \ late
            \subseteq items \cup ShownTo(request.page - 1)
      BY <2>1, <3>1 DEF WalkInvariant, FoundFirst
    <3>3. First(Current', request.page * request.perPage) \ late'
            \subseteq First(Current, request.page * request.perPage) \ late
      BY <2>1, <2>5, <3>1 DEF First, Rank, Newer
    <3> QED BY <3>2, <3>3
  <2>9. ShownStay'
    <3>1. SUFFICES ASSUME FilterKept, late' = {}, NEW p \in DOMAIN shown
                   PROVE  shown[p] \cap Current' \subseteq First(Current', p * request.perPage)
      BY <1>1, <1>5 DEF ShownStay, First, Rank, Newer
    <3>2. shown[p] \cap Current \subseteq First(Current, p * request.perPage)
      BY <2>2, <3>1 DEF WalkInvariant, ShownStay
    <3>3. First(Current, p * request.perPage) \cap Current'
            \subseteq First(Current', p * request.perPage)
      BY <2>2, <2>5, <3>1 DEF First, Rank, Newer
    <3> QED BY <2>2, <3>1, <3>2, <3>3
  <2>10. FoundStay'
    <3>1. SUFFICES ASSUME step = "counting", FilterKept, late' = {}
                   PROVE  /\ items \cap Current'
                               \subseteq First(Current', request.page * request.perPage)
                          /\ \A p \in DOMAIN shown : p < request.page =>
                               items \cap shown[p] = {}
      BY <1>1, <1>5 DEF FoundStay, First, Rank, Newer
    <3>2. /\ items \cap Current \subseteq First(Current, request.page * request.perPage)
          /\ \A p \in DOMAIN shown : p < request.page => items \cap shown[p] = {}
      BY <2>2, <3>1 DEF WalkInvariant, FoundStay
    <3>3. First(Current, request.page * request.perPage) \cap Current'
            \subseteq First(Current', request.page * request.perPage)
      BY <2>2, <2>5, <3>1 DEF First, Rank, Newer
    <3> QED BY <2>2, <3>1, <3>2, <3>3
  <2>11. PageIsThere'
    <3>1. SUFFICES ASSUME step \in {"counting", "answered"}, ~left', request.page # 1
                   PROVE  Offset(request.page, request.perPage) < Cardinality(Current)'
      BY <1>1 DEF PageIsThere
    <3>2. Offset(request.page, request.perPage) < Cardinality(Current)
      BY <2>1, <3>1 DEF WalkInvariant, PageIsThere
    <3>3. request.page >= 1
      BY <3>1 DEF WalkInvariant, WalkShape
    <3>4. Offset(request.page, request.perPage) \in Nat
      BY <2>4, <3>3, PageEnds
    <3>5. Cardinality(Current) <= Cardinality(Current)'
      BY <2>1, <3>1
    <3> QED BY <2>3, <3>2, <3>4, <3>5
  <2>12. NextIsThere'
    <3>1. SUFFICES ASSUME step = "answered", ~left', paging.next # NoLink
                   PROVE  request.page * request.perPage < Cardinality(Current)'
      BY <1>1 DEF NextIsThere
    <3>2. request.page * request.perPage < Cardinality(Current)
      BY <2>1, <3>1 DEF WalkInvariant, NextIsThere
    <3>3. Cardinality(Current) <= Cardinality(Current)'
      BY <2>1, <3>1
    <3> QED BY <2>3, <2>5, <3>2, <3>3
  <2>13. NothingSkipped'
    <3>1. SUFFICES ASSUME step = "answered", paging.next = NoLink,
                          DOMAIN shown = 1..request.page, ~left', FilterKept
                   PROVE  Current' \ late' \subseteq UNION Range(shown)
      BY <1>1, <1>5 DEF NothingSkipped, FilterKept, Current, QueryParams
    <3>2. Current \ late \subseteq UNION Range(shown)
      BY <2>1, <3>1 DEF WalkInvariant, NothingSkipped, FilterKept, Current
    <3> QED BY <2>3, <3>2
  <2>14. NothingTwice'
    BY <1>1, <1>5, <2>2 DEF WalkInvariant, NothingTwice
  <2>15. NoDeadLink'
    BY <1>1, <2>1 DEF WalkInvariant, NoDeadLink
  <2> QED BY <1>2, <1>3, <1>4, <2>6, <2>7, <2>8, <2>9, <2>10, <2>11, <2>12, <2>13, <2>14,
             <2>15 DEF WalkInvariant
<1> QED BY <1>6, <1>7

-----------------------------------------------------------------------------
(* Theorems *)

(* The invariant holds before the walk, and nothing else disturbs it. *)
LEMMA WalkBegins == Init => WalkInvariant
<1> SUFFICES ASSUME Init
             PROVE  WalkInvariant
  OBVIOUS
<1>1. /\ listing \in Listing /\ rows = << >> /\ step = "start"
      /\ shown = << >> /\ late = {} /\ ~left
  BY DEF Init
<1>2. DOMAIN shown = {}
  BY <1>1
<1>3. rows \in Seq(Row(listing))
  BY <1>1, EmptySeq
<1>4. TypeOK
  BY <1>1, <1>2, <1>3 DEF TypeOK
<1>5. WalkShape /\ LinksFit /\ FilterFits
  BY <1>1 DEF WalkShape, LinksFit, FilterFits
<1>6. ShownFirst /\ FoundFirst /\ ShownStay /\ FoundStay
  BY <1>1, <1>2 DEF ShownFirst, FoundFirst, ShownStay, FoundStay
<1>7. PageIsThere /\ NextIsThere
  BY <1>1 DEF PageIsThere, NextIsThere
<1>8. NothingSkipped /\ NothingTwice /\ NoDeadLink
  BY <1>1, <1>2 DEF NothingSkipped, NothingTwice, NoDeadLink
<1> QED BY <1>4, <1>5, <1>6, <1>7, <1>8 DEF WalkInvariant

LEMMA WalkStutters ==
  ASSUME WalkInvariant, UNCHANGED vars
  PROVE  WalkInvariant'
<1>1. UNCHANGED <<listing, rows, step, request, items, paging, wanted, shown, left, late>>
  BY DEF vars, walkVars, historyVars
<1>2. Current' = Current /\ QueryParams(request)' = QueryParams(request)
      /\ (FilterKept' <=> FilterKept)
  BY <1>1 DEF Current, QueryParams, FilterKept
<1>3. (TypeOK /\ WalkShape /\ LinksFit /\ FilterFits)'
  BY <1>1, <1>2 DEF WalkInvariant, TypeOK, WalkShape, LinksFit, FilterFits, Link
<1>4. (ShownFirst /\ FoundFirst)'
  BY <1>1, <1>2 DEF WalkInvariant, ShownFirst, FoundFirst, First, Rank, Newer, ShownTo
<1>5. (ShownStay /\ FoundStay)'
  BY <1>1, <1>2 DEF WalkInvariant, ShownStay, FoundStay, First, Rank, Newer
<1>6. (PageIsThere /\ NextIsThere)'
  BY <1>1, <1>2 DEF WalkInvariant, PageIsThere, NextIsThere
<1>7. (NothingSkipped /\ NothingTwice /\ NoDeadLink)'
  BY <1>1, <1>2 DEF WalkInvariant, NothingSkipped, NothingTwice, NoDeadLink
<1> QED BY <1>3, <1>4, <1>5, <1>6, <1>7 DEF WalkInvariant

(* The invariant of the walk. *)
THEOREM WalkInvariantHolds == Spec => []WalkInvariant
<1>1. Init => WalkInvariant
  BY WalkBegins
<1>2. WalkInvariant /\ [Next]_vars => WalkInvariant'
  BY BeginKeeps, FollowKeeps, CountKeeps, WriteKeeps, WalkStutters
     DEF Next, FollowNext, FollowPrev
<1> QED BY <1>1, <1>2, PTL DEF Spec

(* The table keeps the shape of its rows, and the request the type of its  *)
(* page and page size.                                                     *)
THEOREM WalkTypeCorrect == Spec => []TypeOK
<1>1. WalkInvariant => TypeOK
  BY DEF WalkInvariant
<1> QED BY <1>1, WalkInvariantHolds, PTL

(* A client that reads all pages sees every row that was there and stays,  *)
(* whatever is inserted on the way and between the two queries of a page.  *)
THEOREM WalkSkipsNothing == Spec => []NothingSkipped
<1>1. WalkInvariant => NothingSkipped
  BY DEF WalkInvariant
<1> QED BY <1>1, WalkInvariantHolds, PTL

(* It sees no row twice when none is inserted. *)
THEOREM WalkRepeatsNothing == Spec => []NothingTwice
<1>1. WalkInvariant => NothingTwice
  BY DEF WalkInvariant
<1> QED BY <1>1, WalkInvariantHolds, PTL

(* A link leads to a page that exists unless rows have left. *)
THEOREM LinksLead == Spec => []NoDeadLink
<1>1. WalkInvariant => NoDeadLink
  BY DEF WalkInvariant
<1> QED BY <1>1, WalkInvariantHolds, PTL

(* A page holds only rows that fit the filter the client began with, but   *)
(* for the subscription that the links forget.                             *)
THEOREM OnlyWantedFound == Spec => OnlyWanted
<1> DEFINE A == step # "counting" /\ rows' = rows
                  => items' \subseteq Matching(rows, Kept(wanted'))
<1>1. WalkInvariant /\ [Next]_vars => [A]_vars
  <2> SUFFICES ASSUME WalkInvariant, Next, step # "counting", rows' = rows
               PROVE  items' \subseteq Matching(rows, Kept(wanted'))
    OBVIOUS
  <2>1. TypeOK
    BY DEF WalkInvariant
  <2>2. CASE Begin
    <3>1. PICK args \in Filters, page \in 0..2, perPage \in PerPage :
            /\ wanted' = ParseArgs(listing, args)
            /\ Get([args |-> args, page |-> page, perPage |-> perPage])
      BY <2>2 DEF Begin
    <3> DEFINE req == [args |-> args, page |-> page, perPage |-> perPage]
    <3>2. QueryParams(req) = wanted'
      BY <3>1 DEF QueryParams, Given
    <3>3. items' \subseteq Matching(rows, QueryParams(req))
      BY <3>1 DEF Get, Page
    <3>4. Kept(wanted') = wanted'
      BY <2>2 DEF WalkInvariant, WalkShape, Begin, Kept
    <3> QED BY <3>2, <3>3, <3>4
  <2>3. ASSUME NEW link \in {paging.next, paging.prev}, Follow(link)
        PROVE  items' \subseteq Matching(rows, Kept(wanted'))
    <3>1. step = "answered" /\ link # NoLink /\ Get(link) /\ wanted' = wanted
      BY <2>3 DEF Follow
    <3>2. QueryParams(link) = Forgotten(wanted)
      BY <3>1, LinkAsks
    <3>3. items' \subseteq Matching(rows, QueryParams(link))
      BY <3>1 DEF Get, Page
    <3>4. shown # << >>
      <4>1. request.page \in DOMAIN shown
        BY <3>1 DEF WalkInvariant, WalkShape
      <4>2. shown = << >> => DOMAIN shown = {}
        OBVIOUS
      <4> QED BY <4>1, <4>2
    <3>5. Kept(wanted') = Forgotten(wanted)
      BY <3>1, <3>4 DEF Kept, Forgotten
    <3> QED BY <3>2, <3>3, <3>5
  <2>4. CASE WriteStep
    BY <2>1, <2>4, WriteIsWatched
  <2>5. CASE Count
    BY <2>5 DEF Count
  <2> QED BY <2>2, <2>3, <2>4, <2>5 DEF Next, FollowNext, FollowPrev
<1> QED BY <1>1, WalkInvariantHolds, PTL DEF Spec, OnlyWanted
=============================================================================
