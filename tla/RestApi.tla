-------------------------------- MODULE RestApi --------------------------------
(***************************************************************************)
(* The listings of bitcallback/views.py, GET /subscription and GET         *)
(* /callback, and a client that walks through one by its paging links      *)
(* while the table changes under it: by other requests between the pages,  *)
(* and by the bitmon and the delivery process also between the two queries *)
(* that Query.paginate of Flask-SQLAlchemy makes for one page.             *)
(*                                                                         *)
(* Only the table that is listed is modelled. Of a row there are the two   *)
(* columns it can be filtered by: one that stays, the address or the       *)
(* subscription, and one that changes, the state or acknowledged. The      *)
(* index of a row is its place in the order of creation, which is that of  *)
(* the ids of subscriptions and of the time stamps of callbacks.           *)
(***************************************************************************)
EXTENDS Integers, Sequences, FiniteSets, Functions

CONSTANTS
  Key,            \* addresses, or subscriptions
  TestKeys,       \* the addresses used by /test_subscription
  Filters,        \* the filters the client may begin with: see Arguments
  PerPage,        \* the numbers of rows per page it may ask for
  DefaultPerPage, \* DEFAULT_PER_PAGE
  MaxRows         \* bound: the number of rows

ASSUME RestAssumption ==
  /\ TestKeys \in Seq(Key) /\ TestKeys # << >>
  /\ PerPage \subseteq 1..50 /\ DefaultPerPage \in 1..50
  /\ MaxRows \in Nat

VARIABLES
  listing,  \* the resource that is walked through: see Listing
  rows,     \* its table
  step,     \* "start", "counting" between the two queries, "answered", "not found"
  request,  \* the current request: its arguments, page and per_page
  items,    \* what the first query found
  paging,   \* the links of the answer
  wanted,   \* history: the filter the client began with
  shown,    \* history: shown[p] is what page p showed on the way to this page
  left,     \* history: whether a row has left the listing since the walk began
  late      \* history: the rows that have entered it since

walkVars == <<step, request, items, paging, wanted, shown>>
historyVars == <<left, late>>
vars == <<listing, rows, walkVars, historyVars>>

Listing == {"/subscription", "/callback"}

-----------------------------------------------------------------------------
(* Rows and filters *)

State == {"active", "canceled", "expired", "suspended"}

(* The arguments of a listing, and the columns they are parsed into.       *)
Dest(list) ==
  IF list = "/subscription" THEN [address |-> "address", state |-> "state"]
  ELSE [subscription |-> "subscription_id", acknowledged |-> "acknowledged"]

(* The rows as they are created. *)
NewSubscription(k) == [address |-> k, state |-> "active"]
NewCallback(k) == [subscription_id |-> k, acknowledged |-> FALSE]

(* parse_args: arguments it does not know are ignored. *)
ParseArgs(list, args) ==
  LET known == DOMAIN args \cap DOMAIN Dest(list)
  IN  [c \in {Dest(list)[n] : n \in known} |->
         args[CHOOSE n \in known : Dest(list)[n] = c]]

(* The arguments that were given. (Truthy is the mistake of testing the    *)
(* value instead of comparing it with None.)                               *)
Truthy(params) ==
  Restrict(params, {c \in DOMAIN params : c = "acknowledged" => params[c]})
Given(params) == params

(* query_params of the current request. *)
QueryParams(req) == Given(ParseArgs(listing, req.args))

(* filter_by. *)
Matching(table, params) ==
  {i \in DOMAIN table : \A c \in DOMAIN params : table[i][c] = params[c]}

(* order_by: a row comes after those that are newer. *)
Newer(all, i) == {k \in all : k > i}

-----------------------------------------------------------------------------
(* Query.paginate *)

(* The rows before page. (FromZero is the mistake of counting the pages    *)
(* from 0.)                                                                *)
FromZero(page, perPage) == page * perPage
Offset(page, perPage) == (page - 1) * perPage

Page(req) ==
  LET all == Matching(rows, QueryParams(req))
      before == Offset(req.page, req.perPage)
  IN  {i \in all : Cardinality(Newer(all, i)) \in before..(before + req.perPage - 1)}

(* Pagination.has_next. (NotBeyond is an off-by-one.) *)
Pages(total, perPage) == (total + perPage - 1) \div perPage
NotBeyond(req, total) == req.page <= Pages(total, req.perPage)
HasNext(req, total) == req.page < Pages(total, req.perPage)

-----------------------------------------------------------------------------
(* GET *)

NoLink == [args |-> << >>, page |-> 0, perPage |-> 0]

(* build_paginated_url: the arguments of a link are named like the         *)
(* columns. (WithDefault is the mistake of leaving per_page out.)          *)
WithDefault(req, page) ==
  [args |-> QueryParams(req), page |-> page, perPage |-> DefaultPerPage]
Link(req, page) ==
  [args |-> QueryParams(req), page |-> page, perPage |-> req.perPage]

Answer(req, found, total) ==
  /\ step' = "answered"
  /\ paging' = [prev |-> IF req.page > 1 THEN Link(req, req.page - 1) ELSE NoLink,
                next |-> IF HasNext(req, total) THEN Link(req, req.page + 1) ELSE NoLink]
  /\ shown' = [p \in {q \in DOMAIN shown : q < req.page} \cup {req.page} |->
                 IF p = req.page THEN found ELSE shown[p]]

NotFound ==
  /\ step' = "not found"
  /\ UNCHANGED <<paging, shown>>

(* The first query. There is no second one when the first page is not full *)
(* and so has all there is.                                                *)
Get(req) ==
  /\ request' = req
  /\ items' = IF req.page < 1 THEN {} ELSE Page(req)
  /\ IF req.page < 1 \/ (items' = {} /\ req.page # 1) THEN NotFound
     ELSE IF req.page = 1 /\ Cardinality(items') < req.perPage
       THEN Answer(req, items', Cardinality(items'))
     ELSE step' = "counting" /\ UNCHANGED <<paging, shown>>
  /\ UNCHANGED <<listing, rows, historyVars>>

Count ==
  /\ step = "counting"
  /\ Answer(request, items, Cardinality(Matching(rows, QueryParams(request))))
  /\ UNCHANGED <<listing, rows, request, items, wanted, historyVars>>

-----------------------------------------------------------------------------
(* The client *)

(* It may begin anywhere. *)
Begin ==
  /\ step = "start"
  /\ \E args \in Filters, page \in 0..2, perPage \in PerPage :
       /\ DOMAIN args \subseteq DOMAIN Dest(listing)
       /\ wanted' = ParseArgs(listing, args)
       /\ Get([args |-> args, page |-> page, perPage |-> perPage])

Follow(link) ==
  /\ step = "answered"
  /\ link # NoLink
  /\ Get(link)
  /\ UNCHANGED wanted

FollowNext == Follow(paging.next)
FollowPrev == Follow(paging.prev)

-----------------------------------------------------------------------------
(* What changes the table *)

(* What a step does to the listing as the client sees it. *)
Watch ==
  LET before == Matching(rows, QueryParams(request))
      after == Matching(rows', QueryParams(request))
  IN  /\ left' = (left \/ (step # "start" /\ before \ after # {}))
      /\ late' = late \cup (IF step = "start" THEN {} ELSE after \ before)

Insert(new) ==
  /\ Len(rows) + Len(new) <= MaxRows
  /\ rows' = rows \o new
  /\ Watch
  /\ UNCHANGED <<listing, walkVars>>

Update(i, col, value) ==
  /\ rows' = [rows EXCEPT ![i][col] = value]
  /\ Watch
  /\ UNCHANGED <<listing, walkVars>>

(* Other requests are served before or after this one. *)
BetweenRequests == step # "counting"

(* The commit of POST /subscription, and that of /test_callback, whose     *)
(* callback is inserted by the delivery process.                           *)
PostSubscription ==
  /\ listing = "/subscription" /\ BetweenRequests
  /\ \E k \in Key : Insert(<<NewSubscription(k)>>)

(* /test_subscription: three subscriptions, and a callback for the first.  *)
TestSubscription ==
  /\ BetweenRequests
  /\ IF listing = "/subscription"
     THEN Insert([i \in DOMAIN TestKeys |-> NewSubscription(TestKeys[i])])
     ELSE Insert(<<NewCallback(TestKeys[1])>>)

PatchSubscription(i) ==
  /\ listing = "/subscription" /\ BetweenRequests
  /\ rows[i].state # "canceled"
  /\ Update(i, "state", "canceled")

PatchCallback(i) ==
  /\ listing = "/callback" /\ BetweenRequests
  /\ ~rows[i].acknowledged
  /\ Update(i, "acknowledged", TRUE)

(* The bitmon process. *)
SaveExpired(i) ==
  /\ listing = "/subscription"
  /\ rows[i].state # "expired"
  /\ Update(i, "state", "expired")

(* The delivery process. *)
InsertCallback ==
  /\ listing = "/callback"
  /\ \E k \in Key : Insert(<<NewCallback(k)>>)

-----------------------------------------------------------------------------
(* The specification *)

Init ==
  /\ listing \in Listing
  /\ rows = << >>
  /\ step = "start"
  /\ request = NoLink /\ items = {} /\ paging = [prev |-> NoLink, next |-> NoLink]
  /\ wanted = << >> /\ shown = << >>
  /\ left = FALSE /\ late = {}

WriteStep ==
  \/ PostSubscription \/ TestSubscription \/ InsertCallback
  \/ \E i \in DOMAIN rows : PatchSubscription(i) \/ PatchCallback(i) \/ SaveExpired(i)

Next == Begin \/ FollowNext \/ FollowPrev \/ Count \/ WriteStep

Spec == Init /\ [][Next]_vars

-----------------------------------------------------------------------------
(* Properties *)

(* Whether the links followed so far have kept the filter. One of a        *)
(* callback listing names the column, subscription_id, and the parser      *)
(* knows the argument as subscription.                                     *)
FilterKept == QueryParams(request) = wanted

(* Nothing is skipped. When the client has read all pages up to the last,  *)
(* turning back in between or not, it was shown every row that matches and *)
(* was there when it began, although rows are inserted meanwhile, and are  *)
(* counted after they are read. Only a row that leaves the listing moves   *)
(* another to a page that was read before.                                 *)
NothingSkipped ==
  step = "answered" /\ paging.next = NoLink /\ DOMAIN shown = 1..request.page
    /\ ~left /\ FilterKept
  => Matching(rows, wanted) \ late \subseteq UNION Range(shown)

(* No row is shown on two pages of a walk unless a row has entered the     *)
(* listing.                                                                *)
NothingTwice ==
  late = {} /\ FilterKept =>
    \A p, q \in DOMAIN shown : p # q => shown[p] \cap shown[q] = {}

(* A link does not lead to "Not found", unless a row has left the listing. *)
NoDeadLink ==
  step = "not found" /\ shown # << >> => left

(* Whatever page a link leads to, the rows found are those the client      *)
(* asked for, except that it forgets for which subscription.               *)
Kept(filter) ==
  IF shown = << >> THEN filter
  ELSE Restrict(filter, DOMAIN filter \ {"subscription_id"})

OnlyWanted ==
  [][step # "counting" /\ rows' = rows
       => items' \subseteq Matching(rows, Kept(wanted'))]_vars

=============================================================================
