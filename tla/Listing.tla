-------------------------------- MODULE Listing --------------------------------
(***************************************************************************)
(* GET /api/domains: the table in pages, while domains are created and     *)
(* deleted (Provision).  A page is one SELECT over the rows that match,    *)
(* ordered by (created_at, id), and a second one for their routes.  The    *)
(* client asks again with the cursor it got, or with the next page number, *)
(* until nothing follows.  Iterations only read: one stands for any.       *)
(*                                                                         *)
(* A page is kept as the set of its rows: the order of the answer is that  *)
(* of the SELECT.                                                          *)
(***************************************************************************)
EXTENDS Provision

CONSTANTS
  Times,       \* values of created_at
  PageSizes,   \* page sizes that clients ask for
  Pages,       \* page numbers they start from, 0: none
  Cursors,     \* cursors they start from
  Filters,     \* sets of hostnames that the filter (LIKE) lets through
  NoCursor,    \* no cursor in the request, or in the answer
  BadCursor    \* a cursor that cannot be decoded

ASSUME IdsAssumption     == Ids \subseteq Nat /\ IsFiniteSet(Ids)
ASSUME TimesAssumption   == Times \subseteq Nat
ASSUME SizesAssumption   == PageSizes \subseteq Int
ASSUME PagesAssumption   == Pages \subseteq Nat
ASSUME FiltersAssumption == Filters \subseteq SUBSET Hosts
ASSUME CursorAssumption  ==
  /\ NoCursor \notin Ids /\ BadCursor \notin Ids \cup {NoCursor}
  /\ Cursors \subseteq {NoCursor, BadCursor}

VARIABLES
  created,  \* created_at, taken before the row exists; never changes
  at,       \* "idle", "rows" and "routes": before that SELECT, "answer"
  query,    \* ListDomainRequest; its cursor is the row it was made from
  page,     \* the rows of the answer
  next,     \* nextCursor of the answer
  listed,   \* rows of the answers so far
  stayed    \* matching rows that were there during the whole iteration

iteration == <<at, query, page, next, listed, stayed>>
listVars  == <<vars, created, iteration>>

Query == [size : PageSizes, no : Nat, match : Filters, cursor : Ids \cup {NoCursor, BadCursor}]

ListingTypeOK ==
  /\ TypeOK
  /\ created \in [Ids -> Times]
  /\ at \in {"idle", "rows", "routes", "answer"}
  /\ query \in Query
  /\ page \subseteq Ids /\ listed \subseteq Ids /\ stayed \subseteq Ids
  /\ next \in Ids \cup {NoCursor}

\* The request an iteration begins with.
First == [size : PageSizes, no : Pages, match : Filters, cursor : Cursors]

ListingInit ==
  /\ Init
  /\ created \in [Ids -> Times]
  /\ at = "idle"
  /\ query \in First
  /\ page = {} /\ next = NoCursor /\ listed = {} /\ stayed = {}

\* ORDER BY created_at, id
Before(d, e) == created[d] < created[e] \/ (created[d] = created[e] /\ d < e)

Matching == {d \in Live : rows[d].host \in query.match}

\* LIMIT n
FirstOf(S, n) == {d \in S : Cardinality({e \in S : Before(e, d)}) < n}

\* Mutant: the cursor compares created_at alone.
FromTime(S) ==
  IF query.cursor \in Ids THEN {d \in S : created[query.cursor] < created[d]} ELSE S

\* WHERE (created_at, id) > cursor
FromCursor(S) ==
  IF query.cursor \in Ids THEN {d \in S : Before(query.cursor, d)} ELSE S

\* scopes.Paginate.  A cursor that cannot be decoded drops the limit too.
Paginate(S) ==
  CASE query.size < 0 \/ query.cursor = BadCursor -> S
    [] query.cursor = NoCursor /\ query.no > 0 /\ query.size > 0 ->
         FirstOf(S, query.no * query.size) \ FirstOf(S, (query.no - 1) * query.size)
    [] OTHER ->
         IF query.size > 0 THEN FirstOf(FromCursor(S), query.size) ELSE FromCursor(S)

\* A statement of ListDomains fails: the client gets an error, and asks again.
ListFails == "db" \in faults /\ at' = "rows" /\ page' = {} /\ next' = NoCursor

Begin ==
  /\ at = "idle" /\ at' = "rows"
  /\ stayed' = Matching
  /\ UNCHANGED <<vars, created, query, page, next, listed>>

\* List: the page, and a cursor when it is as long as asked for.
ListRows ==
  /\ at = "rows"
  /\ \/ /\ page' = Paginate(Matching)
        /\ at' = IF page' = {} THEN "answer" ELSE "routes"
        /\ IF query.size > 0 /\ Cardinality(page') = query.size
           THEN next' \in {d \in page' : \A e \in page' : e = d \/ Before(e, d)}
           ELSE next' = NoCursor
     \/ ListFails
  /\ UNCHANGED <<vars, created, query, listed, stayed>>

\* ListRoutesByDomainIDs; the rows may be gone by now.
ListRoutes ==
  /\ at = "routes"
  /\ \/ at' = "answer" /\ UNCHANGED <<page, next>>
     \/ ListFails
  /\ UNCHANGED <<vars, created, query, listed, stayed>>

\* The client asks for what follows, in the way it began.
Follow ==
  /\ at = "answer" /\ next # NoCursor
  /\ at' = "rows"
  /\ query' = IF query.no > 0 /\ query.cursor = NoCursor
              THEN [query EXCEPT !.no = @ + 1] ELSE [query EXCEPT !.cursor = next]
  /\ listed' = listed \cup page
  /\ page' = {} /\ next' = NoCursor
  /\ UNCHANGED <<vars, created, stayed>>

\* Nothing follows.
Leave ==
  /\ at = "answer" /\ next = NoCursor
  /\ at' = "idle"
  /\ query' \in First
  /\ listed' = {} /\ page' = {} /\ stayed' = {}
  /\ UNCHANGED <<vars, created, next>>

-----------------------------------------------------------------------------
\* Domains come and go; what has gone did not stay.
TableStep ==
  /\ Next
  /\ stayed' = stayed \cap Live'
  /\ UNCHANGED <<created, at, query, page, next, listed>>

ListingNext == Begin \/ ListRows \/ ListRoutes \/ Follow \/ Leave \/ TableStep

ListingSpec == ListingInit /\ [][ListingNext]_listVars

-----------------------------------------------------------------------------
(***************************************************************************)
(* Properties                                                              *)
(***************************************************************************)

\* An iteration by cursor lists nothing twice and in order, and misses no domain that
\* was there all the time: although rows appear in front of the cursor and behind it,
\* the row of the cursor is deleted, or several were created in the same instant
\* (scopes/pagination.go:54, repo/domain/list.go:27-40).
ListsEveryone ==
  query.no = 0 =>
    /\ at \in {"routes", "answer"} => \A d \in listed, e \in page : Before(d, e)
    /\ at = "answer" /\ next = NoCursor => stayed \subseteq listed \cup page

\* The same of an iteration by page number, which skips a row when one before it is
\* deleted between two pages.
PagesListEveryone ==
  at = "answer" /\ next = NoCursor => stayed \subseteq listed \cup page

=============================================================================
