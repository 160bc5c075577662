------------------------------ MODULE Listings ------------------------------
(***************************************************************************)
(* A list that a client reads page by page while its rows come, go and     *)
(* move.  Each answer takes two queries of their own, one for the rows     *)
(* (offset and limit) and one for their number, and the client asks for as *)
(* many pages as the last answer told him.  Rows whose sort keys are equal *)
(* come in any order, and in another one for the next page.                *)
(***************************************************************************)
EXTENDS Integers, FiniteSets

CONSTANTS
  Entries,          \* rows that may be in the list
  Places,           \* values of the sort key, in the order of the query
  AskedLimits,      \* limits that clients ask for
  DefaultLimit,     \* 20 in the code
  MaxLimit,         \* 100 in the code
  MaxChanges        \* bound: changes of the list during a walk

ASSUME ListingsAssumption ==
  /\ IsFiniteSet(Entries)
  /\ Places \subseteq Int /\ AskedLimits \subseteq Int
  /\ MaxLimit \in Nat \ {0} /\ DefaultLimit \in 1..MaxLimit /\ MaxChanges \in Nat

VARIABLES
  list,             \* what may happen to the rows of the list
  place,            \* the sort keys of the rows that match the query
  changes,          \* rows that came, went or moved so far
  walk,             \* the client's walk through the pages
  seen,             \* rows that he was shown
  twice,            \* some row was on two pages
  stayed,           \* rows that have been in the list since the walk began
  came, went,       \* a row came, or went, since the walk began
  torn,             \* a row came between the two queries of the last answer, the number first
  tied              \* two rows had one sort key when a page was read

listingsVars == <<list, place, changes, walk, seen, twice, stayed, came, went, torn, tied>>
happened == <<seen, twice, stayed, came, went, torn, tied>>

listed == DOMAIN place

Least(a, b) == IF a < b THEN a ELSE b
Most(a, b) == IF a > b THEN a ELSE b

----------------------------------------------------------------------------
(* The lists *)

\* enters: where new rows come in; leaves, moves: whether rows leave the list or
\* change their key; first: the order of the two queries; floors: limits below one
\* become one (or else zero is taken as none given).
Rows(enters, leaves, moves) ==
  [enters |-> enters, leaves |-> leaves, moves |-> moves, rowsFirst |-> FALSE, floors |-> TRUE]

Notifications == Rows("front", TRUE, FALSE)
Messages == Rows("front", FALSE, FALSE)
MyTrips == Rows("any", TRUE, FALSE)
MyShipments == Rows("any", TRUE, FALSE)
TripSearch == [Rows("any", TRUE, TRUE) EXCEPT !.floors = FALSE]
ReviewsOfTarget == [Rows("front", FALSE, FALSE) EXCEPT !.rowsFirst = TRUE]
AdminUsers == Rows("any", TRUE, FALSE)
AdminShipments == Rows("any", TRUE, FALSE)
PendingDocuments == Rows("any", TRUE, TRUE)
ActivityLogs == Rows("front", FALSE, FALSE)
TrustEvents == Rows("any", TRUE, FALSE)
OutboxRows == Rows("any", TRUE, TRUE)

Lists == {Notifications, Messages, MyTrips, MyShipments, TripSearch, ReviewsOfTarget, AdminUsers,
          AdminShipments, PendingDocuments, ActivityLogs, TrustEvents, OutboxRows}

----------------------------------------------------------------------------
(* Pages *)

Normalized(limit) == Least(MaxLimit, Most(1, limit))
\* The limit of the query for rows.
Taken(limit) ==
  IF list.floors \/ limit # 0 THEN Normalized(limit) ELSE DefaultLimit
\* Mutant of Skipped.
SkippedPastFirst(page, limit) == page * limit
Skipped(page, limit) == (page - 1) * limit
TotalPages(total, limit) == (total + limit - 1) \div limit

\* The sets that the first n rows may be.
FirstRows(n) ==
  {S \in SUBSET listed : /\ Cardinality(S) = Least(n, Cardinality(listed))
                         /\ \A e \in S, f \in listed \ S : place[e] <= place[f]}
PagesOf(page, limit) ==
  LET before == Skipped(page, limit)
      cuts == {c \in FirstRows(before) \X FirstRows(before + limit) : c[1] \subseteq c[2]}
  IN {c[2] \ c[1] : c \in cuts}

ListingsTypeOK ==
  /\ list \in Lists /\ listed \subseteq Entries /\ place \in [listed -> Places]
  /\ changes \in 0..MaxChanges
  /\ walk \in [at: {"idle", "asking", "done"}, page: Nat \ {0}, asked: AskedLimits,
               todo: SUBSET {"rows", "total"}, rows: SUBSET Entries,
               total: 0..Cardinality(Entries)]
  /\ Cardinality(walk.rows) <= Most(MaxLimit, DefaultLimit)
  /\ seen \subseteq Entries /\ stayed \subseteq listed
  /\ {twice, came, went, torn, tied} \subseteq BOOLEAN

Asking(page, asked) ==
  [at |-> "asking", page |-> page, asked |-> asked, todo |-> {"rows", "total"},
   rows |-> {}, total |-> 0]

ListingsInit ==
  /\ list \in Lists /\ place \in UNION {[S -> Places] : S \in SUBSET Entries} /\ changes = 0
  /\ walk \in {[Asking(1, asked) EXCEPT !.at = "idle"] : asked \in AskedLimits}
  /\ seen = {} /\ stayed = {}
  /\ twice = FALSE /\ came = FALSE /\ went = FALSE /\ torn = FALSE /\ tied = FALSE

BeginWalk ==
  /\ walk.at = "idle"
  /\ walk' = [walk EXCEPT !.at = "asking"] /\ stayed' = listed
  /\ UNCHANGED <<list, place, changes, seen, twice, came, went, torn, tied>>

QueryRows ==
  /\ walk.at = "asking" /\ "rows" \in walk.todo
  /\ \E rows \in PagesOf(walk.page, Taken(walk.asked)) :
       walk' = [walk EXCEPT !.todo = @ \ {"rows"}, !.rows = rows]
  /\ tied' = (tied \/ \E e, f \in listed : e # f /\ place[e] = place[f])
  /\ UNCHANGED <<list, place, changes, seen, twice, stayed, came, went, torn>>

QueryTotal ==
  /\ walk.at = "asking" /\ "total" \in walk.todo
  /\ list.rowsFirst => "rows" \notin walk.todo
  /\ walk' = [walk EXCEPT !.todo = @ \ {"total"}, !.total = Cardinality(listed)]
  /\ UNCHANGED <<list, place, changes, happened>>

\* The client reads on as long as there are pages.
AnswerPage ==
  /\ walk.at = "asking" /\ walk.todo = {}
  /\ seen' = seen \cup walk.rows
  /\ twice' = (twice \/ walk.rows \cap seen # {})
  /\ IF walk.page < TotalPages(walk.total, Normalized(walk.asked))
       THEN walk' = Asking(walk.page + 1, walk.asked) /\ torn' = FALSE
       ELSE walk' = [walk EXCEPT !.at = "done"] /\ UNCHANGED torn
  /\ UNCHANGED <<list, place, changes, stayed, came, went, tied>>

----------------------------------------------------------------------------
(* The rows *)

MayEnterAt(p) ==
  CASE list.enters = "front" -> \A e \in listed : p <= place[e]
    [] list.enters = "back" -> \A e \in listed : p >= place[e]
    [] OTHER -> TRUE

MayChange == walk.at = "asking" /\ changes < MaxChanges /\ changes' = changes + 1

EnterList(e, p) ==
  /\ MayChange /\ e \notin listed /\ e \notin seen /\ MayEnterAt(p)
  /\ place' = [f \in listed \cup {e} |-> IF f = e THEN p ELSE place[f]]
  /\ came' = TRUE /\ torn' = (torn \/ walk.todo = {"rows"})
  /\ UNCHANGED <<list, walk, seen, twice, stayed, went, tied>>

LeaveList(e) ==
  /\ MayChange /\ list.leaves /\ e \in listed
  /\ place' = [f \in listed \ {e} |-> place[f]] /\ stayed' = stayed \ {e} /\ went' = TRUE
  /\ UNCHANGED <<list, walk, seen, twice, came, torn, tied>>

MoveInList(e, p) ==
  /\ MayChange /\ list.moves /\ e \in listed /\ p # place[e]
  /\ place' = [place EXCEPT ![e] = p]
  /\ came' = TRUE /\ went' = TRUE
  /\ UNCHANGED <<list, walk, seen, twice, stayed, torn, tied>>

ListingsNext ==
  \/ BeginWalk \/ QueryRows \/ QueryTotal \/ AnswerPage
  \/ \E e \in Entries : LeaveList(e) \/ \E p \in Places : EnterList(e, p) \/ MoveInList(e, p)

ListingsSpec == ListingsInit /\ [][ListingsNext]_listingsVars

----------------------------------------------------------------------------
(* Properties *)

\* Who reads all pages is shown every row that was there all the time, though the
\* pages are cut at offsets and new rows shift them.  A row is missed only when
\* another went or moved, when a row came between the two queries of the last
\* answer, or when rows share a sort key.
PagesCoverRows == walk.at = "done" /\ ~went /\ ~torn /\ ~tied => stayed \subseteq seen

\* No row is shown twice unless another came or moved, or rows share a sort key.
NoRowTwice == ~came /\ ~tied => ~twice

\* What the pages of one walk show, taken together, is the list.
PagesMakeList == PagesCoverRows /\ NoRowTwice
=============================================================================
