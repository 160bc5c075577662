--------------------------- MODULE ListingsProofs ----------------------------
(***************************************************************************)
(* Theorems about a list that is read page by page, for any rows, sort     *)
(* keys, limits and number of changes.  They rest on the rank of a row,    *)
(* the number of rows before it: a page shows the ranks from its offset to *)
(* its end, a row that leaves can only lower the ranks of the others, and  *)
(* a row that comes in can only raise them.                                *)
(***************************************************************************)
EXTENDS Listings, FiniteSetTheorems, TLAPS

WalkRecords ==
  [at: {"idle", "asking", "done"}, page: Nat \ {0}, asked: AskedLimits,
   todo: SUBSET {"rows", "total"}, rows: SUBSET Entries, total: 0..Cardinality(Entries)]

Limit == Taken(walk.asked)
Start == Skipped(walk.page, Limit)
End == Start + Limit
Before(e) == {f \in listed : place[f] < place[e]}
Rank(e) == Cardinality(Before(e))

WalkSound ==
  /\ walk.at = "idle" => /\ walk.page = 1 /\ walk.todo = {"rows", "total"}
                         /\ seen = {} /\ stayed = {}
  /\ walk.at = "done" => walk.todo = {}

\* Unless a row came or two rows share a key, what was shown lies before the next page.
ShownOnce ==
  ~came /\ ~tied =>
    /\ ~twice
    /\ "rows" \in walk.todo => \A e \in seen \cap listed : Rank(e) < Start
    /\ walk.at = "asking" /\ "rows" \notin walk.todo =>
         /\ walk.rows \cap seen = {}
         /\ \A e \in (seen \cup walk.rows) \cap listed : Rank(e) < End

\* Unless a row went or two rows share a key, a row that stayed and was not shown yet lies
\* past the pages so far, and then the number of rows tells of it.
NoneSkipped ==
  ~went /\ ~tied =>
    /\ "rows" \in walk.todo => \A e \in stayed : e \in seen \/ Rank(e) >= Start
    /\ walk.at = "asking" /\ "rows" \notin walk.todo =>
         \A e \in stayed : e \in seen \cup walk.rows \/ Rank(e) >= End
    /\ walk.todo = {"rows"} /\ ~torn => walk.total = Cardinality(listed)
    /\ walk.at = "asking" /\ walk.todo = {} /\ ~torn =>
         \A e \in stayed : e \in seen \cup walk.rows \/ walk.total > End
    /\ walk.at = "done" /\ ~torn => stayed \subseteq seen

ListingsInv == ListingsTypeOK /\ WalkSound /\ ShownOnce /\ NoneSkipped

----------------------------------------------------------------------------
(* Ranks and pages                                                         *)

LEMMA ListedFinite ==
  ASSUME ListingsTypeOK
  PROVE  /\ IsFiniteSet(listed) /\ Cardinality(listed) \in Nat
         /\ Cardinality(listed) <= Cardinality(Entries)
         /\ \A e \in listed : place[e] \in Int
<1>1. IsFiniteSet(Entries) /\ listed \subseteq Entries /\ place \in [listed -> Places]
  BY ListingsAssumption DEF ListingsTypeOK
<1>2. IsFiniteSet(listed) /\ Cardinality(listed) <= Cardinality(Entries)
  BY <1>1, FS_Subset
<1>3. QED
  BY <1>1, <1>2, FS_CardinalityType, ListingsAssumption

\* A rank is a number below that of the rows.
LEMMA RankBounds ==
  ASSUME ListingsTypeOK, NEW e \in listed
  PROVE  /\ IsFiniteSet(Before(e)) /\ Rank(e) \in Nat /\ Rank(e) < Cardinality(listed)
<1>1. IsFiniteSet(listed) /\ \A f \in listed : place[f] \in Int
  BY ListedFinite
<1>2. Before(e) \subseteq listed /\ e \notin Before(e)
  BY <1>1 DEF Before
<1>3. IsFiniteSet(Before(e)) /\ Cardinality(Before(e)) <= Cardinality(listed)
      /\ Cardinality(Before(e)) # Cardinality(listed)
  BY <1>1, <1>2, FS_Subset
<1>4. QED
  BY <1>1, <1>3, FS_CardinalityType DEF Rank

\* The first rows have the lowest ranks.
LEMMA FirstRanks ==
  ASSUME ListingsTypeOK, NEW n \in Nat, NEW S \in FirstRows(n)
  PROVE  /\ S \subseteq listed /\ IsFiniteSet(S)
         /\ Cardinality(S) = Least(n, Cardinality(listed))
         /\ \A e \in S : Rank(e) < n
<1>1. S \subseteq listed /\ Cardinality(S) = Least(n, Cardinality(listed))
      /\ \A e \in S, f \in listed \ S : place[e] <= place[f]
  BY DEF FirstRows
<1>2. IsFiniteSet(listed) /\ \A f \in listed : place[f] \in Int
  BY ListedFinite
<1>3. IsFiniteSet(S)
  BY <1>1, <1>2, FS_Subset
<1>4. ASSUME NEW e \in S
      PROVE  Rank(e) < n
  <2>1. Before(e) \subseteq S /\ e \notin Before(e) /\ e \in S
    BY <1>1, <1>2 DEF Before
  <2>2. Cardinality(Before(e)) <= Cardinality(S) /\ Cardinality(Before(e)) # Cardinality(S)
    BY <1>3, <2>1, FS_Subset
  <2>3. Cardinality(Before(e)) \in Nat /\ Cardinality(S) \in Nat /\ Cardinality(listed) \in Nat
    BY <1>1, <1>2, <1>3, <2>1, FS_Subset, FS_CardinalityType
  <2>4. QED
    BY <1>1, <2>2, <2>3 DEF Rank, Least
<1>5. QED
  BY <1>1, <1>3, <1>4

\* When no two rows share a key, the others come after them.
LEMMA LaterRanks ==
  ASSUME ListingsTypeOK, NEW n \in Nat, NEW S \in FirstRows(n),
         \A e, f \in listed : e # f => place[e] # place[f]
  PROVE  \A e \in listed \ S : Rank(e) >= n
<1> SUFFICES ASSUME NEW e \in listed \ S PROVE Rank(e) >= n
  OBVIOUS
<1>1. S \subseteq listed /\ Cardinality(S) = Least(n, Cardinality(listed))
      /\ \A f \in S, g \in listed \ S : place[f] <= place[g]
  BY DEF FirstRows
<1>2. IsFiniteSet(listed) /\ \A f \in listed : place[f] \in Int
  BY ListedFinite
<1>3. S \subseteq Before(e)
  BY <1>1, <1>2 DEF Before
<1>4. IsFiniteSet(Before(e)) /\ Rank(e) \in Nat
  BY RankBounds
<1>5. Cardinality(S) <= Cardinality(Before(e))
  BY <1>3, <1>4, FS_Subset
<1>6. IsFiniteSet(S) /\ Cardinality(S) # Cardinality(listed) /\ Cardinality(S) \in Nat
      /\ Cardinality(listed) \in Nat
  BY <1>1, <1>2, FS_Subset, FS_CardinalityType
<1>7. Cardinality(S) = n
  BY <1>1, <1>6 DEF Least
<1>8. QED
  BY <1>4, <1>5, <1>7 DEF Rank

LEMMA LimitBounds ==
  ASSUME ListingsTypeOK
  PROVE  /\ Limit \in 1..MaxLimit /\ Normalized(walk.asked) \in 1..MaxLimit
         /\ Normalized(walk.asked) <= Limit
         /\ Start \in Nat /\ End \in Nat /\ End = walk.page * Limit
<1>1. walk.asked \in Int /\ walk.page \in Nat \ {0}
      /\ MaxLimit \in Nat \ {0} /\ DefaultLimit \in 1..MaxLimit
  BY ListingsAssumption DEF ListingsTypeOK
<1>2. Normalized(walk.asked) \in 1..MaxLimit
  BY <1>1 DEF Normalized, Least, Most
<1>3. Limit \in 1..MaxLimit /\ Normalized(walk.asked) <= Limit
  BY <1>1, <1>2 DEF Limit, Taken, Normalized, Least, Most
<1>4. \A p \in Nat \ {0}, l \in Nat : (p - 1) * l \in Nat /\ (p - 1) * l + l = p * l /\ p * l \in Nat
  OBVIOUS
<1>5. QED
  BY <1>1, <1>2, <1>3, <1>4 DEF Start, End, Skipped

\* A page shows the ranks from its offset to its end.
LEMMA PageRanks ==
  ASSUME ListingsTypeOK, NEW rows \in PagesOf(walk.page, Limit)
  PROVE  /\ rows \subseteq listed /\ IsFiniteSet(rows) /\ Cardinality(rows) <= MaxLimit
         /\ \A e \in rows : Rank(e) < End
         /\ (\A e, f \in listed : e # f => place[e] # place[f]) =>
              /\ \A e \in rows : Rank(e) >= Start
              /\ \A e \in listed \ rows : Rank(e) < Start \/ Rank(e) >= End
<1>1. PICK first \in FirstRows(Start), last \in FirstRows(End) : first \subseteq last /\ rows = last \ first
  BY DEF PagesOf, Start, End
<1>2. Start \in Nat /\ End \in Nat /\ Limit \in 1..MaxLimit /\ End = Start + Limit /\ MaxLimit \in Nat
  BY LimitBounds, ListingsAssumption DEF End
<1>3. /\ first \subseteq listed /\ IsFiniteSet(first) /\ Cardinality(first) = Least(Start, Cardinality(listed))
      /\ \A e \in first : Rank(e) < Start
  BY <1>2, FirstRanks
<1>4. /\ last \subseteq listed /\ IsFiniteSet(last) /\ Cardinality(last) = Least(End, Cardinality(listed))
      /\ \A e \in last : Rank(e) < End
  BY <1>2, FirstRanks
<1>5. IsFiniteSet(rows) /\ Cardinality(rows) = Cardinality(last) - Cardinality(first)
  <2>1. last \cap first = first
    BY <1>1
  <2>2. QED
    BY <1>1, <1>3, <1>4, <2>1, FS_Difference
<1>6. Cardinality(rows) <= MaxLimit
  BY <1>2, <1>3, <1>4, <1>5, ListedFinite DEF Least
<1>7. ASSUME \A e, f \in listed : e # f => place[e] # place[f]
      PROVE  /\ \A e \in listed \ first : Rank(e) >= Start
             /\ \A e \in listed \ last : Rank(e) >= End
  BY <1>2, <1>7, LaterRanks
<1>8. QED
  BY <1>1, <1>3, <1>4, <1>5, <1>6, <1>7

----------------------------------------------------------------------------
(* The invariant                                                           *)

LEMMA ListingsStart == ListingsInit => ListingsInv
<1> SUFFICES ASSUME ListingsInit PROVE ListingsInv
  OBVIOUS
<1>1. PICK S \in SUBSET Entries : place \in [S -> Places]
  BY DEF ListingsInit
<1>2. PICK asked \in AskedLimits : walk = [Asking(1, asked) EXCEPT !.at = "idle"]
  BY DEF ListingsInit
<1>3. Cardinality(Entries) \in Nat /\ Cardinality({}) = 0
  BY ListingsAssumption, FS_CardinalityType, FS_EmptySet
<1>4. walk = [at |-> "idle", page |-> 1, asked |-> asked, todo |-> {"rows", "total"},
              rows |-> {}, total |-> 0]
  BY <1>2 DEF Asking
<1>5. list \in Lists /\ changes = 0 /\ seen = {} /\ stayed = {}
      /\ twice = FALSE /\ came = FALSE /\ went = FALSE /\ torn = FALSE /\ tied = FALSE
  BY DEF ListingsInit
<1>6. ListingsTypeOK
  <2>1. walk \in WalkRecords
    BY <1>3, <1>4 DEF WalkRecords
  <2>2. Cardinality(walk.rows) <= Most(MaxLimit, DefaultLimit)
    BY <1>3, <1>4, ListingsAssumption DEF Most
  <2>3. list \in Lists /\ listed \subseteq Entries /\ place \in [listed -> Places]
        /\ changes \in 0..MaxChanges
    BY <1>1, <1>5, ListingsAssumption DEF listed
  <2>4. seen \subseteq Entries /\ stayed \subseteq listed
        /\ {twice, came, went, torn, tied} \subseteq BOOLEAN
    BY <1>5
  <2>5. QED
    BY <2>1, <2>2, <2>3, <2>4 DEF ListingsTypeOK, WalkRecords
<1>7. WalkSound
  BY <1>4, <1>5 DEF WalkSound
<1>8. ShownOnce /\ NoneSkipped
  BY <1>4, <1>5 DEF ShownOnce, NoneSkipped
<1>9. QED
  BY <1>6, <1>7, <1>8 DEF ListingsInv

\* Ranks are those of the rows, and offsets those of the walk.
LEMMA RanksKept ==
  ASSUME UNCHANGED place
  PROVE  listed' = listed /\ \A e : Rank(e)' = Rank(e)
<1>1. listed' = listed
  BY DEF listed
<1>2. ASSUME NEW e PROVE Rank(e)' = Rank(e)
  BY <1>1 DEF Rank, Before
<1>3. QED
  BY <1>1, <1>2

LEMMA PagesKept ==
  ASSUME UNCHANGED list, walk'.page = walk.page, walk'.asked = walk.asked
  PROVE  Limit' = Limit /\ Start' = Start /\ End' = End
BY DEF Limit, Start, End, Taken

LEMMA BeginWalkKeeps == ListingsInv /\ BeginWalk => ListingsInv'
<1> SUFFICES ASSUME ListingsInv, BeginWalk PROVE ListingsInv'
  OBVIOUS
<1>1. /\ walk.at = "idle" /\ walk.page = 1 /\ walk.todo = {"rows", "total"} /\ seen = {}
      /\ walk' = [walk EXCEPT !.at = "asking"] /\ stayed' = listed
      /\ UNCHANGED <<list, place, changes, seen, twice, came, went, torn, tied>>
  BY DEF BeginWalk, ListingsInv, WalkSound
<1>2. ListingsTypeOK /\ walk \in WalkRecords
  BY DEF ListingsInv, ListingsTypeOK, WalkRecords
<1>3. /\ walk' \in WalkRecords
      /\ walk'.at = "asking" /\ walk'.page = 1 /\ walk'.todo = {"rows", "total"}
      /\ walk'.asked = walk.asked /\ walk'.rows = walk.rows
  BY <1>1, <1>2 DEF WalkRecords
<1>4. listed' = listed /\ \A e : Rank(e)' = Rank(e)
  BY <1>1, RanksKept
<1>5. Start' = 0
  <2>1. Limit' \in Int
    BY <1>1, <1>2, <1>3, PagesKept, LimitBounds
  <2>2. \A n \in Int : (1 - 1) * n = 0
    OBVIOUS
  <2>3. QED
    BY <1>3, <2>1, <2>2 DEF Start, Skipped
<1>6. ListingsTypeOK'
  BY <1>1, <1>2, <1>3, <1>4 DEF ListingsTypeOK, WalkRecords
<1>7. WalkSound'
  BY <1>3 DEF WalkSound
<1>8. ShownOnce'
  BY <1>1, <1>3 DEF ListingsInv, ShownOnce
<1>9. NoneSkipped'
  <2>1. \A e \in listed : Rank(e) >= 0
    BY <1>2, RankBounds
  <2>2. QED
    BY <1>1, <1>3, <1>4, <1>5, <2>1 DEF NoneSkipped
<1>10. QED
  BY <1>6, <1>7, <1>8, <1>9 DEF ListingsInv

LEMMA QueryRowsKeeps == ListingsInv /\ QueryRows => ListingsInv'
<1> SUFFICES ASSUME ListingsInv, QueryRows PROVE ListingsInv'
  OBVIOUS
<1>1. /\ walk.at = "asking" /\ "rows" \in walk.todo
      /\ tied' = (tied \/ \E e, f \in listed : e # f /\ place[e] = place[f])
      /\ UNCHANGED <<list, place, changes, seen, twice, stayed, came, went, torn>>
  BY DEF QueryRows
<1>2. PICK rows \in PagesOf(walk.page, Limit) :
        walk' = [walk EXCEPT !.todo = @ \ {"rows"}, !.rows = rows]
  BY DEF QueryRows, Limit
<1>3. ListingsTypeOK /\ walk \in WalkRecords
  BY DEF ListingsInv, ListingsTypeOK, WalkRecords
<1>4. /\ rows \subseteq listed /\ IsFiniteSet(rows) /\ Cardinality(rows) <= MaxLimit
      /\ \A e \in rows : Rank(e) < End
      /\ (\A e, f \in listed : e # f => place[e] # place[f]) =>
           /\ \A e \in rows : Rank(e) >= Start
           /\ \A e \in listed \ rows : Rank(e) < Start \/ Rank(e) >= End
  BY <1>3, PageRanks
<1>5. listed \subseteq Entries
  BY <1>3 DEF ListingsTypeOK
<1>6. /\ walk' \in WalkRecords
      /\ walk'.at = "asking" /\ walk'.page = walk.page /\ walk'.asked = walk.asked
      /\ walk'.todo = walk.todo \ {"rows"} /\ walk'.rows = rows /\ walk'.total = walk.total
  BY <1>1, <1>2, <1>3, <1>4, <1>5 DEF WalkRecords
<1>7. listed' = listed /\ (\A e : Rank(e)' = Rank(e))
      /\ Limit' = Limit /\ Start' = Start /\ End' = End
  BY <1>1, <1>6, RanksKept, PagesKept
<1>8. ListingsTypeOK'
  <2>1. Cardinality(walk'.rows) <= Most(MaxLimit, DefaultLimit)
    <3>1. Cardinality(rows) \in Nat
      BY <1>4, FS_CardinalityType
    <3>2. QED
      BY <1>4, <1>6, <3>1, ListingsAssumption DEF Most
  <2>2. tied' \in BOOLEAN
    BY <1>1, <1>3 DEF ListingsTypeOK
  <2>3. QED
    BY <1>1, <1>3, <1>6, <1>7, <2>1, <2>2 DEF ListingsTypeOK, WalkRecords
<1>9. WalkSound'
  BY <1>6 DEF WalkSound
<1>10. Start \in Nat /\ End \in Nat /\ Start <= End /\ \A e \in listed : Rank(e) \in Nat /\ Rank(e) < Cardinality(listed)
  BY <1>3, LimitBounds, RankBounds DEF End
<1>11. ~tied' => ~tied /\ \A e, f \in listed : e # f => place[e] # place[f]
  BY <1>1
<1>12. ShownOnce'
  <2> SUFFICES ASSUME ~came, ~tied'
               PROVE  ~twice /\ rows \cap seen = {}
                      /\ \A e \in (seen \cup rows) \cap listed : Rank(e) < End
    BY <1>1, <1>6, <1>7 DEF ShownOnce
  <2>1. ~twice /\ \A e \in seen \cap listed : Rank(e) < Start
    BY <1>1, <1>11 DEF ListingsInv, ShownOnce
  <2>2. rows \cap seen = {}
    BY <1>4, <1>10, <1>11, <2>1
  <2>3. QED
    BY <1>4, <1>10, <2>1, <2>2
<1>13. NoneSkipped'
  <2> SUFFICES ASSUME ~went, ~tied'
               PROVE  /\ \A e \in stayed : e \in seen \cup rows \/ Rank(e) >= End
                      /\ walk.todo \ {"rows"} = {} /\ ~torn =>
                           \A e \in stayed : e \in seen \cup rows \/ walk.total > End
    BY <1>1, <1>6, <1>7 DEF NoneSkipped
  <2>1. \A e \in stayed : e \in seen \/ Rank(e) >= Start
    BY <1>1, <1>11 DEF ListingsInv, NoneSkipped
  <2>2. stayed \subseteq listed
    BY <1>3 DEF ListingsTypeOK
  <2>3. \A e \in stayed : e \in seen \cup rows \/ Rank(e) >= End
    BY <1>4, <1>10, <1>11, <2>1, <2>2
  <2>4. ASSUME walk.todo \ {"rows"} = {}, ~torn PROVE walk.total = Cardinality(listed)
    <3>1. walk.todo = {"rows"}
      BY <1>1, <2>4
    <3>2. QED
      BY <1>11, <2>4, <3>1 DEF ListingsInv, NoneSkipped
  <2>5. Cardinality(listed) \in Nat
    BY <1>3, ListedFinite
  <2>6. QED
    BY <1>10, <2>2, <2>3, <2>4, <2>5
<1>14. QED
  BY <1>8, <1>9, <1>12, <1>13 DEF ListingsInv

LEMMA QueryTotalKeeps == ListingsInv /\ QueryTotal => ListingsInv'
<1> SUFFICES ASSUME ListingsInv, QueryTotal PROVE ListingsInv'
  OBVIOUS
<1>1. /\ walk.at = "asking" /\ "total" \in walk.todo
      /\ walk' = [walk EXCEPT !.todo = @ \ {"total"}, !.total = Cardinality(listed)]
      /\ UNCHANGED <<list, place, changes, seen, twice, stayed, came, went, torn, tied>>
  BY DEF QueryTotal, happened
<1>2. ListingsTypeOK /\ walk \in WalkRecords
  BY DEF ListingsInv, ListingsTypeOK, WalkRecords
<1>3. Cardinality(listed) \in 0..Cardinality(Entries)
  BY <1>2, ListedFinite, ListingsAssumption, FS_CardinalityType
<1>4. /\ walk' \in WalkRecords
      /\ walk'.at = "asking" /\ walk'.page = walk.page /\ walk'.asked = walk.asked
      /\ walk'.todo = walk.todo \ {"total"} /\ walk'.rows = walk.rows
      /\ walk'.total = Cardinality(listed)
  BY <1>1, <1>2, <1>3 DEF WalkRecords
<1>5. listed' = listed /\ (\A e : Rank(e)' = Rank(e))
      /\ Limit' = Limit /\ Start' = Start /\ End' = End
  BY <1>1, <1>4, RanksKept, PagesKept
<1>6. ListingsTypeOK'
  BY <1>1, <1>2, <1>4, <1>5 DEF ListingsTypeOK, WalkRecords
<1>7. WalkSound'
  BY <1>4 DEF WalkSound
<1>8. ShownOnce'
  BY <1>1, <1>4, <1>5 DEF ListingsInv, ShownOnce
<1>9. NoneSkipped'
  <2> SUFFICES ASSUME ~went, ~tied
               PROVE  /\ "rows" \in walk.todo => \A e \in stayed : e \in seen \/ Rank(e) >= Start
                      /\ "rows" \notin walk.todo =>
                           \A e \in stayed : e \in seen \cup walk.rows \/ Rank(e) >= End
                      /\ walk.todo \ {"total"} = {} =>
                           \A e \in stayed : e \in seen \cup walk.rows \/ Cardinality(listed) > End
    BY <1>1, <1>4, <1>5 DEF NoneSkipped
  <2>1. /\ "rows" \in walk.todo => \A e \in stayed : e \in seen \/ Rank(e) >= Start
        /\ "rows" \notin walk.todo =>
             \A e \in stayed : e \in seen \cup walk.rows \/ Rank(e) >= End
    BY <1>1 DEF ListingsInv, NoneSkipped
  <2>2. \A e \in stayed : Rank(e) \in Nat /\ Rank(e) < Cardinality(listed)
    BY <1>2, RankBounds DEF ListingsTypeOK
  <2>3. End \in Nat /\ Cardinality(listed) \in Nat
    BY <1>2, LimitBounds, ListedFinite
  <2>4. QED
    BY <2>1, <2>2, <2>3
<1>10. QED
  BY <1>6, <1>7, <1>8, <1>9 DEF ListingsInv

\* Who has the last page has as many ranks behind him as there are rows.
LEMMA LastPage ==
  ASSUME ListingsTypeOK, ~(walk.page < TotalPages(walk.total, Normalized(walk.asked)))
  PROVE  walk.total <= End
<1>1. /\ Limit \in 1..MaxLimit /\ Normalized(walk.asked) \in 1..MaxLimit
      /\ Normalized(walk.asked) <= Limit /\ End = walk.page * Limit
  BY LimitBounds
<1>2. walk.total \in Nat /\ walk.page \in Nat \ {0} /\ MaxLimit \in Nat
  <2>1. Cardinality(Entries) \in Nat
    BY ListingsAssumption, FS_CardinalityType
  <2>2. QED
    BY <2>1, ListingsAssumption DEF ListingsTypeOK
<1>3. \A n \in Nat, l \in Nat \ {0} : n <= ((n + l - 1) \div l) * l
  OBVIOUS
<1>4. \A p \in Nat, q \in Int, l, m \in Nat : q <= p /\ l <= m => q * l <= p * m
  <2> SUFFICES ASSUME NEW p \in Nat, NEW q \in Int, NEW l \in Nat, NEW m \in Nat, q <= p, l <= m
               PROVE  q * l <= p * m
    OBVIOUS
  <2>1. (p - q) * l >= 0 /\ p * (m - l) >= 0
    OBVIOUS
  <2>2. p * m - q * l = (p - q) * l + p * (m - l)
    OBVIOUS
  <2>3. p * m \in Int /\ q * l \in Int /\ (p - q) * l \in Int /\ p * (m - l) \in Int
    OBVIOUS
  <2>4. QED
    BY <2>1, <2>2, <2>3
<1> DEFINE l == Normalized(walk.asked)
<1> DEFINE q == TotalPages(walk.total, l)
<1>5. q \in Int /\ q <= walk.page /\ walk.total <= q * l /\ q * l \in Int
  BY <1>1, <1>2, <1>3 DEF TotalPages
<1>6. q * l <= walk.page * Limit /\ walk.page * Limit \in Int
  BY <1>1, <1>2, <1>4, <1>5
<1>7. QED
  BY <1>1, <1>2, <1>5, <1>6

LEMMA AnswerPageKeeps == ListingsInv /\ AnswerPage => ListingsInv'
<1> SUFFICES ASSUME ListingsInv, AnswerPage PROVE ListingsInv'
  OBVIOUS
<1>1. /\ walk.at = "asking" /\ walk.todo = {}
      /\ seen' = seen \cup walk.rows
      /\ twice' = (twice \/ walk.rows \cap seen # {})
      /\ UNCHANGED <<list, place, changes, stayed, came, went, tied>>
  BY DEF AnswerPage
<1>2. ListingsTypeOK /\ walk \in WalkRecords /\ walk.rows \subseteq Entries
      /\ Cardinality(Entries) \in Nat
  BY ListingsAssumption, FS_CardinalityType DEF ListingsInv, ListingsTypeOK, WalkRecords
<1>3. listed' = listed /\ (\A e : Rank(e)' = Rank(e)) /\ stayed \subseteq listed
  BY <1>1, <1>2, RanksKept DEF ListingsTypeOK
<1>4. ~came /\ ~tied => /\ ~twice /\ walk.rows \cap seen = {}
                        /\ \A e \in (seen \cup walk.rows) \cap listed : Rank(e) < End
  BY <1>1 DEF ListingsInv, ShownOnce
<1>5. ~went /\ ~tied =>
        /\ \A e \in stayed : e \in seen \cup walk.rows \/ Rank(e) >= End
        /\ ~torn => \A e \in stayed : e \in seen \cup walk.rows \/ walk.total > End
  BY <1>1 DEF ListingsInv, NoneSkipped
<1>6. CASE walk.page < TotalPages(walk.total, Normalized(walk.asked))
  <2>1. walk' = Asking(walk.page + 1, walk.asked) /\ torn' = FALSE
    BY <1>6 DEF AnswerPage
  <2>2. /\ walk' \in WalkRecords
        /\ walk'.at = "asking" /\ walk'.page = walk.page + 1 /\ walk'.asked = walk.asked
        /\ walk'.todo = {"rows", "total"} /\ walk'.rows = {}
    BY <1>2, <2>1 DEF Asking, WalkRecords
  <2>3. Start' = End
    <3>1. Limit' = Limit
      BY <1>1, <2>2 DEF Limit, Taken
    <3>2. \A p \in Nat, n \in Int : (p + 1 - 1) * n = p * n
      OBVIOUS
    <3>3. walk.page \in Nat /\ Limit \in Int /\ End = walk.page * Limit
      BY <1>2, LimitBounds DEF WalkRecords
    <3>4. QED
      BY <2>2, <3>1, <3>2, <3>3 DEF Start, Skipped
  <2>4. ListingsTypeOK'
    <3>1. Cardinality(walk'.rows) <= Most(MaxLimit, DefaultLimit)
      BY <2>2, FS_EmptySet, ListingsAssumption DEF Most
    <3>2. seen' \subseteq Entries /\ twice' \in BOOLEAN
      BY <1>1, <1>2 DEF ListingsTypeOK
    <3>3. QED
      BY <1>1, <1>2, <1>3, <2>1, <2>2, <3>1, <3>2 DEF ListingsTypeOK, WalkRecords
  <2>5. WalkSound'
    BY <2>2 DEF WalkSound
  <2>6. ShownOnce'
    BY <1>1, <1>3, <1>4, <2>2, <2>3 DEF ShownOnce
  <2>7. NoneSkipped'
    BY <1>1, <1>3, <1>5, <2>2, <2>3 DEF NoneSkipped
  <2>8. QED
    BY <2>4, <2>5, <2>6, <2>7 DEF ListingsInv
<1>7. CASE ~(walk.page < TotalPages(walk.total, Normalized(walk.asked)))
  <2>1. walk' = [walk EXCEPT !.at = "done"] /\ torn' = torn
    BY <1>7 DEF AnswerPage
  <2>2. walk' \in WalkRecords /\ walk'.at = "done" /\ walk'.todo = {} /\ walk'.rows = walk.rows
    BY <1>1, <1>2, <2>1 DEF WalkRecords
  <2>3. walk.total \in Int /\ End \in Int /\ walk.total <= End
    BY <1>2, <1>7, LastPage, LimitBounds DEF WalkRecords
  <2>4. ListingsTypeOK'
    <3>1. seen' \subseteq Entries /\ twice' \in BOOLEAN
      BY <1>1, <1>2 DEF ListingsTypeOK
    <3>2. QED
      BY <1>1, <1>2, <1>3, <2>1, <2>2, <3>1 DEF ListingsTypeOK, WalkRecords
  <2>5. WalkSound'
    BY <2>2 DEF WalkSound
  <2>6. ShownOnce'
    BY <1>1, <1>4, <2>2 DEF ShownOnce
  <2>7. NoneSkipped'
    BY <1>1, <1>5, <2>1, <2>2, <2>3 DEF NoneSkipped
  <2>8. QED
    BY <2>4, <2>5, <2>6, <2>7 DEF ListingsInv
<1>8. QED
  BY <1>6, <1>7

\* A row that comes in can only raise the ranks of the others.
LEMMA EnterListKeeps ==
  ASSUME ListingsInv, NEW e \in Entries, NEW p \in Places, EnterList(e, p)
  PROVE  ListingsInv'
<1>1. /\ walk.at = "asking" /\ changes < MaxChanges /\ changes' = changes + 1
      /\ e \notin listed /\ e \notin seen
      /\ place' = [f \in listed \cup {e} |-> IF f = e THEN p ELSE place[f]]
      /\ came' = TRUE /\ torn' = (torn \/ walk.todo = {"rows"})
      /\ UNCHANGED <<list, walk, seen, twice, stayed, went, tied>>
  BY DEF EnterList, MayChange
<1>2. ListingsTypeOK
  BY DEF ListingsInv
<1>3. listed' = listed \cup {e} /\ place' \in [listed' -> Places]
      /\ \A f \in listed : place'[f] = place[f]
  BY <1>1, <1>2 DEF listed, ListingsTypeOK
<1>4. ListingsTypeOK'
  BY <1>1, <1>2, <1>3, ListingsAssumption DEF ListingsTypeOK
<1>5. ASSUME NEW f \in listed
      PROVE  Rank(f) <= Rank(f)' /\ Rank(f) \in Nat /\ Rank(f)' \in Nat
  <2>1. Before(f) \subseteq Before(f)'
    BY <1>3 DEF Before
  <2>2. IsFiniteSet(Before(f))' /\ Rank(f)' \in Nat
    <3>1. listed' \subseteq Entries
      BY <1>4 DEF ListingsTypeOK
    <3>2. Before(f)' \subseteq Entries
      BY <3>1 DEF Before
    <3>3. QED
      BY <3>2, ListingsAssumption, FS_Subset, FS_CardinalityType DEF Rank
  <2>3. Rank(f) \in Nat
    BY <1>2, RankBounds
  <2>4. QED
    BY <2>1, <2>2, <2>3, FS_Subset DEF Rank
<1>6. Limit' = Limit /\ Start' = Start /\ End' = End
  BY <1>1, PagesKept
<1>7. WalkSound'
  BY <1>1 DEF ListingsInv, WalkSound
<1>8. ShownOnce'
  BY <1>1 DEF ShownOnce
<1>9. NoneSkipped'
  <2> SUFFICES ASSUME ~went, ~tied
               PROVE  /\ "rows" \in walk.todo => \A f \in stayed : f \in seen \/ Rank(f)' >= Start
                      /\ "rows" \notin walk.todo =>
                           \A f \in stayed : f \in seen \cup walk.rows \/ Rank(f)' >= End
                      /\ walk.todo = {} /\ ~torn =>
                           \A f \in stayed : f \in seen \cup walk.rows \/ walk.total > End
    BY <1>1, <1>6 DEF NoneSkipped
  <2>1. /\ "rows" \in walk.todo => \A f \in stayed : f \in seen \/ Rank(f) >= Start
        /\ "rows" \notin walk.todo =>
             \A f \in stayed : f \in seen \cup walk.rows \/ Rank(f) >= End
        /\ walk.todo = {} /\ ~torn =>
             \A f \in stayed : f \in seen \cup walk.rows \/ walk.total > End
    BY <1>1 DEF ListingsInv, NoneSkipped
  <2>2. stayed \subseteq listed /\ Start \in Nat /\ End \in Nat
    BY <1>2, LimitBounds DEF ListingsTypeOK
  <2>3. \A f \in stayed : Rank(f) <= Rank(f)' /\ Rank(f) \in Nat /\ Rank(f)' \in Nat
    BY <1>5, <2>2
  <2>4. QED
    BY <2>1, <2>2, <2>3
<1>10. QED
  BY <1>4, <1>7, <1>8, <1>9 DEF ListingsInv

\* A row that leaves can only lower the ranks of the others.
LEMMA LeaveListKeeps ==
  ASSUME ListingsInv, NEW e \in Entries, LeaveList(e)
  PROVE  ListingsInv'
<1>1. /\ walk.at = "asking" /\ changes < MaxChanges /\ changes' = changes + 1
      /\ e \in listed
      /\ place' = [f \in listed \ {e} |-> place[f]] /\ stayed' = stayed \ {e} /\ went' = TRUE
      /\ UNCHANGED <<list, walk, seen, twice, came, torn, tied>>
  BY DEF LeaveList, MayChange
<1>2. ListingsTypeOK
  BY DEF ListingsInv
<1>3. listed' = listed \ {e} /\ place' \in [listed' -> Places]
      /\ \A f \in listed' : place'[f] = place[f]
  BY <1>1, <1>2 DEF listed, ListingsTypeOK
<1>4. ListingsTypeOK'
  BY <1>1, <1>2, <1>3, ListingsAssumption DEF ListingsTypeOK
<1>5. ASSUME NEW f \in listed'
      PROVE  Rank(f)' <= Rank(f) /\ Rank(f) \in Nat /\ Rank(f)' \in Nat
  <2>1. Before(f)' \subseteq Before(f)
    BY <1>3 DEF Before
  <2>2. IsFiniteSet(Before(f)) /\ Rank(f) \in Nat
    BY <1>2, <1>3, RankBounds
  <2>3. QED
    BY <2>1, <2>2, FS_Subset, FS_CardinalityType DEF Rank
<1>6. Limit' = Limit /\ Start' = Start /\ End' = End
  BY <1>1, PagesKept
<1>7. WalkSound'
  BY <1>1 DEF ListingsInv, WalkSound
<1>8. ShownOnce'
  <2> SUFFICES ASSUME ~came, ~tied
               PROVE  /\ ~twice
                      /\ "rows" \in walk.todo => \A f \in seen \cap listed' : Rank(f)' < Start
                      /\ "rows" \notin walk.todo =>
                           /\ walk.rows \cap seen = {}
                           /\ \A f \in (seen \cup walk.rows) \cap listed' : Rank(f)' < End
    BY <1>1, <1>6 DEF ShownOnce
  <2>1. /\ ~twice
        /\ "rows" \in walk.todo => \A f \in seen \cap listed : Rank(f) < Start
        /\ "rows" \notin walk.todo =>
             /\ walk.rows \cap seen = {}
             /\ \A f \in (seen \cup walk.rows) \cap listed : Rank(f) < End
    BY <1>1 DEF ListingsInv, ShownOnce
  <2>2. Start \in Nat /\ End \in Nat /\ listed' \subseteq listed
    BY <1>2, <1>3, LimitBounds
  <2>3. QED
    BY <1>5, <2>1, <2>2
<1>9. NoneSkipped'
  BY <1>1 DEF NoneSkipped
<1>10. QED
  BY <1>4, <1>7, <1>8, <1>9 DEF ListingsInv

\* A row that moves both comes and goes.
LEMMA MoveInListKeeps ==
  ASSUME ListingsInv, NEW e \in Entries, NEW p \in Places, MoveInList(e, p)
  PROVE  ListingsInv'
<1>1. /\ walk.at = "asking" /\ changes < MaxChanges /\ changes' = changes + 1
      /\ e \in listed /\ place' = [place EXCEPT ![e] = p]
      /\ came' = TRUE /\ went' = TRUE
      /\ UNCHANGED <<list, walk, seen, twice, stayed, torn, tied>>
  BY DEF MoveInList, MayChange
<1>2. listed' = listed /\ place' \in [listed' -> Places]
  BY <1>1 DEF ListingsInv, ListingsTypeOK, listed
<1>3. ListingsTypeOK'
  BY <1>1, <1>2, ListingsAssumption DEF ListingsInv, ListingsTypeOK
<1>4. WalkSound'
  BY <1>1 DEF ListingsInv, WalkSound
<1>5. ShownOnce' /\ NoneSkipped'
  BY <1>1 DEF ShownOnce, NoneSkipped
<1>6. QED
  BY <1>3, <1>4, <1>5 DEF ListingsInv

LEMMA ListingsStutter == ListingsInv /\ UNCHANGED listingsVars => ListingsInv'
<1> SUFFICES ASSUME ListingsInv, UNCHANGED listingsVars PROVE ListingsInv'
  OBVIOUS
<1>1. UNCHANGED <<list, place, changes, walk, seen, twice, stayed, came, went, torn, tied>>
  BY DEF listingsVars
<1>2. listed' = listed /\ (\A e : Rank(e)' = Rank(e))
      /\ Limit' = Limit /\ Start' = Start /\ End' = End
  BY <1>1, RanksKept, PagesKept
<1>3. ListingsTypeOK' /\ WalkSound'
  BY <1>1, <1>2 DEF ListingsInv, ListingsTypeOK, WalkSound
<1>4. ShownOnce' /\ NoneSkipped'
  BY <1>1, <1>2 DEF ListingsInv, ShownOnce, NoneSkipped
<1>5. QED
  BY <1>3, <1>4 DEF ListingsInv

LEMMA ListingsInvariant == ListingsSpec => []ListingsInv
<1>1. ListingsInit => ListingsInv
  BY ListingsStart
<1>2. ListingsInv /\ [ListingsNext]_listingsVars => ListingsInv'
  <2> SUFFICES ASSUME ListingsInv, [ListingsNext]_listingsVars PROVE ListingsInv'
    OBVIOUS
  <2>1. CASE BeginWalk
    BY <2>1, BeginWalkKeeps
  <2>2. CASE QueryRows
    BY <2>2, QueryRowsKeeps
  <2>3. CASE QueryTotal
    BY <2>3, QueryTotalKeeps
  <2>4. CASE AnswerPage
    BY <2>4, AnswerPageKeeps
  <2>5. ASSUME NEW e \in Entries, LeaveList(e) PROVE ListingsInv'
    BY <2>5, LeaveListKeeps
  <2>6. ASSUME NEW e \in Entries, NEW p \in Places, EnterList(e, p) PROVE ListingsInv'
    BY <2>6, EnterListKeeps
  <2>7. ASSUME NEW e \in Entries, NEW p \in Places, MoveInList(e, p) PROVE ListingsInv'
    BY <2>7, MoveInListKeeps
  <2>8. CASE UNCHANGED listingsVars
    BY <2>8, ListingsStutter
  <2>9. QED
    BY <2>1, <2>2, <2>3, <2>4, <2>5, <2>6, <2>7, <2>8 DEF ListingsNext
<1>3. QED
  BY <1>1, <1>2, PTL DEF ListingsSpec

----------------------------------------------------------------------------
(* The theorems                                                            *)

\* The type invariant of the lists: in particular no page holds more rows than the limit.
THEOREM ListingsTypeCorrect == ListingsSpec => []ListingsTypeOK
<1>1. ListingsInv => ListingsTypeOK
  BY DEF ListingsInv
<1>2. QED
  BY <1>1, ListingsInvariant, PTL

\* Who reads all pages is shown every row that was there all the time, unless a row went or
\* moved, came between the two queries of the last answer, or shared its key with another;
\* and no row twice, unless one came or moved or shared its key: for every list, any number
\* of rows, any limits asked for and however often the list changes.
THEOREM PagesAlwaysMakeList == ListingsSpec => []PagesMakeList
<1>1. ListingsInv => PagesMakeList
  BY DEF ListingsInv, WalkSound, ShownOnce, NoneSkipped, PagesMakeList, PagesCoverRows, NoRowTwice
<1>2. QED
  BY <1>1, ListingsInvariant, PTL
=============================================================================
