----------------------------- MODULE PriceRules -----------------------------
(***************************************************************************)
(* The price of a shipment and the rules it comes from.  Administrators    *)
(* edit the table pricing_rules while requests read the best rule, compute *)
(* a price and store it with the shipment an await later.  Amounts are     *)
(* rials; multipliers are in tenths.  One shipment stands for all: no      *)
(* request touches two.                                                    *)
(***************************************************************************)
EXTENDS Integers, FiniteSets

CONSTANTS
  Quoters,          \* requests under way at once
  RuleIds,
  RuleInputs,       \* what administrators submit
  Cargos,           \* cargo types in use
  Kilos,            \* weights in use
  Offers,           \* prices that senders propose when they accept
  Given,            \* the sets of fields that updates give
  Drifts,           \* <<amount, risk, route>> whose product exceeds the exact one in floating point
  MaxEdits,         \* bound on the edits of rules
  MaxQuoted         \* bound on the requests

CargoTypes ==
  {"DOCUMENTS", "CLOTHING", "ELECTRONICS", "FOOD", "MEDICINE", "COSMETICS", "JEWELRY", "OTHER"}

ASSUME PricesAssumption ==
  /\ \A r \in RuleInputs :
       /\ {r.base, r.perKilo, r.risk, r.feePercent, r.minFee, r.priority} \subseteq Int
       /\ r.base >= 10000 /\ r.perKilo >= 10000
  /\ Cargos \subseteq CargoTypes
  /\ Given \subseteq SUBSET {"to", "cargo", "kilos"}
  /\ Kilos \subseteq Nat \ {0} /\ Offers \subseteq Nat /\ MaxEdits \in Nat /\ MaxQuoted \in Nat

VARIABLES
  rules,            \* the rule under each id, if any
  consignment,      \* the row of the shipment
  quoter,           \* quoter[c]: the request that c serves, and what it has read
  edits,
  quoted,           \* requests begun
  pricedFor,        \* goods that the stored system price was computed for
  ruleMoved,        \* requests during which a rule was edited
  rowMoved,         \* requests during which another one wrote the row
  rowCrossed,       \* such a request has written
  relocated         \* the destination was changed alone since the last price

priceVars == <<rules, consignment, quoter, edits, quoted, pricedFor, ruleMoved, rowMoved,
               rowCrossed, relocated>>

Countries == {"home", "abroad"}        \* shipments leave from home
AnyValue == "any"                      \* a column that is null
Nothing == 0
Goods == [to: Countries, cargo: Cargos, kilos: Kilos]
NoParcel == [status |-> "none"]
NoRule == [active |-> FALSE]
\* goods: what is priced; given: the fields of an update; floor: the system price read.
NoQuote == [at |-> "idle", then |-> "none", goods |-> NoParcel, given |-> {},
              price |-> Nothing, floor |-> Nothing]
GoodsOf(p) == [to |-> p.to, cargo |-> p.cargo, kilos |-> p.kilos]
Created == consignment.status # "none"

PricesTypeOK ==
  /\ \A i \in RuleIds : rules[i] \in RuleInputs \cup {NoRule}
  /\ Created => /\ GoodsOf(consignment) \in Goods /\ pricedFor \in Goods
                /\ consignment.status \in {"PENDING", "MATCHED", "ACCEPTED"}
                /\ consignment.systemPrice \in Int /\ consignment.agreedPrice \in Int
  /\ \A c \in Quoters : quoter[c].at \in {"idle", "price", "create", "floor", "update", "accept"}
  /\ edits \in 0..MaxEdits /\ quoted \in 0..MaxQuoted
  /\ ruleMoved \cup rowMoved \subseteq Quoters
  /\ rowCrossed \in BOOLEAN /\ relocated \in BOOLEAN

PricesInit ==
  /\ rules = [i \in RuleIds |-> NoRule]
  /\ consignment = NoParcel /\ pricedFor = NoParcel
  /\ quoter = [c \in Quoters |-> NoQuote]
  /\ edits = 0 /\ quoted = 0 /\ ruleMoved = {} /\ rowMoved = {}
  /\ rowCrossed = FALSE /\ relocated = FALSE

----------------------------------------------------------------------------
(* Rules and prices                                                         *)

\* A rule for a route names both ends; a rule for any route names none.
Matches(r, g) ==
  /\ r.active
  /\ <<r.from, r.to>> \in {<<"home", g.to>>, <<AnyValue, AnyValue>>}
  /\ r.cargo \in {g.cargo, AnyValue}

\* The query sorts by priority only: among equals it may return any.
BestRules(g) ==
  LET matching == {rules[i] : i \in {j \in RuleIds : Matches(rules[j], g)}}
  IN  {r \in matching : \A s \in matching : s.priority <= r.priority}

Risk(cargo) ==
  CASE cargo = "ELECTRONICS" -> 13
    [] cargo = "FOOD" -> 12
    [] cargo = "MEDICINE" -> 14
    [] cargo = "COSMETICS" -> 11
    [] cargo = "JEWELRY" -> 15
    [] cargo \in {"DOCUMENTS", "CLOTHING", "OTHER"} -> 10
DefaultRule(g) ==
  [base |-> 100000, perKilo |-> 50000, risk |-> Risk(g.cargo), feePercent |-> 10, minFee |-> 10000]
Applicable(g) == IF BestRules(g) = {} THEN {DefaultRule(g)} ELSE BestRules(g)

CeilTo(unit, n) == ((n + unit - 1) \div unit) * unit
Amount(r, g) == r.base + r.perKilo * g.kilos
Route(g) == IF g.to = "home" THEN 10 ELSE 15
\* In whole rials: a fraction of a rial counts as one when the price is rounded up.
Exact(r, g) == (Amount(r, g) * r.risk * Route(g) + 99) \div 100

BasePrice(r, g) ==
  CeilTo(1000, Exact(r, g) + (IF <<Amount(r, g), r.risk, Route(g)>> \in Drifts THEN 1 ELSE 0))

PlatformFee(r, price) ==
  LET fee == (price * r.feePercent + 50) \div 100
  IN  IF fee > r.minFee THEN fee ELSE r.minFee

PricesOf(g) == {BasePrice(r, g) : r \in Applicable(g)}

----------------------------------------------------------------------------
(* Administrators                                                           *)

SaveRule(i, r) ==
  /\ edits < MaxEdits
  /\ rules' = [rules EXCEPT ![i] = r]
  /\ edits' = edits + 1
  /\ ruleMoved' = {c \in Quoters : quoter[c].at # "idle"}
  /\ UNCHANGED <<consignment, quoter, quoted, pricedFor, rowMoved, rowCrossed, relocated>>

----------------------------------------------------------------------------
(* Requests                                                                 *)

QuoterGoes(c, r) == quoter' = [quoter EXCEPT ![c] = r]
QuoterStarts(c, r) ==
  /\ quoter[c].at = "idle" /\ quoted < MaxQuoted
  /\ QuoterGoes(c, r) /\ quoted' = quoted + 1
  /\ ruleMoved' = ruleMoved \ {c} /\ rowMoved' = rowMoved \ {c}
  /\ UNCHANGED <<rules, consignment, edits, pricedFor, rowCrossed, relocated>>
QuoterStops(c) == QuoterGoes(c, NoQuote)
\* The others that are under way have read another row than this one.
RowWritten(c) ==
  /\ rowMoved' = {d \in Quoters \ {c} : quoter[d].at # "idle"}
  /\ rowCrossed' = (rowCrossed \/ c \in rowMoved)

BeginCreate(c, g) ==
  /\ ~Created /\ \A d \in Quoters : quoter[d].at = "idle"
  /\ QuoterStarts(c, [NoQuote EXCEPT !.at = "price", !.then = "create", !.goods = g])

\* Mutant of NeedsPrice.
NeedsPriceByCargo(given) == "cargo" \in given
\* A new destination alone keeps the price.
NeedsPrice(given) == given \cap {"kilos", "cargo"} # {}

\* The price is computed for the row that was read with what is given.
Merged(given, g) == [f \in DOMAIN g |-> IF f \in given THEN g[f] ELSE consignment[f]]

BeginUpdate(c, given, g) ==
  /\ Created /\ consignment.status \in {"PENDING", "MATCHED"}
  /\ QuoterStarts(c, [at |-> IF NeedsPrice(given) THEN "price" ELSE "update", then |-> "update",
                      goods |-> Merged(given, g), given |-> given,
                      price |-> consignment.systemPrice, floor |-> Nothing])

\* Without an offer the system price is accepted as it was read.
BeginAcceptOffer(c, offer) ==
  /\ Created /\ consignment.status = "MATCHED"
  /\ QuoterStarts(c, [at |-> IF offer = Nothing THEN "accept" ELSE "floor", then |-> "accept",
                      goods |-> GoodsOf(consignment), given |-> {},
                      price |-> IF offer = Nothing THEN consignment.systemPrice ELSE offer,
                      floor |-> consignment.systemPrice])

\* calculatePrice reads the best rule.
CalculatePrice(c) ==
  /\ quoter[c].at = "price"
  /\ \E p \in PricesOf(quoter[c].goods) :
       QuoterGoes(c, [quoter[c] EXCEPT !.at = quoter[c].then, !.price = p])
  /\ UNCHANGED <<rules, consignment, edits, quoted, pricedFor, ruleMoved, rowMoved, rowCrossed,
                 relocated>>

CreateParcel(c) ==
  /\ quoter[c].at = "create"
  /\ consignment' = [status |-> "PENDING", to |-> quoter[c].goods.to, cargo |-> quoter[c].goods.cargo,
                kilos |-> quoter[c].goods.kilos, systemPrice |-> quoter[c].price,
                agreedPrice |-> Nothing]
  /\ pricedFor' = quoter[c].goods
  /\ QuoterStops(c)
  /\ RowWritten(c)
  /\ UNCHANGED <<rules, edits, quoted, ruleMoved, relocated>>

\* Only the columns that were given are written, and the system price always.
WriteUpdate(c) ==
  /\ quoter[c].at = "update"
  /\ consignment' = [f \in DOMAIN consignment |->
                  IF f \in quoter[c].given THEN quoter[c].goods[f]
                  ELSE IF f = "systemPrice" THEN quoter[c].price ELSE consignment[f]]
  /\ pricedFor' = IF NeedsPrice(quoter[c].given) THEN quoter[c].goods ELSE pricedFor
  /\ relocated' = (~NeedsPrice(quoter[c].given) /\ (relocated \/ quoter[c].given = {"to"}))
  /\ QuoterStops(c)
  /\ RowWritten(c)
  /\ UNCHANGED <<rules, edits, quoted, ruleMoved>>

\* Mutant of Floor.
FloorAsRead(c, p) == quoter[c].floor
Floor(c, p) == IF p > quoter[c].floor THEN p ELSE quoter[c].floor

CheckFloor(c) ==
  /\ quoter[c].at = "floor"
  /\ \E p \in PricesOf(quoter[c].goods) :
       IF quoter[c].price < Floor(c, p) THEN QuoterStops(c)
       ELSE QuoterGoes(c, [quoter[c] EXCEPT !.at = "accept"])
  /\ UNCHANGED <<rules, consignment, edits, quoted, pricedFor, ruleMoved, rowMoved, rowCrossed,
                 relocated>>

AcceptPrice(c) ==
  /\ quoter[c].at = "accept"
  /\ consignment' = [consignment EXCEPT !.status = "ACCEPTED", !.agreedPrice = quoter[c].price]
  /\ QuoterStops(c)
  /\ RowWritten(c)
  /\ UNCHANGED <<rules, edits, quoted, pricedFor, ruleMoved, relocated>>

\* A traveller offers a trip, or the sender rejects it.
MatchParcel ==
  /\ Created /\ consignment.status \in {"PENDING", "MATCHED"}
  /\ consignment' = [consignment EXCEPT !.status = IF @ = "PENDING" THEN "MATCHED" ELSE "PENDING"]
  /\ UNCHANGED <<rules, quoter, edits, quoted, pricedFor, ruleMoved, rowMoved, rowCrossed,
                 relocated>>

PricesNext ==
  \/ \E i \in RuleIds, r \in RuleInputs : SaveRule(i, r)
  \/ \E c \in Quoters, g \in Goods :
       \/ BeginCreate(c, g)
       \/ \E given \in Given : BeginUpdate(c, given, g)
  \/ \E c \in Quoters, offer \in Offers \cup {Nothing} : BeginAcceptOffer(c, offer)
  \/ \E c \in Quoters : \/ CalculatePrice(c) \/ CreateParcel(c) \/ WriteUpdate(c)
                        \/ CheckFloor(c) \/ AcceptPrice(c)
  \/ MatchParcel

PricesSpec == PricesInit /\ [][PricesNext]_priceVars

----------------------------------------------------------------------------
(* Properties *)

\* The system price belongs to the goods in the row.  It takes two requests that
\* cross, or a change of the destination alone, which is stored without a new price.
PriceFollowsGoods ==
  Created /\ ~rowCrossed /\ ~relocated => pricedFor = GoodsOf(consignment)

\* A price is the exact product, rounded up, or one step more where the binary
\* product exceeds the exact one; heavier parcels are not cheaper.
PricesRoundUp ==
  \A g \in Goods : \A r \in Applicable(g) :
    /\ BasePrice(r, g) % 1000 = 0
    /\ BasePrice(r, g) - Exact(r, g) \in 0..1000
    /\ \A h \in Goods : h = [g EXCEPT !.kilos = h.kilos] /\ h.kilos > g.kilos
                          => BasePrice(r, h) >= BasePrice(r, g)
    /\ PlatformFee(r, BasePrice(r, g)) >= r.minFee

\* Both, for the row as it is and for the rules in force.
PricesSound == PriceFollowsGoods /\ PricesRoundUp

Repriced(c) ==
  quoter[c].at = "create" \/ (quoter[c].at = "update" /\ NeedsPrice(quoter[c].given))
Accepts(c) == quoter[c].at = "accept" /\ quoter'[c].at = "idle"

\* What is stored as a price is what the rules give at that moment, and what is
\* accepted is not below it and not below the system price, unless an administrator
\* edited a rule, or another request wrote the row, while the request was under way.
PricesInForce ==
  [][\A c \in Quoters :
       /\ Repriced(c) /\ quoter'[c].at = "idle" /\ c \notin ruleMoved
            => consignment'.systemPrice \in PricesOf(quoter[c].goods)
       /\ Accepts(c) /\ c \notin rowMoved => consignment'.agreedPrice >= consignment.systemPrice
       /\ Accepts(c) /\ c \notin ruleMoved /\ consignment'.agreedPrice # quoter[c].floor
            => \E p \in PricesOf(quoter[c].goods) : consignment'.agreedPrice >= p]_priceVars
=============================================================================
