-------------------------- MODULE RealEstate_proofs --------------------------
(***************************************************************************)
(* Theorems about RealEstate, for every catalogue that may be loaded, every *)
(* script, teams, and anything the extractor may answer.                    *)
(***************************************************************************)
EXTENDS RealEstate, FiniteSetTheorems, WellFoundedInduction, TLAPS

(***************************************************************************)
(* The strengthening: what is in the catalogue can be put in order and its  *)
(* plans computed; a price a customer named is a number.                    *)
(***************************************************************************)
PlanOK(plan) == plan # NULL => \A term \in {"pct", "count", "years"} : plan[term] \in Nat
CatalogueOK ==
    \A u \in DOMAIN units :
        units[u].price \in Nat /\ UnitOrder[u] \in Nat /\ PlanOK(units[u].payment_plan)
NearOK(slots) == Slot(slots, "near_price") \subseteq Int
StateOK == {"slots", "quoted"} \subseteq DOMAIN state /\ NearOK(state.slots)
TurnOK  == turn.at = "read" /\ turn.read # Refused => NearOK(turn.read.slots)
ShopInv == /\ CatalogueOK /\ StateOK /\ TurnOK
           /\ OffersAreReal /\ UnitIsTheOneMeant /\ LeadReachesItsTeam
-----------------------------------------------------------------------------
\* Of things weighed in whole numbers, one is the lightest.
LEMMA OneIsLeast ==
    ASSUME NEW S, S # {}, NEW weight \in [S -> Nat]
    PROVE  \E u \in S : \A w \in S : weight[u] <= weight[w]
<1> DEFINE R == OpToRel(<, Nat)
           W == {weight[u] : u \in S}
<1>1. IsWellFoundedOn(R, Nat)
  BY NatLessThanWellFounded
<1>2. \A x, y \in Nat : x < y => <<x, y>> \in R
  BY DEF OpToRel
<1>3. W \subseteq Nat /\ W # {}
  OBVIOUS
<1> HIDE DEF R, W
<1>4. PICK x \in W : \A y \in W : ~ (<<y, x>> \in R)
  BY <1>1, <1>3, WFMin
<1>5. PICK u \in S : weight[u] = x
  BY DEF W
<1>6. ASSUME NEW w \in S PROVE weight[u] <= weight[w]
  <2>1. weight[w] \in W /\ weight[w] \in Nat /\ x \in Nat
    BY <1>3 DEF W
  <2>2. ~(weight[w] < x)
    BY <1>2, <1>4, <2>1
  <2> QED
    BY <1>5, <2>1, <2>2
<1> QED
  BY <1>6

LEMMA LeastIsOne == ASSUME NEW S, S \subseteq Nat, S # {} PROVE Min(S) \in S
<1>1. [n \in S |-> n] \in [S -> Nat]
  OBVIOUS
<1>2. \E u \in S : \A w \in S : [n \in S |-> n][u] <= [n \in S |-> n][w]
  BY <1>1, OneIsLeast
<1>3. \E u \in S : \A w \in S : u <= w
  BY <1>2
<1> QED
  BY <1>3 DEF Min

LEMMA LastIsOne ==
    ASSUME NEW n \in Nat, NEW S, S \subseteq 1..n, S # {}
    PROVE  \E u \in S : \A w \in S : w <= u
<1> DEFINE rest == [u \in S |-> n - u]
<1>1. rest \in [S -> Nat]
  OBVIOUS
<1> HIDE DEF rest
<1>2. PICK u \in S : \A w \in S : rest[u] <= rest[w]
  BY <1>1, OneIsLeast
<1>3. \A w \in S : n - u <= n - w
  BY <1>2 DEF rest
<1> QED
  BY <1>3

\* Of units of the catalogue one is the cheapest.
LEMMA CheapestIsOne ==
    ASSUME CatalogueOK, NEW S, S \subseteq DOMAIN units, S # {}
    PROVE  Cheapest(units, UnitOrder, S) \in S
<1> DEFINE price == [u \in S |-> units[u].price]
           A     == {u \in S : \A w \in S : price[u] <= price[w]}
           place == [u \in A |-> UnitOrder[u]]
<1>1. price \in [S -> Nat]
  BY DEF CatalogueOK
<1>2. A # {}
  <2> HIDE DEF price
  <2>1. \E u \in S : \A w \in S : price[u] <= price[w]
    BY <1>1, OneIsLeast
  <2> QED
    BY <2>1
<1>3. place \in [A -> Nat]
  BY DEF CatalogueOK
<1>4. PICK u \in A : \A w \in A : place[u] <= place[w]
  <2> HIDE DEF A, place
  <2> QED
    BY <1>2, <1>3, OneIsLeast
<1>5. u \in S
  OBVIOUS
<1>6. ASSUME NEW w \in S PROVE ~Cheaper(units, UnitOrder, w, u)
  <2>1. units[u].price \in Nat /\ units[w].price \in Nat /\ UnitOrder[u] \in Nat /\ UnitOrder[w] \in Nat
    BY <1>5 DEF CatalogueOK
  <2>2. units[u].price <= units[w].price
    BY <1>5
  <2>3. CASE units[u].price = units[w].price
    <3>1. w \in A
      BY <1>5, <2>3
    <3>2. UnitOrder[u] <= UnitOrder[w]
      BY <1>4, <3>1
    <3> QED
      BY <2>1, <2>2, <3>2 DEF Cheaper
  <2>4. CASE units[u].price # units[w].price
    BY <2>1, <2>2, <2>4 DEF Cheaper
  <2> QED
    BY <2>3, <2>4
<1> QED
  BY <1>5, <1>6 DEF Cheapest
-----------------------------------------------------------------------------
\* What may be put to a customer, as an answer to a query.
Real(unit, query) == /\ unit \in DOMAIN units /\ units[unit].availability = Available
                     /\ project # NULL => units[unit].compound = project
                     /\ Matches(units[unit], query)

LEMMA AnythingMatches == ASSUME NEW unit PROVE Matches(unit, AnyUnit)
  BY DEF Matches, AnyUnit

LEMMA SearchIsReal ==
    ASSUME NEW query, NEW limit, NEW u \in Search(units, project, UnitOrder, query, limit)
    PROVE  Real(u, query)
  BY DEF Search, OnSale, Real

LEMMA GotIsReal ==
    ASSUME NEW unit, Get(units, project, unit) # NULL
    PROVE  Get(units, project, unit) = unit /\ Real(unit, AnyUnit)
  BY AnythingMatches DEF Get, OnSale, Real

LEMMA NearestIsOne ==
    ASSUME CatalogueOK, NEW S, S \subseteq DOMAIN units, S # {}, NEW target,
           target = NULL \/ target \in Int
    PROVE  Nearest(S, target) \in S
<1> DEFINE planned == {u \in S : units[u].payment_plan # NULL}
           Off(u)  == IF units[u].price >= target THEN units[u].price - target
                                                  ELSE target - units[u].price
           nearest == {u \in planned : \A w \in planned : Off(u) <= Off(w)}
           T == IF planned = {} THEN S ELSE IF target = NULL THEN planned ELSE nearest
<1>1. Nearest(S, target) = Cheapest(units, UnitOrder, T)
  BY DEF Nearest
<1>2. ASSUME planned # {}, target \in Int PROVE nearest # {}
  <2> DEFINE off == [u \in planned |-> Off(u)]
  <2>1. off \in [planned -> Nat]
    BY <1>2 DEF CatalogueOK
  <2> HIDE DEF off, planned, Off
  <2>2. PICK u \in planned : \A w \in planned : off[u] <= off[w]
    BY <1>2, <2>1, OneIsLeast
  <2>3. \A w \in planned : Off(u) <= Off(w)
    BY <2>2 DEF off
  <2> QED
    BY <2>3
<1>3. T \subseteq S /\ T # {}
  BY <1>2
<1> HIDE DEF T
<1>4. Cheapest(units, UnitOrder, T) \in T
  BY <1>3, CheapestIsOne
<1> QED
  BY <1>1, <1>3, <1>4

\* The unit of an id that is held, or else of the place that was said, or else in hand.
Meant(unit, slots, quoted, said) ==
    IF Named(slots) # {} THEN Named(slots) = {unit}
    ELSE IF Slot(said, "compound") # {} THEN units[unit].compound \in Slot(said, "compound")
    ELSE unit = quoted

\* An id that is found is one the slots hold.
LEMMA NamedIsHeld == ASSUME NEW slots PROVE Named(slots) \subseteq Slot(slots, "unit_id")
<1> DEFINE ids == Slot(slots, "unit_id")
<1>1. ASSUME Get(units, project, One(ids)) # NULL PROVE One(ids) \in ids
  <2>1. Cardinality(ids) = 1
    BY <1>1 DEF One, Get
  <2>2. ids # {}
    BY <2>1, FS_EmptySet
  <2> QED
    BY <2>1, <2>2 DEF One
<1> QED
  BY <1>1 DEF Named

\* Whichever way a customer means a unit, it is one that may be put to them.
LEMMA ResolvedIsReal ==
    ASSUME CatalogueOK, NEW slots, NEW quoted, NEW said, NearOK(slots),
           NEW unit, unit = ResolveUnit(slots, quoted, said), unit # NULL
    PROVE  Real(unit, AnyUnit) /\ Meant(unit, slots, quoted, said)
<1> DEFINE named  == One(Slot(slots, "unit_id"))
           wanted == Slot(said, "compound")
           held   == IF quoted = None THEN NULL ELSE Get(units, project, quoted)
           target == One(Slot(slots, "near_price"))
           query  == [AnyUnit EXCEPT !.compound = wanted]
           there  == Search(units, project, UnitOrder, query, MaxLimit)
<1>1. unit = IF named # NULL /\ Get(units, project, named) # NULL THEN named
             ELSE IF held # NULL /\ (wanted = {} \/ wanted = {units[held].compound}) THEN held
             ELSE IF wanted = {} THEN held
             ELSE Nearest(there, target)
  BY DEF ResolveUnit
<1>2. Named(slots) = IF Get(units, project, named) = NULL THEN {} ELSE {named}
  BY DEF Named
<1>3. target = NULL \/ target \in Int
  <2>1. CASE Cardinality(Slot(slots, "near_price")) = 1
    <3>1. Slot(slots, "near_price") # {}
      BY <2>1, FS_EmptySet
    <3> QED
      BY <2>1, <3>1 DEF One, NearOK
  <2>2. CASE Cardinality(Slot(slots, "near_price")) # 1
    BY <2>2 DEF One
  <2> QED
    BY <2>1, <2>2
<1>4. held # NULL => held = quoted /\ Real(held, AnyUnit)
  BY GotIsReal
<1>5. named # NULL /\ Get(units, project, named) # NULL => Real(named, AnyUnit)
  BY GotIsReal
<1>6. there # {} => /\ Real(Nearest(there, target), AnyUnit)
                    /\ wanted # {} => units[Nearest(there, target)].compound \in wanted
  <2> SUFFICES ASSUME there # {}
               PROVE  /\ Real(Nearest(there, target), AnyUnit)
                      /\ wanted # {} => units[Nearest(there, target)].compound \in wanted
    OBVIOUS
  <2>1. \A u \in there : Real(u, query)
    BY SearchIsReal
  <2> HIDE DEF there, target, query
  <2>2. there \subseteq DOMAIN units
    BY <2>1 DEF Real
  <2>3. Nearest(there, target) \in there
    BY <1>3, <2>2, NearestIsOne
  <2> DEFINE u == Nearest(there, target)
  <2>4. Real(u, query)
    BY <2>1, <2>3
  <2> HIDE DEF u
  <2>5. Real(u, AnyUnit)
    BY <2>4, AnythingMatches DEF Real
  <2>6. query.compound = wanted
    BY DEF query, AnyUnit
  <2>7. wanted # {} => units[u].compound \in wanted
    BY <2>4, <2>6 DEF Real, Matches
  <2> QED
    BY <2>5, <2>7 DEF u
<1>7. there = {} => Nearest(there, target) = NULL
  BY DEF Nearest
<1> HIDE DEF named, wanted, held, target, there
<1>8. Slot(said, "compound") = wanted
  BY DEF wanted
<1>9. CASE named # NULL /\ Get(units, project, named) # NULL
  BY <1>1, <1>2, <1>5, <1>9 DEF Meant
<1>10. Get(units, project, named) # NULL => named # NULL
  BY DEF Get
<1>11. CASE ~(named # NULL /\ Get(units, project, named) # NULL)
            /\ held # NULL /\ (wanted = {} \/ wanted = {units[held].compound})
  BY <1>1, <1>2, <1>4, <1>8, <1>10, <1>11 DEF Meant
<1>12. CASE ~(named # NULL /\ Get(units, project, named) # NULL)
            /\ ~(held # NULL /\ (wanted = {} \/ wanted = {units[held].compound}))
  <2>1. wanted # {} /\ unit = Nearest(there, target)
    BY <1>1, <1>12
  <2> QED
    BY <1>2, <1>6, <1>7, <1>8, <1>10, <1>12, <2>1 DEF Meant
<1> QED
  BY <1>9, <1>11, <1>12
-----------------------------------------------------------------------------
\* The schedule pays the price, in instalments the last of which is not the smallest.
Paid(plan, price) ==
    /\ plan.down + plan.each * (plan.count - 1) + plan.last = price
    /\ plan.last \in plan.each..(plan.each + plan.count - 1)

LEMMA WhatIsLeft ==
    ASSUME NEW a \in Int, NEW n \in Nat \ {0}
    PROVE  /\ a \div n \in Int /\ a - (a \div n) * (n - 1) \in Int
           /\ a - (a \div n) * (n - 1) >= a \div n
           /\ a - (a \div n) * (n - 1) <= (a \div n) + n - 1
<1> DEFINE q == a \div n
           r == a % n
<1>1. q \in Int /\ r \in 0..(n - 1) /\ a = n * q + r
  OBVIOUS
<1> HIDE DEF q, r
<1>2. q * (n - 1) = n * q - q /\ n * q \in Int
  BY <1>1
<1>3. a - q * (n - 1) = q + r
  BY <1>1, <1>2
<1> QED
  BY <1>1, <1>3 DEF q

LEMMA ScheduleIsPaid ==
    ASSUME NEW row, row.price \in Nat, row.payment_plan.pct \in Nat,
           row.payment_plan.years \in Nat, row.payment_plan.count \in Nat \ {0}
    PROVE  Paid(Schedule(row), row.price) /\ Schedule(row) # NULL
<1> DEFINE plan  == row.payment_plan
           down  == (row.price * plan.pct + 50) \div 100
           left  == row.price - down
           each  == left \div plan.count
           paid  == each * (plan.count - 1)
<1>1. row.price * plan.pct + 50 \in Int
  OBVIOUS
<1>2. down \in Int
  BY <1>1
<1>3. Schedule(row) = [total |-> row.price, down |-> down, each |-> each, count |-> plan.count,
                       last |-> row.price - down - paid, years |-> plan.years]
  BY DEF Schedule
<1> HIDE DEF down
<1>4. left \in Int
  BY <1>2
<1> HIDE DEF left
<1>5. /\ each \in Int /\ left - paid \in Int
      /\ left - paid >= each /\ left - paid <= each + plan.count - 1
  BY <1>4, WhatIsLeft
<1>6. paid \in Int
  BY <1>5
<1> HIDE DEF each, paid
<1>7. row.price - down - paid = left - paid
  BY <1>2, <1>6 DEF left
<1>8. down + paid + (row.price - down - paid) = row.price
  BY <1>2, <1>6
<1> DEFINE s == Schedule(row)
<1>9. s.down = down /\ s.each * (s.count - 1) = paid /\ s.last = left - paid
      /\ s.each = each /\ s.count = plan.count
  BY <1>3, <1>7 DEF paid
<1> HIDE DEF s
<1>10. s.down + s.each * (s.count - 1) + s.last = row.price
  BY <1>7, <1>8, <1>9
<1>11. s.last \in s.each..(s.each + s.count - 1)
  BY <1>5, <1>9
<1>12. s \in [total : Int, down : Int, each : Int, count : Int, last : Int, years : Int]
  BY <1>2, <1>3, <1>5, <1>7 DEF s
<1> QED
  BY <1>10, <1>11, <1>12, RealEstateAssumption DEF Paid, s
-----------------------------------------------------------------------------
\* A figure that is in the row or in the schedule is shown with where it is from.
LEMMA HoldingFinds ==
    ASSUME NEW value, NEW h, NEW f \in DOMAIN h.values, h.values[f] = value
    PROVE  Holding(value, <<h>>) # 0
<1> DEFINE held == <<h>>
           I == {i \in 1..Len(held) : \E g \in DOMAIN held[i].values : held[i].values[g] = value}
<1>1. Holding(value, held) = IF I # {} THEN Min(I) ELSE 0
  BY DEF Holding, SelectInSeq
<1>2. 1 \in I /\ I \subseteq Nat /\ 0 \notin I
  OBVIOUS
<1> HIDE DEF I
<1>3. Min(I) \in I
  BY <1>2, LeastIsOne
<1> QED
  BY <1>1, <1>2, <1>3

LEMMA RowIsTraced ==
    ASSUME NEW unit, NEW computations
    PROVE  Trace(units[unit].price, <<>>, {}, RowOf(unit), computations).source # Nothing
<1> DEFINE h == [id |-> unit, values |-> [price |-> units[unit].price, bedrooms |-> units[unit].bedrooms]]
<1>1. RowOf(unit) = <<h>> /\ "price" \in DOMAIN h.values /\ h.values["price"] = units[unit].price
  BY DEF RowOf
<1> HIDE DEF h
<1>2. Holding(units[unit].price, RowOf(unit)) # 0
  BY <1>1, HoldingFinds
<1> QED
  BY <1>2, RealEstateAssumption DEF Trace, From

LEMMA PlanIsTraced ==
    ASSUME NEW unit, NEW plan, plan # NULL, NEW f \in DOMAIN plan
    PROVE  Trace(plan[f], <<>>, {}, RowOf(unit), ComputationOf(unit, plan)).source # Nothing
<1> DEFINE h == [id |-> unit, values |-> plan]
<1>1. ComputationOf(unit, plan) = <<h>> /\ h.values = plan
  BY DEF ComputationOf
<1> HIDE DEF h
<1>2. Holding(plan[f], ComputationOf(unit, plan)) # 0
  BY <1>1, HoldingFinds
<1> QED
  BY <1>2, RealEstateAssumption DEF Trace, From
-----------------------------------------------------------------------------
\* The engine leaves the unit in hand as it was, holds no value nobody said, and holds
\* this message's id rather than an earlier one.
IdsOK(slots, said) == Slot(said, "unit_id") # {} => Slot(slots, "unit_id") = said["unit_id"]
DecidedOK(d, read) == /\ {"slots", "quoted"} \subseteq DOMAIN d.state
                      /\ d.state.quoted = state.quoted /\ NearOK(d.state.slots)
                      /\ IdsOK(d.state.slots, read.slots)

LEMMA DecisionIsOK ==
    ASSUME StateOK, NEW read, NearOK(read.slots), Advance(Script, state, read) # Raised
    PROVE  DecidedOK(Advance(Script, state, read), read)
<1> DEFINE name == ChosenNode(Script, state, read)
           gone == read.cleared \cup Stale(Script, state.slots, read.slots)
           said == WithSlots(state.slots, read.slots, gone)
           held == [state EXCEPT !.slots = said]
           node == NodeOf(Script, name)
           d    == Decide(Script, held, read, name)
<1>1. Advance(Script, state, read) = d /\ d # Raised
  BY DEF Advance
<1>2. NearOK(said) /\ IdsOK(said, read.slots)
  BY DEF NearOK, IdsOK, Slot, WithSlots, StateOK
<1> HIDE DEF name, gone, said, node
<1>3. {"slots", "quoted"} \subseteq DOMAIN held /\ held.quoted = state.quoted /\ held.slots = said
  BY DEF StateOK
<1> HIDE DEF held
<1>4. \A x, k : LET s == [held EXCEPT !.node = x, !.count = k]
                IN  {"slots", "quoted"} \subseteq DOMAIN s /\ s.quoted = held.quoted
                    /\ s.slots = held.slots
  BY <1>3
<1>5. ASSUME NEW e, NEW x, e.state = ResetCount(held, x) \/ e.state = Counted(held, x, {})
      PROVE  DecidedOK(e, read)
  BY <1>2, <1>3, <1>4, <1>5 DEF ResetCount, Counted, DecidedOK
<1>6. ASSUME NEW x, NEW missing, NEW gate PROVE DecidedOK(Clarify(Script, held, x, missing, gate), read)
  <2> DEFINE c == Clarify(Script, held, x, missing, gate)
  <2>1. c.state = Counted(held, x, {})
    BY DEF Clarify, Decision, Counted
  <2> HIDE DEF c
  <2>2. DecidedOK(c, read)
    BY <1>5, <2>1
  <2> QED
    BY <2>2 DEF c
<1>7. DecidedOK(Handoff(held, name), read)
  <2> DEFINE h == Handoff(held, name)
  <2>1. h.state = ResetCount(held, name)
    BY DEF Handoff, Decision
  <2> HIDE DEF h
  <2>2. DecidedOK(h, read)
    BY <1>5, <2>1
  <2> QED
    BY <2>2 DEF h
<1>8. DecidedOK([Decision(node.action, name, ResetCount(held, name)) EXCEPT
                    !.grounding = node.grounding], read)
  <2> DEFINE e == [Decision(node.action, name, ResetCount(held, name)) EXCEPT
                      !.grounding = node.grounding]
  <2>1. e.state = ResetCount(held, name)
    BY DEF Decision
  <2> HIDE DEF e
  <2>2. DecidedOK(e, read)
    BY <1>5, <2>1
  <2> QED
    BY <2>2 DEF e
<1>9. \/ d = Handoff(held, name)
      \/ \E x, missing, gate : d = Clarify(Script, held, x, missing, gate)
      \/ d = [Decision(node.action, name, ResetCount(held, name)) EXCEPT
                 !.grounding = node.grounding]
  BY <1>1 DEF Decide, node
<1> QED
  BY <1>1, <1>6, <1>7, <1>8, <1>9
-----------------------------------------------------------------------------
\* What is loaded can be put in order, and its plans computed.
LEMMA SheetsAreOK ==
    ASSUME NEW sheet \in Sheets, NEW i \in DOMAIN ToUnits(sheet)
    PROVE  ToUnits(sheet)[i].price \in Nat /\ ToUnits(sheet)[i].payment_plan = NULL
<1> DEFINE mapping == Mapping(sheet.headers)
           unit == [j \in DOMAIN sheet.rows |-> RowToUnit(sheet.rows[j], mapping)]
<1>1. ToUnits(sheet) = Accepted(sheet)
  BY DEF ToUnits
<1>2. Accepted(sheet) = [j \in {k \in DOMAIN unit : ~Refusable(unit[k])} |-> unit[j]]
  BY DEF Accepted
<1> HIDE DEF mapping
<1>3. i \in DOMAIN sheet.rows /\ ToUnits(sheet)[i] = RowToUnit(sheet.rows[i], mapping)
      /\ ~Refusable(ToUnits(sheet)[i])
  BY <1>1, <1>2
<1> HIDE DEF unit
<1> DEFINE u == ToUnits(sheet)[i]
           cell == IF "price" \in DOMAIN mapping THEN sheet.rows[i][mapping["price"]] ELSE NULL
<1>4. /\ u.payment_plan = NULL /\ u["price"] = u.price
      /\ u.price = IF cell \in DOMAIN Numerals THEN Numerals[cell] ELSE NULL
  BY <1>3 DEF RowToUnit
<1> HIDE DEF u, cell
<1>5. u.price # NULL
  BY <1>3, <1>4, InventoryAssumption DEF Refusable, u
<1> QED
  BY <1>4, <1>5, InventoryAssumption DEF u

Loads == {ToUnits(sheet) : sheet \in Sheets} \cup Snapshots

LEMMA RecordsAreOK ==
    ASSUME NEW records \in Loads, NEW i \in DOMAIN records
    PROVE  /\ records[i].price \in Nat /\ UnitOrder[records[i].unit_id] \in Nat
           /\ PlanOK(records[i].payment_plan)
<1>1. UnitOrder[records[i].unit_id] \in Nat
  BY RealEstateAssumption DEF Loads
<1>2. CASE records \in Snapshots
  BY <1>1, <1>2, RealEstateAssumption DEF PlanOK
<1>3. ASSUME NEW sheet \in Sheets, records = ToUnits(sheet)
      PROVE  records[i].price \in Nat /\ records[i].payment_plan = NULL
  BY <1>3, SheetsAreOK
<1> QED
  BY <1>1, <1>2, <1>3 DEF Loads, PlanOK

LEMMA PlacesAreCounted ==
    ASSUME NEW records \in Loads PROVE \E n \in Nat : DOMAIN records \subseteq 1..n
<1>1. CASE records \in Snapshots
  <2>1. records \in Seq(Range(records))
    BY <1>1, RealEstateAssumption
  <2>2. DOMAIN records = 1..Len(records) /\ Len(records) \in Nat
    BY <2>1
  <2> QED
    BY <2>2
<1>2. ASSUME NEW sheet \in Sheets, records = ToUnits(sheet)
      PROVE  \E n \in Nat : DOMAIN records \subseteq 1..n
  <2>1. sheet.rows \in Seq(Range(sheet.rows))
    BY RealEstateAssumption
  <2>2. DOMAIN sheet.rows = 1..Len(sheet.rows) /\ Len(sheet.rows) \in Nat
    BY <2>1
  <2>3. DOMAIN Accepted(sheet) \subseteq DOMAIN sheet.rows
    BY DEF Accepted
  <2>4. CASE records = <<>>
    BY <2>2, <2>4
  <2>5. CASE records = Accepted(sheet)
    BY <2>2, <2>3, <2>5
  <2> QED
    BY <1>2, <2>4, <2>5 DEF ToUnits
<1> QED
  BY <1>1, <1>2 DEF Loads

LEMMA LoadKeepsCatalogue ==
    ASSUME CatalogueOK, NEW records \in Loads, units' = Load(units, records)
    PROVE  CatalogueOK'
<1> DEFINE named(id) == {i \in DOMAIN records : records[i].unit_id = id}
<1> SUFFICES ASSUME NEW id \in DOMAIN units'
             PROVE  /\ units'[id].price \in Nat /\ UnitOrder[id] \in Nat
                    /\ PlanOK(units'[id].payment_plan)
  BY DEF CatalogueOK
<1>1. /\ id \in DOMAIN units \cup {records[i].unit_id : i \in DOMAIN records}
      /\ units'[id] = IF named(id) = {} THEN units[id]
                      ELSE records[CHOOSE i \in named(id) : \A j \in named(id) : j <= i]
  BY DEF Load
<1>2. CASE named(id) = {}
  <2>1. id \in DOMAIN units /\ units'[id] = units[id]
    BY <1>1, <1>2
  <2> QED
    BY <2>1 DEF CatalogueOK
<1>3. CASE named(id) # {}
  <2> DEFINE i == CHOOSE i \in named(id) : \A j \in named(id) : j <= i
  <2>1. i \in named(id)
    <3>1. PICK n \in Nat : DOMAIN records \subseteq 1..n
      BY PlacesAreCounted
    <3>2. named(id) \subseteq 1..n
      BY <3>1
    <3> HIDE DEF named
    <3>3. \E k \in named(id) : \A j \in named(id) : j <= k
      BY <1>3, <3>1, <3>2, LastIsOne
    <3> QED
      BY <3>3
  <2>2. units'[id] = records[i]
    BY <1>1, <1>3
  <2> HIDE DEF i
  <2>3. i \in DOMAIN records /\ records[i].unit_id = id
    BY <2>1
  <2> QED
    BY <2>2, <2>3, RecordsAreOK
<1> QED
  BY <1>2, <1>3

LEMMA LoadInv ==
    ASSUME ShopInv, NEW records \in Loads, LoadUnits(records),
           UNCHANGED <<project, state, turn, result, billed, lead, turns>>
    PROVE  ShopInv'
<1>1. CatalogueOK'
  BY LoadKeepsCatalogue DEF LoadUnits, ShopInv
<1>2. project' = project /\ state' = state /\ turn' = turn /\ result' = result /\ lead' = lead
  OBVIOUS
<1>3. StateOK' /\ TurnOK' /\ OffersAreReal' /\ UnitIsTheOneMeant' /\ LeadReachesItsTeam'
  BY <1>2 DEF ShopInv, StateOK, TurnOK, OffersAreReal, UnitIsTheOneMeant, LeadReachesItsTeam
<1> QED
  BY <1>1, <1>3 DEF ShopInv
-----------------------------------------------------------------------------
\* A turn ends about a unit that may be put to the customer, or about none.
LEMMA FinishInv ==
    ASSUME ShopInv, NEW reply, NEW action, NEW saved, NEW unit, NEW with,
           {"slots", "quoted"} \subseteq DOMAIN saved, NearOK(saved.slots),
           unit # NULL => /\ Real(unit, with.asked)
                          /\ \A i \in DOMAIN with.figures : with.figures[i].source # Nothing
                          /\ with.plan # NULL => Paid(with.plan, units[unit].price),
           reply \in {"payment_plan", "cash_only"} =>
              /\ turn.read # Refused /\ unit # NULL
              /\ IdsOK(saved.slots, turn.read.slots)
              /\ Meant(unit, saved.slots, state.quoted, turn.read.slots),
           Finish(reply, action, saved, unit, with)
    PROVE  ShopInv'
<1>1. CatalogueOK' /\ LeadReachesItsTeam' /\ project' = project /\ units' = units
  BY DEF Finish, ShopInv, CatalogueOK, LeadReachesItsTeam
<1>2. turn' = Idle
  BY DEF Finish
<1>3. TurnOK'
  BY <1>2 DEF TurnOK, Idle
<1>4. StateOK'
  <2>1. CASE unit = NULL
    BY <2>1 DEF Finish, StateOK
  <2>2. CASE unit # NULL
    <3>1. state' = [saved EXCEPT !.quoted = unit]
      BY <2>2 DEF Finish
    <3>2. {"slots", "quoted"} \subseteq DOMAIN state' /\ state'.slots = saved.slots
      BY <3>1
    <3> QED
      BY <3>2 DEF StateOK
  <2> QED
    BY <2>1, <2>2
<1>5. /\ result'.reply = reply /\ result'.unit = unit /\ result'.asked = with.asked
      /\ result'.figures = with.figures /\ result'.plan = with.plan
      /\ result'.quoted = state.quoted /\ result'.named = Named(saved.slots)
      /\ unit # NULL => result'.row = units[unit]
      /\ turn.read # Refused => result'.said = turn.read.slots
  BY DEF Finish
<1>6. OffersAreReal'
  <2> SUFFICES ASSUME unit # NULL PROVE OffersAreReal'
    BY <1>5 DEF OffersAreReal
  <2>1. Real(unit, with.asked) /\ (with.plan # NULL => Paid(with.plan, units[unit].price))
    OBVIOUS
  <2> QED
    BY <1>1, <1>5, <2>1 DEF OffersAreReal, Real, Paid
<1>7. UnitIsTheOneMeant'
  <2> SUFFICES ASSUME reply \in {"payment_plan", "cash_only"} PROVE UnitIsTheOneMeant'
    BY <1>5 DEF UnitIsTheOneMeant
  <2> DEFINE said == turn.read.slots
  <2>1. result'.said = said /\ result'.row = units[unit]
    BY <1>5
  <2>2. Slot(said, "unit_id") # {} => Named(saved.slots) \subseteq said["unit_id"]
    BY NamedIsHeld DEF IdsOK
  <2>3. Meant(unit, saved.slots, state.quoted, said)
    OBVIOUS
  <2> HIDE DEF said
  <2>4. Slot(said, "compound") # {} => Slot(said, "compound") = said["compound"]
    BY DEF Slot
  <2> QED
    BY <1>5, <2>1, <2>2, <2>3, <2>4 DEF UnitIsTheOneMeant, Meant, Slot
<1> QED
  BY <1>1, <1>3, <1>4, <1>6, <1>7 DEF ShopInv

LEMMA SayInv ==
    ASSUME ShopInv, NEW reply, NEW action, NEW saved,
           {"slots", "quoted"} \subseteq DOMAIN saved, NearOK(saved.slots),
           reply \notin {"payment_plan", "cash_only"}, Say(reply, action, saved)
    PROVE  ShopInv'
  BY FinishInv DEF Say

\* A reply about a unit states what is in its row, or in the schedule computed from it.
LEMMA AboutInv ==
    ASSUME ShopInv, DecidedOK(Decided, turn.read), NEW reply, NEW unit, NEW stated, NEW plan, NEW query,
           unit # NULL, Real(unit, query), plan # NULL => Paid(plan, units[unit].price),
           \A i \in DOMAIN stated : \/ stated[i] = units[unit].price
                                    \/ plan # NULL /\ \E f \in DOMAIN plan : plan[f] = stated[i],
           reply \in {"payment_plan", "cash_only"} =>
              /\ turn.read # Refused
              /\ Meant(unit, Decided.state.slots, state.quoted, turn.read.slots),
           About(reply, unit, stated, plan, query)
    PROVE  ShopInv'
<1> DEFINE figures == TraceFigures([i \in DOMAIN stated |-> [value |-> stated[i], approx |-> FALSE]],
                                   <<>>, {}, RowOf(unit), ComputationOf(unit, plan))
           with == [asked |-> query, plan |-> plan, figures |-> figures]
<1>1. Finish(reply, "answer", Decided.state, unit, with)
  BY DEF About
<1>2. ASSUME NEW i \in DOMAIN figures PROVE figures[i].source # Nothing
  <2>1. i \in DOMAIN stated /\ figures[i] =
            Trace(stated[i], <<>>, {}, RowOf(unit), ComputationOf(unit, plan))
    BY DEF TraceFigures
  <2> HIDE DEF figures
  <2>2. CASE stated[i] = units[unit].price
    BY <2>1, <2>2, RowIsTraced
  <2>3. CASE stated[i] # units[unit].price
    <3>1. PICK f \in DOMAIN plan : plan # NULL /\ plan[f] = stated[i]
      BY <2>1, <2>3
    <3> QED
      BY <2>1, <3>1, PlanIsTraced
  <2> QED
    BY <2>2, <2>3
<1>3. with.asked = query /\ with.plan = plan /\ with.figures = figures
  OBVIOUS
<1> HIDE DEF figures, with
<1> QED
  BY <1>1, <1>2, <1>3, FinishInv DEF DecidedOK
-----------------------------------------------------------------------------
LEMMA ParsedNear ==
    ASSUME NEW document, NEW catalogue,
           NEW read, read = Parse(document, Script, Specs, catalogue), read # Refused
    PROVE  NearOK(read.slots)
<1> DEFINE raw == document.slots
<1>1. /\ read.slots = [slot \in Filled(raw) |-> raw[slot]]
      /\ \A slot \in Filled(raw) : Readable(raw, slot, Specs, Vocabulary(Specs, catalogue))
  BY DEF Parse
<1>2. CASE "near_price" \in Filled(raw)
  <2>1. Readable(raw, "near_price", Specs, Vocabulary(Specs, catalogue))
    BY <1>1, <1>2
  <2>2. "near_price" \in DOMAIN Specs
    BY <2>1 DEF Readable, Vocabulary
  <2>3. Specs["near_price"].kind = "integer"
    BY <2>2, RealEstateAssumption
  <2>4. Vocabulary(Specs, catalogue)["near_price"] = Numbers
    BY <2>2, <2>3 DEF Vocabulary
  <2>5. raw["near_price"] \subseteq Numbers
    BY <2>1, <2>3, <2>4 DEF Readable
  <2> QED
    BY <1>1, <1>2, <2>5, RealEstateAssumption DEF NearOK, Slot
<1>3. CASE "near_price" \notin Filled(raw)
  BY <1>1, <1>3 DEF NearOK, Slot
<1> QED
  BY <1>2, <1>3

LEMMA BeginInv == ASSUME ShopInv, NEW document \in Documents, Begin(document) PROVE ShopInv'
<1> DEFINE catalogue == [city |-> Places(units, "city"), compound |-> Places(units, "compound")]
           read == Parse(document, Script, Specs, catalogue)
<1>1. /\ turn' = [at |-> "read", read |-> read] /\ result' = NoResult
      /\ units' = units /\ state' = state /\ lead' = lead
  BY DEF Begin
<1>2. TurnOK'
  <2>1. turn'.read = read
    BY <1>1
  <2> HIDE DEF read
  <2>2. read # Refused => NearOK(read.slots)
    BY ParsedNear DEF read
  <2> QED
    BY <2>1, <2>2 DEF TurnOK
<1>3. CatalogueOK' /\ StateOK' /\ LeadReachesItsTeam'
  BY <1>1 DEF ShopInv, CatalogueOK, StateOK, LeadReachesItsTeam
<1>4. OffersAreReal' /\ UnitIsTheOneMeant'
  BY <1>1 DEF OffersAreReal, UnitIsTheOneMeant, NoResult
<1> QED
  BY <1>2, <1>3, <1>4 DEF ShopInv

LEMMA KilledInv == ASSUME ShopInv, Killed PROVE ShopInv'
<1>1. /\ turn' = Idle /\ result' = [NoResult EXCEPT !.reply = "killed"]
      /\ units' = units /\ state' = state /\ lead' = lead
  BY DEF Killed
<1>2. result'.unit = NULL /\ result'.reply = "killed"
  BY <1>1 DEF NoResult
<1>3. CatalogueOK' /\ StateOK' /\ TurnOK' /\ LeadReachesItsTeam'
  BY <1>1 DEF ShopInv, CatalogueOK, StateOK, TurnOK, LeadReachesItsTeam, Idle
<1> QED
  BY <1>2, <1>3 DEF ShopInv, OffersAreReal, UnitIsTheOneMeant

\* What the engine made of the message that was read.
LEMMA ReadIsDecided == ASSUME ShopInv, Read PROVE turn.read # Refused /\ DecidedOK(Decided, turn.read)
  BY DecisionIsOK DEF ShopInv, Read, TurnOK, Decided

LEMMA ScriptedInv ==
    ASSUME ShopInv, Unread \/ Outside \/ NonAnswer \/ DataCurrency PROVE ShopInv'
<1>1. StateOK
  BY DEF ShopInv
<1>2. CASE Unread
  BY <1>1, <1>2, SayInv DEF Unread, StateOK
<1>3. CASE Outside
  BY <1>1, <1>3, SayInv DEF Outside, StateOK
<1>4. CASE NonAnswer
  BY <1>4, ReadIsDecided, SayInv DEF NonAnswer, DecidedOK
<1>5. CASE DataCurrency
  BY <1>5, ReadIsDecided, SayInv DEF DataCurrency, Answer, DecidedOK
<1> QED
  BY <1>2, <1>3, <1>4, <1>5

LEMMA DeliveryDateInv == ASSUME ShopInv, DeliveryDate PROVE ShopInv'
<1> DEFINE known == IF Decided.state.quoted # None THEN Decided.state.quoted
                    ELSE One(Slot(Decided.state.slots, "unit_id"))
           unit  == IF known = NULL THEN NULL ELSE Get(units, project, known)
<1>1. DecidedOK(Decided, turn.read)
  BY ReadIsDecided DEF DeliveryDate, Answer
<1>2. \/ Say("ask", "clarify", Decided.state)
      \/ Say("handoff", "handoff", Decided.state)
      \/ unit # NULL /\ About("delivery_date", unit, <<>>, NULL, AnyUnit)
  BY DEF DeliveryDate
<1>3. unit # NULL => Real(unit, AnyUnit)
  BY GotIsReal
<1> HIDE DEF unit
<1>4. CASE Say("ask", "clarify", Decided.state) \/ Say("handoff", "handoff", Decided.state)
  BY <1>1, <1>4, SayInv DEF DecidedOK
<1>5. CASE unit # NULL /\ About("delivery_date", unit, <<>>, NULL, AnyUnit)
  BY <1>1, <1>3, <1>5, AboutInv
<1> QED
  BY <1>2, <1>4, <1>5

LEMMA LookupInv == ASSUME ShopInv, Lookup PROVE ShopInv'
<1> DEFINE slots == Decided.state.slots
           found == Search(units, project, UnitOrder, QueryOf(slots), NULL)
           first == Cheapest(units, UnitOrder, found)
           other == Elsewhere(slots)
           query == [AnyUnit EXCEPT !.property_type = Slot(slots, "property_type"),
                                    !.budget_max = One(Slot(slots, "budget_max"))]
<1>1. DecidedOK(Decided, turn.read) /\ CatalogueOK
  BY ReadIsDecided DEF Lookup, Answer, ShopInv
<1>2. \/ found # {} /\ About("units_found", first, <<units[first].price>>, NULL, QueryOf(slots))
      \/ Say("no_match_anywhere", "handoff", Decided.state)
      \/ Killed
      \/ other # NULL /\ About("no_match_same_type", other, <<units[other].price>>, NULL, query)
  BY DEF Lookup
<1>3. found # {} => Real(first, QueryOf(slots))
  <2> SUFFICES ASSUME found # {} PROVE Real(first, QueryOf(slots))
    OBVIOUS
  <2>1. \A u \in found : Real(u, QueryOf(slots))
    BY SearchIsReal
  <2> HIDE DEF found
  <2>2. found \subseteq DOMAIN units
    BY <2>1 DEF Real
  <2>3. first \in found
    BY <1>1, <2>2, CheapestIsOne
  <2> QED
    BY <2>1, <2>3
<1>4. other # NULL => Real(other, query)
  <2> SUFFICES ASSUME other # NULL PROVE Real(other, query)
    OBVIOUS
  <2> DEFINE S == {u \in Search(units, project, UnitOrder, query, MaxLimit) :
                      /\ {units[u].city} # Slot(slots, "city")
                      /\ {units[u].compound} # Slot(slots, "compound")
                      /\ units[u].compound # NULL}
  <2>1. S # {} /\ other = Cheapest(units, UnitOrder, S)
    BY DEF Elsewhere
  <2>2. \A u \in S : Real(u, query)
    BY SearchIsReal
  <2> HIDE DEF S, other, query
  <2>3. S \subseteq DOMAIN units
    BY <2>2 DEF Real
  <2>4. other \in S
    BY <1>1, <2>1, <2>3, CheapestIsOne
  <2> QED
    BY <2>2, <2>4
<1> HIDE DEF found, first, other, query, slots
<1>5. ASSUME NEW reply, reply \notin {"payment_plan", "cash_only"}, NEW unit, NEW q, Real(unit, q),
             About(reply, unit, <<units[unit].price>>, NULL, q)
      PROVE  ShopInv'
  <2>1. CASE unit # NULL
    BY <1>1, <1>5, <2>1, AboutInv
  <2>2. CASE unit = NULL
    <3>1. PICK with : Finish(reply, "answer", Decided.state, NULL, with)
      BY <1>5, <2>2 DEF About
    <3> QED
      BY <1>1, <1>5, <3>1, FinishInv DEF DecidedOK
  <2> QED
    BY <2>1, <2>2
<1>6. CASE found # {} /\ About("units_found", first, <<units[first].price>>, NULL, QueryOf(slots))
  BY <1>3, <1>5, <1>6
<1>7. CASE other # NULL /\ About("no_match_same_type", other, <<units[other].price>>, NULL, query)
  BY <1>4, <1>5, <1>7
<1> QED
  BY <1>1, <1>2, <1>6, <1>7, SayInv, KilledInv DEF DecidedOK

LEMMA PaymentPlanInv == ASSUME ShopInv, PaymentPlan PROVE ShopInv'
<1> DEFINE slots == Decided.state.slots
           said  == turn.read.slots
           unit  == ResolveUnit(slots, Decided.state.quoted, said)
           terms == units[unit].payment_plan
           plan  == Schedule(units[unit])
           stated == <<plan.down, plan.each, plan.years, plan.count>>
<1>1. DecidedOK(Decided, turn.read) /\ CatalogueOK /\ turn.read # Refused
  BY ReadIsDecided DEF PaymentPlan, Answer, ShopInv
<1>2. \/ Say("handoff", "handoff", Decided.state)
      \/ Killed
      \/ unit # NULL /\ About("cash_only", unit, <<units[unit].price>>, NULL, AnyUnit)
      \/ /\ unit # NULL /\ terms # NULL /\ terms.count # 0
         /\ About("payment_plan", unit, stated, plan, AnyUnit)
  BY DEF PaymentPlan, Offered
<1>3. unit # NULL =>
         /\ Real(unit, AnyUnit)
         /\ Meant(unit, slots, state.quoted, said)
  <2>1. NearOK(slots) /\ Decided.state.quoted = state.quoted
    BY <1>1 DEF DecidedOK
  <2> QED
    BY <1>1, <2>1, ResolvedIsReal
<1>4. unit # NULL /\ terms # NULL /\ terms.count # 0 =>
          Paid(plan, units[unit].price) /\ plan # NULL
  <2> SUFFICES ASSUME unit # NULL, terms # NULL, terms.count # 0
               PROVE  Paid(plan, units[unit].price) /\ plan # NULL
    OBVIOUS
  <2>1. unit \in DOMAIN units
    BY <1>3 DEF Real
  <2>2. /\ units[unit].price \in Nat /\ terms.pct \in Nat /\ terms.years \in Nat
        /\ terms.count \in Nat \ {0}
    BY <1>1, <2>1 DEF CatalogueOK, PlanOK
  <2> QED
    BY <2>2, ScheduleIsPaid
<1>5. \A i \in DOMAIN stated : \E f \in DOMAIN plan : plan[f] = stated[i]
  <2>1. /\ {"down", "each", "years", "count"} \subseteq DOMAIN plan
        /\ plan["down"] = plan.down /\ plan["each"] = plan.each
        /\ plan["years"] = plan.years /\ plan["count"] = plan.count
    BY DEF Schedule
  <2> HIDE DEF plan
  <2>2. DOMAIN stated = 1..4 /\ stated[1] = plan.down /\ stated[2] = plan.each
        /\ stated[3] = plan.years /\ stated[4] = plan.count
    OBVIOUS
  <2> QED
    BY <2>1, <2>2
<1> HIDE DEF unit, plan, slots, said
<1>6. CASE unit # NULL /\ About("cash_only", unit, <<units[unit].price>>, NULL, AnyUnit)
  BY <1>1, <1>3, <1>6, AboutInv DEF slots, said
<1>7. CASE /\ unit # NULL /\ terms # NULL /\ terms.count # 0
           /\ About("payment_plan", unit, stated, plan, AnyUnit)
  <2>1. Paid(plan, units[unit].price) /\ plan # NULL /\ Real(unit, AnyUnit)
    BY <1>3, <1>4, <1>7
  <2>2. \A i \in DOMAIN stated : plan # NULL /\ \E f \in DOMAIN plan : plan[f] = stated[i]
    BY <1>5, <2>1
  <2> HIDE DEF stated
  <2> QED
    BY <1>1, <1>3, <1>7, <2>1, <2>2, AboutInv DEF slots, said
<1> QED
  BY <1>1, <1>2, <1>6, <1>7, SayInv, KilledInv DEF DecidedOK, slots, said
-----------------------------------------------------------------------------
\* The team that claims the type, or else the last that claims none.
LEMMA RouteReaches ==
    ASSUME NEW kind, Route(kind) # NULL
    PROVE  \E i \in DOMAIN Teams :
              /\ Teams[i].key = Route(kind) /\ Teams[i].kind \in {kind, NULL}
              /\ (\E j \in DOMAIN Teams : kind # NULL /\ Teams[j].kind = kind) => Teams[i].kind = kind
<1> DEFINE Own  == {i \in 1..Len(Teams) : kind # NULL /\ Teams[i].kind = kind}
           Rest == {i \in 1..Len(Teams) : Teams[i].kind = NULL}
<1>1. Len(Teams) \in Nat /\ DOMAIN Teams = 1..Len(Teams)
  BY RealEstateAssumption
<1>2. Route(kind) = IF (IF Own # {} THEN Min(Own) ELSE 0) # 0
                    THEN Teams[IF Own # {} THEN Min(Own) ELSE 0].key
                    ELSE IF (IF Rest # {} THEN Max(Rest) ELSE 0) # 0
                    THEN Teams[IF Rest # {} THEN Max(Rest) ELSE 0].key ELSE NULL
  BY DEF Route, SelectInSeq, SelectLastInSeq
<1>3. Own \subseteq 1..Len(Teams) /\ Rest \subseteq 1..Len(Teams)
  OBVIOUS
<1>4. Own # {} => Min(Own) \in Own
  <2> HIDE DEF Own
  <2>1. Own \subseteq Nat
    BY <1>1, <1>3
  <2> QED
    BY <2>1, LeastIsOne
<1>5. Rest # {} => Max(Rest) \in Rest
  <2> HIDE DEF Rest
  <2> SUFFICES ASSUME Rest # {} PROVE Max(Rest) \in Rest
    OBVIOUS
  <2>1. \E u \in Rest : \A w \in Rest : w <= u
    BY <1>1, <1>3, LastIsOne
  <2>2. \E u \in Rest : \A w \in Rest : u >= w
    BY <1>1, <1>3, <2>1
  <2> QED
    BY <2>2 DEF Max
<1>6. CASE Own # {}
  <2> DEFINE i == Min(Own)
  <2>1. i \in Own /\ i # 0
    BY <1>4, <1>6
  <2>2. Route(kind) = Teams[i].key
    BY <1>2, <1>6, <2>1
  <2> HIDE DEF i
  <2> QED
    BY <1>1, <2>1, <2>2
<1>7. CASE Own = {}
  <2>1. Route(kind) = IF (IF Rest # {} THEN Max(Rest) ELSE 0) # 0
                      THEN Teams[IF Rest # {} THEN Max(Rest) ELSE 0].key ELSE NULL
    BY <1>2, <1>7
  <2> DEFINE i == Max(Rest)
  <2>2. i \in Rest /\ Route(kind) = Teams[i].key
    BY <1>5, <2>1
  <2> HIDE DEF i
  <2>3. ~ \E j \in DOMAIN Teams : kind # NULL /\ Teams[j].kind = kind
    BY <1>1, <1>7
  <2> QED
    BY <1>1, <2>2, <2>3
<1> QED
  BY <1>6, <1>7

LEMMA OpenLeadInv == ASSUME ShopInv, OpenLead PROVE ShopInv'
<1> DEFINE kind == One(Slot(state.slots, "property_type"))
<1>1. /\ lead'.team = Route(kind) /\ lead'.kind = kind
      /\ UNCHANGED <<units, project, state, turn, result>>
  BY DEF OpenLead
<1> HIDE DEF kind
<1>2. LeadReachesItsTeam'
  BY <1>1, RouteReaches DEF LeadReachesItsTeam
<1>3. CatalogueOK' /\ StateOK' /\ TurnOK' /\ OffersAreReal' /\ UnitIsTheOneMeant'
  BY <1>1 DEF ShopInv, CatalogueOK, StateOK, TurnOK, OffersAreReal, UnitIsTheOneMeant
<1> QED
  BY <1>2, <1>3 DEF ShopInv
-----------------------------------------------------------------------------
LEMMA InitInv == Init => ShopInv
<1> SUFFICES ASSUME Init PROVE ShopInv
  OBVIOUS
<1>1. CatalogueOK
  BY DEF Init, CatalogueOK
<1>2. StateOK /\ TurnOK
  BY DEF Init, StateOK, StartState, NearOK, Slot, TurnOK, Idle
<1>3. OffersAreReal /\ UnitIsTheOneMeant /\ LeadReachesItsTeam
  BY DEF Init, NoResult, NoLead, OffersAreReal, UnitIsTheOneMeant, LeadReachesItsTeam
<1> QED
  BY <1>1, <1>2, <1>3 DEF ShopInv

LEMMA InvStep == ShopInv /\ [Next]_vars => ShopInv'
<1> SUFFICES ASSUME ShopInv, [Next]_vars PROVE ShopInv'
  OBVIOUS
<1>1. CASE UNCHANGED vars
  BY <1>1 DEF vars, ShopInv, CatalogueOK, StateOK, TurnOK, OffersAreReal, UnitIsTheOneMeant,
              LeadReachesItsTeam
<1>2. ASSUME NEW records \in {ToUnits(sheet) : sheet \in Sheets} \cup Snapshots, LoadUnits(records),
             UNCHANGED <<project, state, turn, result, billed, lead, turns>>
      PROVE  ShopInv'
  BY <1>2, LoadInv DEF Loads
<1>3. CASE \E document \in Documents : Begin(document)
  BY <1>3, BeginInv
<1>4. CASE Killed
  BY <1>4, KilledInv
<1>5. CASE Unread \/ Outside \/ NonAnswer \/ DataCurrency
  BY <1>5, ScriptedInv
<1>6. CASE DeliveryDate
  BY <1>6, DeliveryDateInv
<1>7. CASE Lookup
  BY <1>7, LookupInv
<1>8. CASE PaymentPlan
  BY <1>8, PaymentPlanInv
<1>9. CASE OpenLead
  BY <1>9, OpenLeadInv
<1> QED
  BY <1>1, <1>2, <1>3, <1>4, <1>5, <1>6, <1>7, <1>8, <1>9 DEF Next

LEMMA InvHolds == Spec => []ShopInv
  BY InitInv, InvStep, PTL DEF Spec

\* What is put to a customer is real: on sale, in the tenant's own project and what they
\* asked for, with every figure traced to its row or its schedule, and a schedule that
\* pays the price to the last unit of money.
THEOREM OffersStayReal == Spec => []OffersAreReal
<1>1. ShopInv => OffersAreReal
  BY DEF ShopInv
<1> QED
  BY <1>1, InvHolds, PTL

\* A plan is about the unit of the id that is held, which is this message's if it gives
\* one; or else about the place this message names; or else about the unit in hand,
\* whatever other places the conversation has held.
THEOREM TheUnitMeantIsAnswered == Spec => []UnitIsTheOneMeant
<1>1. ShopInv => UnitIsTheOneMeant
  BY DEF ShopInv
<1> QED
  BY <1>1, InvHolds, PTL

\* A lead goes to the team that claims its type, and to no other specialist.
THEOREM LeadsFindTheirTeam == Spec => []LeadReachesItsTeam
<1>1. ShopInv => LeadReachesItsTeam
  BY DEF ShopInv
<1> QED
  BY <1>1, InvHolds, PTL
=============================================================================
