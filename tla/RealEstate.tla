----------------------------- MODULE RealEstate -----------------------------
(***************************************************************************)
(* verticals/realestate: one customer's turns about a catalogue that sheets *)
(* are loaded into meanwhile.  A price is a row's and a plan the            *)
(* calculator's: no model composes a figure.                                *)
(***************************************************************************)
EXTENDS Reading, Grounding, Inventory

CONSTANTS Sheets,      \* what the broker may export
          Snapshots,   \* what may be loaded as it is: canonical records
          Projects,    \* tenants.project may be: NULL for a broker
          Script, Specs,
          Documents,   \* what the extractor may answer
          Teams,       \* sales_teams, in ORDER BY property_type NULLS LAST, team_key
          PerYear,     \* PAYMENTS_PER_YEAR
          UnitOrder,   \* the ids' own order, for equal prices
          MaxTurns     \* bound: turns of the conversation

ASSUME RealEstateAssumption ==
    /\ MaxTurns \in Nat \ {0}
    /\ Teams \in Seq(Range(Teams))
    /\ Nothing \notin {"inventory", "calculator"}
    /\ NULL \notin [total : Int, down : Int, each : Int, count : Int, last : Int, years : Int]
    /\ Numbers \subseteq Int
    /\ "near_price" \in DOMAIN Specs => Specs["near_price"].kind = "integer"
    \* ORDER BY price, unit_id: ids have an order of their own
    /\ \A id \in DOMAIN UnitOrder : UnitOrder[id] \in Nat
    /\ \A records \in {ToUnits(sheet) : sheet \in Sheets} \cup Snapshots :
          \A i \in DOMAIN records : records[i].unit_id \in DOMAIN UnitOrder
    /\ \A sheet \in Sheets : sheet.rows \in Seq(Range(sheet.rows))
    \* a price is a bigint that is not null; a plan's terms are counts, none of them checked
    /\ \A records \in Snapshots :
          /\ records \in Seq(Range(records))
          /\ \A i \in DOMAIN records :
                /\ records[i].price \in Nat
                /\ records[i].payment_plan # NULL =>
                      \A term \in {"pct", "count", "years"} : records[i].payment_plan[term] \in Nat

VARIABLES units,   \* inventory_units
          project, \* tenants.project, which nothing here changes
          state,   \* conversations.state
          turn,    \* the turn being taken: what was read, and what it was read against
          result,  \* the last InventoryTurn
          billed,  \* usage_ledger rows, by kind
          lead,    \* the last lead opened
          turns    \* turns taken

vars == <<units, project, state, turn, result, billed, lead, turns>>

Idle     == [at |-> "idle", read |-> None]
NoResult == [reply |-> "none", action |-> "none", unit |-> NULL, row |-> NULL, asked |-> AnyUnit,
             figures |-> <<>>, plan |-> NULL, said |-> <<>>, quoted |-> None, named |-> {}]
NoLead   == [team |-> NULL, kind |-> NULL, qualified |-> FALSE, score |-> 0]

Init == /\ units = <<>> /\ project \in Projects /\ state = StartState(Script) /\ turn = Idle /\ result = NoResult
        /\ billed = [message_in |-> 0, message_out |-> 0, llm_call |-> 0]
        /\ lead = NoLead /\ turns = 0

Bill(kinds) == billed' = [k \in DOMAIN billed |-> billed[k] + Cardinality(kinds \cap {k})]
-----------------------------------------------------------------------------
\* payment_schedule: the developer's own plan, in whole units of money, or none at all.
Offered(plan) == /\ plan # NULL /\ plan.interest = 0 /\ plan.frequency \in DOMAIN PerYear
                 /\ plan.count = plan.years * PerYear[plan.frequency]

\* Slip: each instalment is rounded up, and the last one pays for it.
RoundedUp(row) ==
    LET plan == row.payment_plan
        down == (row.price * plan.pct + 50) \div 100
        each == (row.price - down + plan.count - 1) \div plan.count
    IN  [total |-> row.price, down |-> down, each |-> each, count |-> plan.count,
         last |-> row.price - down - each * (plan.count - 1), years |-> plan.years]

Schedule(row) ==
    LET plan == row.payment_plan
        down == (row.price * plan.pct + 50) \div 100
        each == (row.price - down) \div plan.count
    IN  [total |-> row.price, down |-> down, each |-> each, count |-> plan.count,
         last |-> row.price - down - each * (plan.count - 1), years |-> plan.years]

\* _row_of and _computation_of: what a figure of the reply may be traced to.
RowOf(unit) == <<[id |-> unit, values |-> [price |-> units[unit].price,
                                           bedrooms |-> units[unit].bedrooms]]>>
ComputationOf(unit, plan) == IF plan = NULL THEN <<>> ELSE <<[id |-> unit, values |-> plan]>>

Slot(slots, name)  == IF name \in DOMAIN slots THEN slots[name] ELSE {}
One(values)        == IF Cardinality(values) = 1 THEN CHOOSE v \in values : TRUE ELSE NULL
QueryOf(slots) ==
    [city |-> Slot(slots, "city"), compound |-> Slot(slots, "compound"),
     property_type |-> Slot(slots, "property_type"), bedrooms |-> Slot(slots, "bedrooms"),
     budget_max |-> One(Slot(slots, "budget_max"))]

\* route_no_match's search: the type asked for, in neither place asked about.
Elsewhere(slots) ==
    LET query == [AnyUnit EXCEPT !.property_type = Slot(slots, "property_type"),
                                 !.budget_max = One(Slot(slots, "budget_max"))]
        found == {u \in Search(units, project, UnitOrder, query, MaxLimit) :
                      /\ {units[u].city} # Slot(slots, "city")
                      /\ {units[u].compound} # Slot(slots, "compound")
                      /\ units[u].compound # NULL}
    IN  IF Slot(slots, "property_type") = {} \/ found = {} THEN NULL
        ELSE Cheapest(units, UnitOrder, found)

\* _outside_project: a place named in this message, and not the developer's.
OutsideProject(said) ==
    project # NULL /\ \E c \in Slot(said, "compound") : c # project

\* Slip: the place is the one the conversation has held, not this message's.
MergedPlace(slots, quoted, said) ==
    LET there == Search(units, project, UnitOrder,
                        [AnyUnit EXCEPT !.compound = Slot(slots, "compound")], MaxLimit)
    IN  IF there = {} \/ Slot(slots, "compound") = {} THEN NULL
        ELSE Cheapest(units, UnitOrder, there)

\* The unit with a plan nearest the price quoted, or else the cheapest there.
Nearest(there, target) ==
    LET planned == {u \in there : units[u].payment_plan # NULL}
        Off(u)  == IF units[u].price >= target THEN units[u].price - target
                                               ELSE target - units[u].price
        nearest == {u \in planned : \A w \in planned : Off(u) <= Off(w)}
    IN  IF there = {} THEN NULL
        ELSE Cheapest(units, UnitOrder,
                      IF planned = {} THEN there ELSE IF target = NULL THEN planned ELSE nearest)

\* _resolve_unit: an id that is held, the unit in hand unless this message names
\* another place, the place this message names.  The id and the price to be near are the
\* merged slots': an earlier turn's may be meant.
ResolveUnit(slots, quoted, said) ==
    LET named  == One(Slot(slots, "unit_id"))
        wanted == Slot(said, "compound")
        held   == IF quoted = None THEN NULL ELSE Get(units, project, quoted)
    IN  IF named # NULL /\ Get(units, project, named) # NULL THEN named
        ELSE IF held # NULL /\ (wanted = {} \/ wanted = {units[held].compound}) THEN held
        ELSE IF wanted = {} THEN held
        ELSE Nearest(Search(units, project, UnitOrder, [AnyUnit EXCEPT !.compound = wanted],
                            MaxLimit),
                     One(Slot(slots, "near_price")))
-----------------------------------------------------------------------------
\* import_inventory and a snapshot's load, whatever a turn is doing.
LoadUnits(records) ==
    units' = Load(units, records) /\ units' # units

\* The one id the conversation holds, where that is a unit on sale.
Named(slots) == LET id == One(Slot(slots, "unit_id"))
                IN  IF Get(units, project, id) = NULL THEN {} ELSE {id}

\* InventoryRunner.handle: the vocabulary is this moment's, then the extractor is asked.
Begin(document) ==
    /\ turns' = turns + 1
    /\ turn' = [at |-> "read",
                read |-> Parse(document, Script, Specs,
                               [city |-> Places(units, "city"),
                                compound |-> Places(units, "compound")])]
    /\ result' = NoResult
    /\ UNCHANGED <<units, project, state, billed, lead>>

Without == [figures |-> <<>>, plan |-> NULL, asked |-> AnyUnit]
Finish(reply, action, saved, unit, with) ==
    /\ result' = [reply |-> reply, action |-> action, unit |-> unit,
                  row |-> IF unit = NULL THEN NULL ELSE units[unit], asked |-> with.asked,
                  figures |-> with.figures, plan |-> with.plan,
                  said |-> IF turn.read = Refused THEN <<>> ELSE turn.read.slots,
                  quoted |-> state.quoted, named |-> Named(saved.slots)]
    /\ state' = IF unit = NULL THEN saved ELSE [saved EXCEPT !.quoted = unit]
    /\ turn' = Idle
    /\ UNCHANGED <<units, project, lead, turns>>
Say(reply, action, saved) == Finish(reply, action, saved, NULL, Without)
Told == Bill({"message_in", "llm_call", "message_out"})

\* Nothing catches an outage of the extractor, nor an engine that raises: rolled back.
Killed == /\ turn.at = "read" /\ turn' = Idle /\ result' = [NoResult EXCEPT !.reply = "killed"]
          /\ UNCHANGED <<units, project, state, billed, lead, turns>>

Unread ==
    /\ turn.at = "read" /\ turn.read = Refused
    /\ Bill({"message_out"})
    /\ Say("handoff", "handoff", state)

Outside ==
    /\ turn.at = "read" /\ turn.read # Refused /\ OutsideProject(turn.read.slots)
    /\ Told /\ Say("outside_project", "refuse", state)

Decided == Advance(Script, state, turn.read)
Read    == /\ turn.at = "read" /\ turn.read # Refused /\ ~OutsideProject(turn.read.slots)
           /\ Decided # Raised
Answer(node) == Read /\ Decided.action = "answer" /\ Decided.node = node

NonAnswer ==
    /\ Read /\ Decided.action # "answer"
    /\ Told /\ Say("scripted", Decided.action, Decided.state)

DataCurrency ==
    /\ Answer("staleness")
    /\ Told /\ Say("data_currency", "answer", Decided.state)

\* A reply about one unit, with the figures it states traced to the row and the plan.
About(reply, unit, stated, plan, query) ==
    Finish(reply, "answer", Decided.state, unit,
           [asked |-> query, plan |-> plan,
            figures |-> TraceFigures([i \in DOMAIN stated |-> [value |-> stated[i], approx |-> FALSE]],
                                     <<>>, {}, RowOf(unit), ComputationOf(unit, plan))])

DeliveryDate ==
    /\ Answer("delivery_date") /\ Told
    /\ LET known == IF Decided.state.quoted # None THEN Decided.state.quoted
                    ELSE One(Slot(Decided.state.slots, "unit_id"))
           unit  == IF known = NULL THEN NULL ELSE Get(units, project, known)
       IN  IF known = NULL THEN Say("ask", "clarify", Decided.state)
           ELSE IF unit = NULL
           THEN Say("handoff", "handoff", Decided.state)
           ELSE About("delivery_date", unit, <<>>, NULL, AnyUnit)

\* _lookup: the cheapest match; failing that the same type elsewhere; failing that a person.
\* An alternative to a list of types is refused by render_no_match, which raises.
Lookup ==
    /\ Answer("inventory_lookup")
    /\ LET slots == Decided.state.slots
           found == Search(units, project, UnitOrder, QueryOf(slots), NULL)
           other == Elsewhere(slots)
           first == Cheapest(units, UnitOrder, found)
       IN  IF found # {}
           THEN /\ Told
                /\ About("units_found", first, <<units[first].price>>, NULL, QueryOf(slots))
           ELSE IF other = NULL
           THEN Told /\ Say("no_match_anywhere", "handoff", Decided.state)
           ELSE IF ~TypesKept(One(Slot(slots, "property_type")),
                              [u \in {other} |-> units[u].property_type])
           THEN Killed
           ELSE /\ Told
                /\ About("no_match_same_type", other, <<units[other].price>>, NULL,
                         [AnyUnit EXCEPT !.property_type = Slot(slots, "property_type"),
                                         !.budget_max = One(Slot(slots, "budget_max"))])

\* _payment_plan: the schedule, or the cash price when the developer publishes none.  The
\* length of a plan is not checked: one of no instalments is divided by, which raises.
PaymentPlan ==
    /\ Answer("payment_plan")
    /\ LET unit == ResolveUnit(Decided.state.slots, Decided.state.quoted, turn.read.slots)
       IN  IF unit = NULL
           THEN Told /\ Say("handoff", "handoff", Decided.state)
           ELSE IF ~Offered(units[unit].payment_plan)
           THEN Told /\ About("cash_only", unit, <<units[unit].price>>, NULL, AnyUnit)
           ELSE IF units[unit].payment_plan.count = 0
           THEN Killed
           ELSE LET plan == Schedule(units[unit])
                IN  Told /\ About("payment_plan", unit,
                                  <<plan.down, plan.each, plan.years, plan.count>>, plan, AnyUnit)
-----------------------------------------------------------------------------
\* qualify: what is known, counted; a type and a budget make it a call to make.
Known(slots, names) == {n \in names : n \in DOMAIN slots}
Budgeted(slots)     == Known(slots, {"budget_max", "budget_min"}) # {}
Qualified(slots)    == "property_type" \in DOMAIN slots /\ Budgeted(slots)
Score(slots) ==
    Cardinality(Known(slots, {"property_type", "city", "compound", "bedrooms", "delivery_date"}))
        + IF Budgeted(slots) THEN 1 ELSE 0

\* Slip: the only specialist gets whatever comes.
NearestTeam(kind) ==
    LET own == SelectInSeq(Teams, LAMBDA t : t.kind = kind)
    IN  IF own # 0 THEN Teams[own].key ELSE IF Teams = <<>> THEN NULL ELSE Teams[1].key

\* route: the team that claims the type, the fallback, or nobody.
Route(kind) ==
    LET own  == SelectInSeq(Teams, LAMBDA t : kind # NULL /\ t.kind = kind)
        rest == SelectLastInSeq(Teams, LAMBDA t : t.kind = NULL)
    IN  IF own # 0 THEN Teams[own].key ELSE IF rest # 0 THEN Teams[rest].key ELSE NULL

\* open_lead: the handoff opens whether or not there is a team for it.
OpenLead ==
    /\ turn.at = "idle" /\ result.action = "handoff"
    /\ lead' = [team |-> Route(One(Slot(state.slots, "property_type"))),
                kind |-> One(Slot(state.slots, "property_type")),
                qualified |-> Qualified(state.slots), score |-> Score(state.slots)]
    /\ UNCHANGED <<units, project, state, turn, result, billed, turns>>

Next == \/ /\ \E records \in {ToUnits(sheet) : sheet \in Sheets} \cup Snapshots : LoadUnits(records)
           /\ UNCHANGED <<project, state, turn, result, billed, lead, turns>>
        \/ turn.at = "idle" /\ turns < MaxTurns /\ \E document \in Documents : Begin(document)
        \/ Killed \/ Unread \/ Outside \/ NonAnswer
        \/ DataCurrency \/ DeliveryDate \/ Lookup \/ PaymentPlan
        \/ OpenLead
        \/ turns = MaxTurns /\ turn.at = "idle" /\ UNCHANGED vars

Spec == Init /\ [][Next]_vars
-----------------------------------------------------------------------------
\* A unit put to a customer was on sale, in the tenant's own project, and what they had
\* asked for; every figure said of it is in its row or its schedule, and the schedule
\* pays the price exactly, the last instalment never the smaller one.
OffersAreReal ==
    result.unit # NULL =>
        /\ result.row.availability = Available
        /\ project # NULL => result.row.compound = project
        /\ Matches(result.row, result.asked)
        /\ \A i \in DOMAIN result.figures : result.figures[i].source # Nothing
        /\ result.plan # NULL =>
              /\ result.plan.down + result.plan.each * (result.plan.count - 1) + result.plan.last
                    = result.row.price
              /\ result.plan.last \in result.plan.each..(result.plan.each + result.plan.count - 1)

\* A plan or a cash price is about the unit on sale whose id the conversation holds, and
\* that is this message's id if it gives one; without such an id it is about a unit of the
\* place this message names, and about the unit in hand when it names none.  (The
\* docstring has a place named now beat an id of an earlier message; the code does not.)
UnitIsTheOneMeant ==
    result.reply \in {"payment_plan", "cash_only"} =>
        /\ Slot(result.said, "unit_id") # {} => result.named \subseteq result.said["unit_id"]
        /\ IF result.named # {} THEN result.named = {result.unit}
           ELSE IF Slot(result.said, "compound") # {}
           THEN result.row.compound \in result.said["compound"]
           ELSE result.unit = result.quoted

\* A lead goes to the team that claims its type if there is one, and otherwise never to
\* a team that claims another.
LeadReachesItsTeam ==
    lead.team # NULL =>
        \E i \in DOMAIN Teams :
            /\ Teams[i].key = lead.team
            /\ Teams[i].kind \in {lead.kind, NULL}
            /\ (\E j \in DOMAIN Teams : lead.kind # NULL /\ Teams[j].kind = lead.kind)
                   => Teams[i].kind = lead.kind
=============================================================================
