------------------------------ MODULE Inventory ------------------------------
(***************************************************************************)
(* retrieval/inventory_import.py and inventory.py: a broker's sheet read    *)
(* into units, and the queries a turn may make of them.  Pure: `units` is   *)
(* inventory_units, by unit id.                                             *)
(***************************************************************************)
EXTENDS Integers, Sequences, FiniteSets

CONSTANTS NULL,       \* an empty cell, an unset column, no project
          Aliases,    \* by header as folded: the column it is an alias of
          Statuses,   \* by status as folded: the status this platform knows
          Numerals,   \* by cell that reads as a figure: the figure
          Required,   \* the columns a row must fill
          Available,  \* available_status
          DefaultLimit, MaxLimit

ASSUME InventoryAssumption ==
    /\ {"unit_id", "price"} \subseteq Required   \* the table's key, and a figure the bot states
    \* _number keeps digits and a point, and a price is an integer
    /\ NULL \notin Nat /\ \A cell \in DOMAIN Numerals : Numerals[cell] \in Nat

\* propose_mapping: the first header that is a column's alias is that column's.
Naming(headers, column) ==
    {i \in DOMAIN headers : headers[i] \in DOMAIN Aliases /\ Aliases[headers[i]] = column}
Mapping(headers) ==
    [c \in {column \in {Aliases[h] : h \in DOMAIN Aliases} : Naming(headers, column) # {}} |->
        headers[CHOOSE i \in Naming(headers, c) : \A j \in Naming(headers, c) : i <= j]]
Missing(headers) == Required \ DOMAIN Mapping(headers)

\* _status: a status nobody mapped is kept as it is, and is not the available one.
StatusOf(raw) == IF raw \in DOMAIN Statuses THEN Statuses[raw] ELSE raw

\* _row_to_unit, and the reason it may be refused for.  No header is the plan's: what a
\* sheet says nothing of is None.
RowToUnit(row, mapping) ==
    LET Cell(c)   == IF c \in DOMAIN mapping THEN row[mapping[c]] ELSE NULL
        Number(c) == IF Cell(c) \in DOMAIN Numerals THEN Numerals[Cell(c)] ELSE NULL
    IN  [unit_id |-> Cell("unit_id"), property_type |-> Cell("property_type"),
         compound |-> Cell("compound"), city |-> Cell("city"),
         price |-> Number("price"), bedrooms |-> Number("bedrooms"),
         availability |-> StatusOf(Cell("availability")), payment_plan |-> NULL]
Refusable(unit) == \E c \in Required : unit[c] = NULL

\* read_sheet: the rows that have everything required, by row.
Accepted(sheet) ==
    LET unit == [i \in DOMAIN sheet.rows |-> RowToUnit(sheet.rows[i], Mapping(sheet.headers))]
    IN  [i \in {j \in DOMAIN unit : ~Refusable(unit[j])} |-> unit[i]]

\* load_units: an upsert by unit id, the last record of a unit winning; what the snapshot
\* no longer names stays as it was.
Load(units, records) ==
    LET Recorded(id) == {i \in DOMAIN records : records[i].unit_id = id}
    IN  [id \in DOMAIN units \cup {records[i].unit_id : i \in DOMAIN records} |->
            IF Recorded(id) = {} THEN units[id]
            ELSE records[CHOOSE i \in Recorded(id) : \A j \in Recorded(id) : j <= i]]

\* to_units: nothing at all while a required column has no header.
ToUnits(sheet) == IF Missing(sheet.headers) # {} THEN <<>> ELSE Accepted(sheet)
-----------------------------------------------------------------------------
\* A query: [city, compound, property_type, bedrooms] as the sets that will do, {} for
\* any, and [budget_max] as a number or NULL.
AnyUnit == [city |-> {}, compound |-> {}, property_type |-> {}, bedrooms |-> {},
            budget_max |-> NULL]

\* The two predicates no statement is without: for sale, and in the tenant's project.
OnSale(units, project) ==
    {u \in DOMAIN units : /\ units[u].availability = Available
                          /\ project = NULL \/ units[u].compound = project}

Matches(unit, query) ==
    /\ \A c \in {"city", "compound", "property_type", "bedrooms"} :
           query[c] = {} \/ unit[c] \in query[c]
    /\ query.budget_max # NULL => unit.price <= query.budget_max

\* The cheapest first, as far as the limit.
Cheaper(units, order, a, b) ==
    \/ units[a].price < units[b].price
    \/ units[a].price = units[b].price /\ order[a] < order[b]
Limit(asked) == IF asked = NULL THEN DefaultLimit ELSE IF asked > MaxLimit THEN MaxLimit ELSE asked
Search(units, project, order, query, limit) ==
    LET found == {u \in OnSale(units, project) : Matches(units[u], query)}
    IN  {u \in found :
            Cardinality({w \in found : Cheaper(units, order, w, u)}) < Limit(limit)}
Cheapest(units, order, offered) ==
    CHOOSE u \in offered : \A w \in offered : ~Cheaper(units, order, w, u)

\* get: the same two predicates, by id.
Get(units, project, unit) == IF unit \in OnSale(units, project) THEN unit ELSE NULL

\* vocabulary: the places of every unit on sale, whatever the project.
Places(units, column) == {units[u][column] : u \in OnSale(units, NULL)} \ {NULL}
=============================================================================
