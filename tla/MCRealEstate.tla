----------------------------- MODULE MCRealEstate -----------------------------
EXTENDS RealEstate

N(name, action, any, asks) ==
    [name |-> name, intents |-> {name}, action |-> action, requires |-> {}, any |-> any,
     optional |-> {}, asks |-> asks, grounding |-> action = "answer", offer |-> None,
     topic |-> None]
MCScript == [id |-> "realestate_search", version |-> 1, entry |-> "fallback", max |-> 3,
    narrows |-> {<<"compound", "city">>},
    nodes |-> << N("inventory_lookup", "answer",
                   {"city", "compound", "property_type", "unit_id", "near_price"}, "property_type"),
                 N("staleness", "answer", {}, None), N("delivery_date", "answer", {}, None),
                 N("payment_plan", "answer", {}, "unit_id"), N("negotiation", "handoff", {}, None),
                 N("fallback", "clarify", {}, None) >>]
Catalogued(column) == [kind |-> "catalogue", values |-> {}, column |-> column]
Integer == [kind |-> "integer", values |-> {}, column |-> None]
MCSpecs == [property_type |-> [kind |-> "values", values |-> {"flat", "villa"}, column |-> None],
            city |-> Catalogued("city"), compound |-> Catalogued("compound"),
            bedrooms |-> Integer, budget_max |-> Integer, near_price |-> Integer,
            unit_id |-> [kind |-> "free", values |-> {}, column |-> None]]

Doc(intent, slots) ==
    [intent |-> intent, slots |-> slots, clear |-> {}, human |-> FALSE, language |-> None]
MCDocuments ==
    { Garbled, Doc("staleness", <<>>), Doc("delivery_date", <<>>), Doc("payment_plan", <<>>),
      Doc("negotiation", <<>>), Doc("payment_plan", [compound |-> {"madinaty"}]),
      Doc("payment_plan", [compound |-> {"noor"}, near_price |-> {9}]),
      Doc("payment_plan", [unit_id |-> {"n1"}]),
      Doc("payment_plan", [unit_id |-> {"m1"}, compound |-> {"noor"}]),
      Doc("payment_plan", [compound |-> {"zed"}]),
      Doc("inventory_lookup", [property_type |-> {"flat"}, city |-> {"giza"}]),
      Doc("inventory_lookup", [property_type |-> {"flat", "villa"}, budget_max |-> {9},
                               city |-> {"giza"}]),
      Doc("inventory_lookup", [compound |-> {"noor"}, bedrooms |-> {3}]) }

Unit(id, type, compound, city, price, bedrooms, availability, plan) ==
    [unit_id |-> id, property_type |-> type, compound |-> compound, city |-> city, price |-> price,
     bedrooms |-> bedrooms, availability |-> availability, payment_plan |-> plan]
Plan(pct, count, years, frequency, interest) ==
    [pct |-> pct, count |-> count, years |-> years, frequency |-> frequency, interest |-> interest]
MCSnapshots ==
    { << Unit("n1", "flat", "noor", "cairo", 7, 2, "available", Plan(10, 4, 1, "quarterly", 0)),
         Unit("n2", "villa", "noor", "cairo", 9, 3, "available", Plan(20, 2, 1, "semi-annually", 0)),
         Unit("m1", "flat", "madinaty", "giza", 10, 2, "available", Plan(25, 4, 1, "quarterly", 0)) >>,
      << Unit("m1", "flat", "madinaty", "giza", 11, 2, "sold", NULL),
         Unit("z1", "villa", "zed", "giza", 12, 2, "available", Plan(10, 0, 0, "quarterly", 0)) >> }

Row(id, type, price, status) == [code |-> id, kind |-> type, price |-> price, status |-> status]
MCSheets ==
    { [headers |-> <<"code", "kind", "price", "status">>,
       rows |-> << Row("n1", "flat", "seven", "resale"), Row("m1", "flat", "eight", "vacant"),
                   Row("n2", NULL, "nine", "vacant") >>],
      [headers |-> <<"kind", "price", "status">>, rows |-> << Row("n1", "flat", "six", "vacant") >>] }
MCAliases == [code |-> "unit_id", kind |-> "property_type", price |-> "price",
              status |-> "availability"]
MCNumerals == [seven |-> 7, eight |-> 8, nine |-> 9, six |-> 6]
MCStatuses == [vacant |-> "available", available |-> "available", sold |-> "sold"]
MCOrder    == [m1 |-> 1, n1 |-> 2, n2 |-> 3, z1 |-> 4]
MCTeams    == << [key |-> "villas", kind |-> "villa"], [key |-> "sales", kind |-> NULL] >>
MCPerYear  == [quarterly |-> 4] @@ ("semi-annually" :> 2)
=============================================================================
