------------------------------- MODULE Ledger -------------------------------
(***************************************************************************)
(* tenancy/metering.py, pricing.py and analytics.py: what one use costs,    *)
(* the row it leaves on usage_ledger, and the report read back from it.     *)
(* A use is [kind, model, input, output, cached, write]; money is counted   *)
(* in whole units per token.                                                *)
(***************************************************************************)
EXTENDS Integers, Sequences, SequencesExt, TLC

CONSTANTS Rates,     \* billing/pricing: by model, its rates, and perhaps [threshold, long]
          NoModel,   \* a row that names no model
          Unpriced   \* NULL: nobody knows what it cost

Use(kind, model, input, output, cached, write) ==
    [kind |-> kind, model |-> model, input |-> input, output |-> output,
     cached |-> cached, write |-> write]
Message(kind) == Use(kind, NoModel, 0, 0, 0, 0)

\* _rate: a rate nobody set is not zero.
RateOf(book, key) == IF key \in DOMAIN book THEN book[key] ELSE 0

\* The whole prompt decides the tier, and the tier prices the whole request.
IsLong(use, rates) == /\ "threshold" \in DOMAIN rates
                      /\ use.input + use.cached + use.write > rates.threshold

CostIn(use, book) ==
    IF /\ {"input", "output"} \subseteq DOMAIN book
       /\ use.cached > 0 => "cached" \in DOMAIN book
       /\ use.write > 0 => "write" \in DOMAIN book
    THEN book["input"] * use.input + book["output"] * use.output
            + RateOf(book, "cached") * use.cached + RateOf(book, "write") * use.write
    ELSE Unpriced

Price(use) ==
    IF use.model \notin DOMAIN Rates THEN [usd |-> Unpriced, tier |-> "short"]
    ELSE LET rates == Rates[use.model]
         IN  IF IsLong(use, rates)
             THEN [usd |-> CostIn(use, rates["long"]), tier |-> "long"]
             ELSE [usd |-> CostIn(use, rates), tier |-> "short"]

\* record_usage: a row that names a model is priced as it is written.
Row(use) ==
    LET priced == IF use.model = NoModel THEN [usd |-> Unpriced, tier |-> NoModel]
                                         ELSE Price(use)
    IN  [kind |-> use.kind, model |-> use.model, input |-> use.input, output |-> use.output,
         cached |-> use.cached, write |-> use.write, usd |-> priced.usd, tier |-> priced.tier]
RecordUsage(ledger, use) == Append(ledger, Row(use))
RecordEach(ledger, uses) == ledger \o [i \in DOMAIN uses |-> Row(uses[i])]

\* AnalyticsStore.report: rows are chosen by their places on the ledger.
ModelRows(ledger)        == {i \in DOMAIN ledger : ledger[i].model # NoModel}
RowsOf(ledger, model)    == {i \in ModelRows(ledger) : ledger[i].model = model}
UnpricedIn(ledger, rows) == Cardinality({i \in rows : ledger[i].usd = Unpriced})
Spent(ledger, rows)      == MapThenSumSet(LAMBDA i : ledger[i].usd, rows)

\* One unpriced row leaves its model's whole cost unknown, and out of the total.
ByModel(ledger) == [m \in {ledger[i].model : i \in ModelRows(ledger)} |->
    LET rows == RowsOf(ledger, m)
    IN  IF UnpricedIn(ledger, rows) > 0 THEN Unpriced ELSE Spent(ledger, rows)]

Report(ledger, conversations, handed) ==
    LET cost     == ByModel(ledger)
        unpriced == UnpricedIn(ledger, ModelRows(ledger))
    IN  [by_model       |-> cost,
         cost_usd       |-> MapThenSumSet(LAMBDA m : cost[m],
                                          {m \in DOMAIN cost : cost[m] # Unpriced}),
         unpriced_calls |-> unpriced,
         complete       |-> unpriced = 0,
         containment    |-> IF conversations = 0 THEN Unpriced
                            ELSE <<conversations - handed, conversations>>]
=============================================================================
