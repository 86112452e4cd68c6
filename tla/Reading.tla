------------------------------- MODULE Reading -------------------------------
(***************************************************************************)
(* agent/extraction.py: what a model's answer is read as.  A document is    *)
(* [intent, slots, clear, human, language]; a slot's raw value is the set   *)
(* of values it lists, {} when it is null, blank or an empty list.          *)
(***************************************************************************)
EXTENDS Integers, Sequences, FiniteSets, ScriptEngine

CONSTANTS Numbers,     \* values _as_int can read
          Languages,   \* what a reply can be written in
          Garbled,     \* an answer that is not a JSON object
          Refused      \* ExtractionFailed

\* slot_vocabulary: a slot's spec is [kind, values, column].
Vocabulary(specs, catalogue) ==
    [slot \in DOMAIN specs |->
        LET kind == specs[slot].kind
        IN  IF kind = "integer" THEN Numbers
            ELSE IF kind = "values" THEN specs[slot].values
            ELSE IF kind = "catalogue" THEN catalogue[specs[slot].column]
            ELSE {}]   \* free: whatever it says is its value

IntentNames(script) == UNION {n.intents : n \in Range(script.nodes)}
Filled(raw)         == {slot \in DOMAIN raw : raw[slot] # {}}

\* _validate, for one slot that says something.
Readable(raw, slot, specs, vocabulary) ==
    /\ slot \in DOMAIN vocabulary
    /\ \/ specs[slot].kind = "free"
       \/ /\ raw[slot] \subseteq vocabulary[slot]
          /\ specs[slot].kind = "integer" => Cardinality(raw[slot]) = 1

\* _cleared: declared slots, none of them set as well.
Clearable(clear, raw, specs) == clear \subseteq DOMAIN specs /\ clear \cap Filled(raw) = {}

\* _parse: an object whose intent routes, whose slots parse back and whose language
\* replies are written in; anything else is refused, and nothing is read by halves.
Parse(document, script, specs, catalogue) ==
    IF document = Garbled THEN Refused
    ELSE IF /\ document.intent # None => document.intent \in IntentNames(script)
            /\ \A slot \in Filled(document.slots) :
                   Readable(document.slots, slot, specs, Vocabulary(specs, catalogue))
            /\ Clearable(document.clear, document.slots, specs)
            /\ document.language # None => document.language \in Languages
         THEN [intent |-> document.intent,
               slots |-> [slot \in Filled(document.slots) |-> document.slots[slot]],
               cleared |-> document.clear, human |-> document.human,
               language |-> document.language, grounded |-> TRUE, confidence |-> None]
         ELSE Refused
=============================================================================
