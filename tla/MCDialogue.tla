------------------------------ MODULE MCDialogue ------------------------------
EXTENDS Dialogue

N(name, intents, action, requires, any, asks, topic) ==
    [name |-> name, intents |-> intents, action |-> action, requires |-> requires,
     any |-> any, optional |-> {}, asks |-> asks, grounding |-> action = "answer",
     offer |-> IF action = "answer" THEN name ELSE None, topic |-> topic]

MCScript == [id |-> "edu", version |-> 1, entry |-> None, max |-> 2, narrows |-> {},
    nodes |-> << N("fees", {"fees"}, "answer", {"faculty", "branch"}, {}, "faculty", "fees"),
                 N("visa", {"visa"}, "refuse", {}, {}, None, None),
                 N("fallback", {}, "clarify", {}, {}, None, None) >>]
MCSpecs == [faculty |-> [kind |-> "values", values |-> {"medicine"}, column |-> None],
            branch  |-> [kind |-> "catalogue", values |-> {}, column |-> "branch"]]
MCCatalogue == [branch |-> {"arish"}]

Doc(intent, slots, clear, language) ==
    [intent |-> intent, slots |-> slots, clear |-> clear, human |-> FALSE, language |-> language]
Msg(matches, docs, looks) == [length |-> 4, matches |-> matches, docs |-> docs, looks |-> looks]
Hit(label, from, to) == [label |-> label, from |-> from, to |-> to]

Whole == [faculty |-> {"medicine"}, branch |-> {"arish"}]
MCMessages ==
    { Msg(<<Hit("phone", 1, 2), Hit("card", 2, 4)>>,
          {Doc("fees", Whole, {}, "ar"), Doc("fees", [faculty |-> {"medicine"}], {}, None)}, "en"),
      Msg(<<>>, {Doc(None, [branch |-> {"arish"}, faculty |-> {}], {}, None),
                 Doc(None, [branch |-> {"cairo"}], {}, None), Garbled}, "ar"),
      Msg(<<>>, {Doc("visa", <<>>, {"branch"}, "en"), Doc(None, <<>>, {}, None)}, "en") }

P(id, figures) == [id |-> id, figures |-> figures, sentences |-> <<figures>>]
R(passages, constants, tokens) ==
    [passages |-> passages, sources |-> passages, constants |-> constants,
     confidence |-> None, tokens |-> tokens]
MCRetrievals == { R(<<P("c1", {10, 25})>>, {}, 1), R(<<>>, {}, 0), R(<<>>, {7}, 1) }

Q(value, approx) == [value |-> value, approx |-> approx]
MCCompletions ==
    { [empty |-> FALSE, figures |-> f, model |-> "sonnet", degraded |-> FALSE] :
          f \in { <<>>, <<Q(10, FALSE)>>, <<Q(10, TRUE)>>, <<Q(7, FALSE), Q(25, FALSE)>> } }
    \cup { [empty |-> TRUE, figures |-> <<>>, model |-> "preview", degraded |-> TRUE] }
MCAnswers == { Fault, Malformed, <<[figure |-> 1, span |-> {10, 25}]>>,
               <<[figure |-> 10, span |-> Nothing]>> }
MCInside == {<<1, 10>>}

MCRates == [haiku |-> [input |-> 1, output |-> 5], embed |-> [input |-> 1, output |-> 0],
            sonnet |-> [input |-> 2, output |-> 10, cached |-> 1, threshold |-> 4,
                        long |-> [input |-> 4, output |-> 15, cached |-> 2]]]
MCExtracting == Use("llm_call", "haiku", 2, 1, 0, 0)
MCComposing  == Use("llm_call", "sonnet", 2, 1, 3, 0)
MCAuditing   == Use("llm_call", "haiku", 3, 1, 0, 0)
MCEmbedding  == Use("embedding_call", "embed", 1, 0, 0, 0)

MCRegisters == [fees |-> "msa", visa |-> "msa", fallback |-> "masri"]
MCReplies   == [refuse |-> {"visa"}, verify |-> {"fees"}, clarify |-> {"greeting"},
                ask |-> {"faculty", "branch"}, nouns |-> {"faculty", "branch"}]
=============================================================================
