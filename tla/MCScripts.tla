------------------------------ MODULE MCScripts ------------------------------
EXTENDS Scripts, TLC

CONSTANTS e1, e2

N(name, intents, action, requires, any, optional, asks) ==
    [name |-> name, intents |-> intents, action |-> action, requires |-> requires,
     any |-> any, optional |-> optional, asks |-> asks, grounding |-> action = "answer",
     offer |-> name, topic |-> name]

\* The fees node asks for a faculty; units asks for an area or the city it is in.
Nodes == << N("fees", {"fees"}, "answer", {"faculty"}, {}, {}, "faculty"),
            N("units", {"buy"}, "answer", {}, {"city", "area"}, {}, "city"),
            N("fallback", {}, "clarify", {}, {}, {}, None) >>

Script(version, max, nodes) ==
    [id |-> "fees", version |-> version, entry |-> None, max |-> max,
     narrows |-> {<<"area", "city">>}, nodes |-> nodes]

MCFile   == Script(1, 1, Nodes)
\* One without a fallback, one that lets a customer be asked twice.
MCBodies == { Script(1, 1, SubSeq(Nodes, 1, 2)), Script(2, 2, SubSeq(Nodes, 1, 1) \o SubSeq(Nodes, 3, 3)) }

T(intent, slots, cleared, grounded, human) ==
    [intent |-> intent, slots |-> slots, cleared |-> cleared, grounded |-> grounded,
     confidence |-> None, human |-> human]

MCTurns == { T("fees", <<>>, {}, TRUE, FALSE), T(None, [faculty |-> 1], {}, FALSE, FALSE),
             T("buy", <<>>, {}, TRUE, FALSE), T(None, [city |-> 1], {}, TRUE, FALSE),
             T(None, <<>>, {"city"}, TRUE, FALSE), T(None, <<>>, {}, FALSE, TRUE) }

MCSymmetry == Permutations({e1, e2})
=============================================================================
