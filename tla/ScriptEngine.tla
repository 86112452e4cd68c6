---------------------------- MODULE ScriptEngine ----------------------------
(***************************************************************************)
(* agent/script_engine.py and state.py: what kind of turn this is, from the *)
(* conversation's state, the script and what the message was read as.  Pure.*)
(***************************************************************************)
EXTENDS Integers, Sequences, SequencesExt

CONSTANTS None,        \* no intent, no node, no confidence
          Threshold,   \* confidence_threshold: the platform's, never a script's
          Raised       \* what a turn that raises comes to

\* A script: [id, version, entry, max, narrows, nodes]; narrows holds <<narrower,
\* wider>> pairs, nodes is in the document's order.  A node: [name, intents, action,
\* requires, any, optional, asks, grounding, offer, topic].  A turn: [intent, slots,
\* cleared, grounded, confidence, human].  A state: [script, version, node, slots,
\* count, quoted].
Fallback == "fallback"

NodeNames(script)  == {script.nodes[i].name : i \in DOMAIN script.nodes}
NodeOf(script, name) == script.nodes[CHOOSE i \in DOMAIN script.nodes :
                                        script.nodes[i].name = name]
\* _by_intent: a later node takes an intent from an earlier one.
ByIntent(script, intent) ==
    LET naming == {i \in DOMAIN script.nodes : intent \in script.nodes[i].intents}
    IN  IF naming = {} THEN Fallback
        ELSE script.nodes[CHOOSE i \in naming : \A j \in naming : j <= i].name

StartState(script) == [script |-> script.id, version |-> script.version,
                       node |-> script.entry, slots |-> <<>>, count |-> 0, quoted |-> None]

\* with_slots: what the turn says, over what is held and not cleared.
WithSlots(held, said, cleared) ==
    [s \in DOMAIN said \cup (DOMAIN held \ cleared) |->
        IF s \in DOMAIN said THEN said[s] ELSE held[s]]

\* _stale: held values inside a wider one that this turn replaced.
Stale(script, held, said) ==
    {p[1] : p \in {q \in script.narrows :
        q[2] \in DOMAIN said /\ q[1] \notin DOMAIN said /\ q[1] \in DOMAIN held}}

\* Slip: only a slot the node cannot do without is one it asked for.
ResumesRequired(script, state, turn) ==
    IF turn.intent # None \/ turn.slots = <<>> \/ state.node \notin NodeNames(script) THEN None
    ELSE IF DOMAIN turn.slots \cap NodeOf(script, state.node).requires = {} THEN None
    ELSE state.node

\* resumes: the node that asked, when a bare value for a slot it reads comes back.
Resumes(script, state, turn) ==
    IF turn.intent # None \/ turn.slots = <<>> \/ state.node \notin NodeNames(script)
    THEN None
    ELSE LET node == NodeOf(script, state.node)
         IN  IF DOMAIN turn.slots \cap (node.requires \cup node.any \cup node.optional) = {}
             THEN None ELSE state.node

\* The node a turn is about.
ChosenNode(script, state, turn) ==
    LET resumed == Resumes(script, state, turn)
    IN  IF turn.intent = None /\ turn.cleared # {} /\ state.node \in NodeNames(script)
        THEN state.node
        ELSE IF resumed # None THEN resumed ELSE ByIntent(script, turn.intent)

\* Slip: only a clarification with a slot to ask for is counted.
CountMissing(state, name, missing) ==
    [state EXCEPT !.node = name, !.count = IF missing = {} THEN 0 ELSE @ + 1]

\* _count_clarification and _reset_clarifications.
Counted(state, name, missing) == [state EXCEPT !.node = name, !.count = @ + 1]
ResetCount(state, name)       == [state EXCEPT !.node = name, !.count = 0]

Decision(action, name, state) ==
    [action |-> action, node |-> name, state |-> state, missing |-> {}, ask |-> None,
     gate |-> FALSE, grounding |-> FALSE]

Clarify(script, state, name, missing, gate) ==
    [Decision("clarify", name, Counted(state, name, missing)) EXCEPT
        !.missing = missing, !.gate = gate,
        !.ask = IF missing = {} THEN None ELSE NodeOf(script, name).asks]

Handoff(state, name) == Decision("handoff", name, ResetCount(state, name))

\* The loop limit: enough failed attempts, and a person takes over.
AtLimit(script, state) == state.count >= script.max

\* The gate: nothing to answer from, or a score under the bar.
GateShut(turn) ==
    \/ ~turn.grounded
    \/ turn.confidence # None /\ turn.confidence < Threshold

\* advance, past the pinned version: handoff, limit, node, slots, gate, then the node.
Decide(script, held, turn, name) ==
    LET node    == NodeOf(script, name)
        missing == {s \in node.requires : s \notin DOMAIN held.slots}
    IN  IF turn.human \/ AtLimit(script, held) \/ node.action = "handoff"
        THEN Handoff(held, name)
        ELSE IF missing # {} THEN Clarify(script, held, name, missing, FALSE)
        ELSE IF node.any # {} /\ node.any \cap DOMAIN held.slots = {}
        THEN Clarify(script, held, name, node.any, FALSE)
        ELSE IF node.action = "answer" /\ GateShut(turn)
        THEN IF Fallback \in NodeNames(script)
             THEN Clarify(script, held, Fallback, {}, TRUE) ELSE Raised
        ELSE IF node.action = "clarify" THEN Clarify(script, held, name, {}, FALSE)
        ELSE [Decision(node.action, name, ResetCount(held, name)) EXCEPT
                 !.grounding = node.grounding]

\* _require_pinned_version: an engine refuses a state of another version.
Pinned(script, state) == state.version = script.version

Advance(script, state, turn) ==
    LET name == ChosenNode(script, state, turn)
        held == [state EXCEPT !.slots = WithSlots(@, turn.slots,
                     turn.cleared \cup Stale(script, @, turn.slots))]
    IN  IF ~Pinned(script, state) \/ name \notin NodeNames(script)
        THEN Raised ELSE Decide(script, held, turn, name)

\* What the script can be asked about, in its own order, and its nodes' words.
Offers(script) ==
    LET offering == SelectSeq(script.nodes, LAMBDA n : n.offer # None)
    IN  [i \in DOMAIN offering |-> offering[i].offer]
TopicOf(script, name) == IF name \in NodeNames(script) THEN NodeOf(script, name).topic ELSE None
=============================================================================
