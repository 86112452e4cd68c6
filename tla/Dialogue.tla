------------------------------ MODULE Dialogue ------------------------------
(***************************************************************************)
(* agent/orchestrator.py, with composition.py and replies.py: one customer's *)
(* turns through redaction, extraction and retrieval side by side, the      *)
(* engine, composition and the two figure gates, against providers that may *)
(* be down or refuse a request.  Every use goes on the ledger, in the turn's *)
(* own transaction.                                                         *)
(***************************************************************************)
EXTENDS Reading, Ledger, Grounding

CONSTANTS Script, Specs, Catalogue,  \* what this conversation runs on
          Messages,    \* [length, matches, docs, looks]: docs are what a model may make of it
          Retrievals,  \* [passages, sources, constants, confidence, tokens, titles]
          Completions, \* [empty, figures, model, degraded]
          Answers,     \* what the auditor may answer
          Extracting, Composing, Auditing, Embedding,  \* what each call uses, by kind
          Registers,   \* each node's register
          Replies,     \* agent/replies: [refuse, verify, clarify, ask, nouns]
          MaxTurns     \* bound: turns of the conversation

\* What a turn may use: each a call that was answered, by the model it was answered by.
Uses == {Extracting, Embedding, Auditing} \cup {[Composing EXCEPT !.model = c.model] : c \in Completions}

ASSUME DialogueAssumption ==
    /\ MaxTurns \in Nat \ {0}
    \* agent/state.Action, which the script's schema holds a node's action to
    /\ \A n \in Range(Script.nodes) : n.action \in {"answer", "clarify", "handoff", "refuse"}
    \* a pattern matches some of the text, never nothing of it
    /\ \A m \in Messages :
          /\ m.matches \in Seq(Range(m.matches))
          /\ \A hit \in Range(m.matches) : hit.from \in Int /\ hit.to \in Int /\ hit.from < hit.to
    \* fusion.sources: "one entry per passage, in the same order"
    /\ \A r \in Retrievals : r.passages \in Seq(Range(r.passages)) /\ r.sources = r.passages
    /\ None # "unread" /\ None \notin Uses /\ \A u \in Uses :
          u = Use(u.kind, u.model, u.input, u.output, u.cached, u.write) /\ u.model # NoModel
    /\ Nothing \notin {"inventory", "calculator", "chunk", "script"}

VARIABLES state,   \* conversations.state
          turn,    \* the turn being taken: what handle() holds
          ledger,  \* usage_ledger, with what the open transaction has added
          result,  \* the last turn's TurnResult
          owed,    \* history: the provider calls of turns that reached the engine
          asked,   \* history: clarifying replies since the last other turn of the engine
          turns    \* turns taken

vars == <<state, turn, ledger, result, owed, asked, turns>>

Clarifying == {"clarify", "low_confidence"}
Failing    == {"provider_unavailable", "grounding_failed"}
\* A reply: its sentence, the node or the offers it is about, the slots it asks for.
Reply(key, of, asks, speaks) == [key |-> key, of |-> of, asks |-> asks, speaks |-> speaks]
\* A TurnResult, of a turn nobody composed.
Outcome(reply, action, lang, degraded, outage, cause) ==
    [reply |-> reply, action |-> action, lang |-> lang, degraded |-> degraded,
     outage |-> outage, cause |-> cause,
     composed |-> FALSE, figures |-> <<>>, searched |-> None, provenance |-> <<>>, gates |-> None]

Idle == [at |-> "idle", message |-> None, read |-> None, searches |-> <<>>, failed |-> None,
         lang |-> None, decision |-> None, completion |-> None, calls |-> <<>>,
         sent |-> {}, before |-> <<>>, usage |-> None, audit |-> None]
NoReply    == Reply("none", {}, {}, None)
Nobody(why) == Outcome(NoReply, "none", None, FALSE, FALSE, why)
NoResult   == Nobody(None)

Init == /\ state = StartState(Script) /\ turn = Idle /\ ledger = <<>> /\ result = NoResult
        /\ owed = <<>> /\ asked = 0 /\ turns = 0

\* resolve: the customer's language decides English or not, the register the rest.
Speaks(register, lang) ==
    IF lang = "en" THEN "english"
    ELSE IF lang = "ar" /\ register = "english" THEN "masri" ELSE register

ClearText == ClearOf(turn.message)
Retrieved == turn.searches[Len(turn.searches)]
\* A call that answered: what it used, and the text it was given.
Calling(use) == [turn EXCEPT !.calls = Append(@, use), !.sent = @ \cup ClearText]

\* handle, up to the gather: redact, and the message on the ledger.
Receive(m) ==
    /\ turns' = turns + 1
    /\ turn' = [Idle EXCEPT !.at = "gather", !.message = m, !.before = ledger]
    /\ ledger' = RecordUsage(ledger, Message("message_in"))
    /\ result' = NoResult
    /\ UNCHANGED <<state, owed, asked>>

Failing1(why) == [turn EXCEPT !.failed = IF @ = None THEN why ELSE @]

\* The two halves of the gather, in either order; the first to raise is what it raises.
Extract ==
    /\ turn.at = "gather" /\ turn.usage = None /\ turn.failed = None
    /\ \/ turn' = [Failing1("down") EXCEPT !.read = Refused]
       \/ turn' = [Failing1("rejected") EXCEPT !.read = Refused]
       \/ \E doc \in turn.message.docs :
            LET read   == Parse(doc, Script, Specs, Catalogue)
                called == Calling(Extracting)
            IN  turn' = IF read = Refused THEN [called EXCEPT !.read = read, !.failed = "unread"]
                        ELSE [called EXCEPT !.read = read, !.usage = Extracting]
    /\ UNCHANGED <<state, ledger, result, owed, asked, turns>>

Searched(r) == LET called == IF r.tokens > 0 THEN Calling(Embedding) ELSE turn
               IN  [called EXCEPT !.searches = Append(@, r)]
Search ==
    /\ turn.at = "gather" /\ turn.searches = <<>> /\ turn.failed = None
    /\ \/ turn' = Failing1("embedding")
       \/ \E r \in Retrievals : turn' = Searched(r)
    /\ UNCHANGED <<state, ledger, result, owed, asked, turns>>

\* What the customer is told, and what the caller persists.  reached: the engine ran.
Finish(outcome, saved, reached) ==
    /\ result' = outcome
    /\ state' = saved
    /\ turn' = Idle
    /\ ledger' = RecordUsage(ledger, Message("message_out"))
    /\ owed' = IF reached THEN owed \o turn.calls ELSE owed
    /\ asked' = IF ~reached THEN asked
                ELSE IF outcome.reply.key \in Clarifying THEN asked + 1 ELSE 0
    /\ UNCHANGED turns

Plain(key) == Reply(key, {}, {}, Speaks("masri", turn.message.looks))

\* _unavailable and _beyond_vocabulary: no decision exists, and the state stays.
Unavailable ==
    /\ turn.at = "gather" /\ turn.failed = "down"
    /\ Finish(Outcome(Plain("provider_unavailable"), "handoff", None, TRUE, TRUE, None), state, FALSE)
BeyondVocabulary ==
    /\ turn.at = "gather" /\ turn.failed = "unread"
    /\ Finish(Outcome(Plain("handoff"), "handoff", None, FALSE, FALSE, None), state, FALSE)

\* Nothing catches it: the caller's transaction rolls back with every row of the turn.
Killed(why) ==
    /\ result' = Nobody(why)
    /\ ledger' = turn.before /\ turn' = Idle
    /\ UNCHANGED <<state, owed, asked, turns>>
KilledInGather == /\ turn.at = "gather" /\ turn.failed \in {"embedding", "rejected"}
                  /\ Killed(turn.failed)

\* The extraction is metered, and a turn that resumes a node searches for its topic.
Resume ==
    /\ turn.at = "gather" /\ turn.failed = None /\ turn.usage # None /\ turn.searches # <<>>
    /\ ledger' = RecordUsage(ledger, turn.usage)
    /\ LET resumed == Resumes(Script, state, turn.read)
       IN  turn' = [turn EXCEPT !.at =
               IF resumed # None /\ TopicOf(Script, resumed) # None THEN "requery" ELSE "decide"]
    /\ UNCHANGED <<state, result, owed, asked, turns>>

Requery ==
    /\ turn.at = "requery"
    /\ \/ Killed("embedding")
       \/ /\ \E r \in Retrievals : turn' = [Searched(r) EXCEPT !.at = "decide"]
          /\ UNCHANGED <<state, ledger, result, owed, asked, turns>>

\* Slip: only the search the turn answered from is metered.
LastSearchOnly == IF Retrieved.tokens > 0 THEN <<Embedding>> ELSE <<>>

\* Every search that embedded, each a row of its own.
Embeddings == [n \in 1..Cardinality({i \in DOMAIN turn.searches : turn.searches[i].tokens > 0}) |->
                  Embedding]

\* Confidence and grounding are the retrieval's, whatever the model said of itself.
Decided ==
    Advance(Script, state, [turn.read EXCEPT
        !.confidence = Retrieved.confidence,
        !.grounded = Retrieved.passages # <<>> \/ Retrieved.constants # {}])
Choose ==
    /\ turn.at = "decide"
    /\ IF Decided = Raised THEN Killed("engine")
       ELSE /\ ledger' = RecordEach(ledger, Embeddings)
            /\ turn' = [turn EXCEPT !.at = "resolve", !.decision = Decided,
                   !.lang = IF turn.read.language # None THEN turn.read.language
                                                         ELSE turn.message.looks]
            /\ UNCHANGED <<state, result, owed, asked, turns>>
-----------------------------------------------------------------------------
\* _non_answer_key.
NonAnswerKey(decision) ==
    IF decision.action \in {"handoff", "refuse"} THEN decision.action
    ELSE IF decision.gate THEN "low_confidence" ELSE "clarify"

\* _ask_for: one slot by the sentence written for it, several by their nouns.
AskFor(decision) ==
    LET missing == IF decision.missing # {} THEN decision.missing
                   ELSE {decision.ask} \ {None}
    IN  IF Cardinality(missing) = 1 THEN missing \cap Replies.ask
        ELSE IF Cardinality(missing \cap Replies.nouns) >= 2 THEN missing \cap Replies.nouns
        ELSE {}

\* _reply_text: a node's own words where it has them, then what is missing, then
\* what the script can be asked about, then the plain sentence.
ReplyText(key, decision, lang) ==
    LET speaks  == Speaks(Registers[decision.node], lang)
        own     == IF key = "refuse" THEN Replies.refuse
                   ELSE IF key = "grounding_failed" THEN Replies.verify
                   ELSE IF key = "clarify" THEN Replies.clarify ELSE {}
    IN  IF decision.node \in own \/ key # "clarify"
        THEN Reply(key, {decision.node} \cap own, {}, speaks)
        ELSE IF AskFor(decision) # {} THEN Reply(key, {}, AskFor(decision), speaks)
        ELSE Reply(key, Range(Offers(Script)), {}, speaks)

\* Slip: a turn whose answer failed leaves the conversation where it was.
FailureKeepsState(key, lang, degraded, outage) ==
    Finish(Outcome(ReplyText(key, turn.decision, lang),
                   IF key \in Failing THEN "handoff" ELSE turn.decision.action,
                   turn.lang, degraded, outage, None),
           IF key \in Failing THEN state ELSE turn.decision.state, TRUE)

\* _scripted: an outage and an ungrounded figure are a person's turn, whatever was decided.
Scripted(key, lang, degraded, outage) ==
    Finish(Outcome(ReplyText(key, turn.decision, lang),
                   IF key \in Failing THEN "handoff" ELSE turn.decision.action,
                   turn.lang, degraded, outage, None),
           turn.decision.state, TRUE)

ScriptedReply ==
    /\ turn.at = "resolve" /\ turn.decision.action # "answer"
    /\ Scripted(NonAnswerKey(turn.decision), turn.lang, FALSE, FALSE)

\* _compose: the words, from this search's passages and what the customer has said.
Compose ==
    /\ turn.at = "resolve" /\ turn.decision.action = "answer"
    /\ \/ Scripted("provider_unavailable", turn.message.looks, TRUE, TRUE)
       \/ Killed("rejected")
       \/ \E c \in Completions :
            /\ turn' = [Calling([Composing EXCEPT !.model = c.model]) EXCEPT
                            !.at = "check", !.completion = c]
            /\ ledger' = RecordUsage(ledger, [Composing EXCEPT !.model = c.model])
            /\ UNCHANGED <<state, result, owed, asked, turns>>

\* Nothing but white space is an outage to the customer.
Silence ==
    /\ turn.at = "check" /\ turn.completion.empty
    /\ Scripted("provider_unavailable", turn.message.looks, TRUE, FALSE)

\* Slip: a reply is discarded only when both gates are against it.
EitherGate(audit) ==
    \/ NumbersGrounded(turn.completion.figures, Retrieved.passages, Retrieved.constants)
    \/ audit.passed

\* The two gates.
MaySend(audit) ==
    /\ NumbersGrounded(turn.completion.figures, Retrieved.passages, Retrieved.constants)
    /\ audit.passed

\* _audit: a call of its own, when there is a figure; metered when it answered.
AuditFigures ==
    /\ turn.at = "check" /\ ~turn.completion.empty
    /\ \E answer \in IF turn.completion.figures = <<>> THEN {Nothing} ELSE Answers :
         LET called == answer \notin {Nothing, Fault}
         IN  /\ turn' = [(IF called THEN [turn EXCEPT !.calls = Append(@, Auditing)] ELSE turn)
                           EXCEPT !.at = "send",
                 !.audit = Audit(answer, Material(Retrieved.passages, Retrieved.constants))]
             /\ ledger' = IF called THEN RecordUsage(ledger, Auditing) ELSE ledger
    /\ UNCHANGED <<state, result, owed, asked, turns>>

Discard ==
    /\ turn.at = "send" /\ ~MaySend(turn.audit)
    /\ Scripted("grounding_failed", turn.message.looks,
                turn.completion.degraded \/ turn.audit.degraded, FALSE)

\* The reply goes as composed, with where each of its figures was found.
SendComposed ==
    /\ turn.at = "send" /\ MaySend(turn.audit)
    /\ Finish([reply |-> Reply("composed", {}, {},
                               Speaks(Registers[turn.decision.node], turn.lang)),
               action |-> "answer", lang |-> turn.lang, degraded |-> turn.completion.degraded,
               outage |-> FALSE, cause |-> None,
               composed |-> TRUE, figures |-> turn.completion.figures, searched |-> Retrieved,
               provenance |-> TraceFigures(turn.completion.figures, Retrieved.sources,
                                           Retrieved.constants, <<>>, <<>>),
               gates |-> turn.audit],
              turn.decision.state, TRUE)

Next == \/ turn.at = "idle" /\ turns < MaxTurns /\ \E m \in Messages : Receive(m)
        \/ Extract \/ Search \/ Unavailable \/ BeyondVocabulary \/ KilledInGather
        \/ Resume \/ Requery \/ Choose
        \/ ScriptedReply \/ Compose \/ Silence \/ AuditFigures \/ Discard \/ SendComposed
        \/ turns = MaxTurns /\ turn.at = "idle" /\ UNCHANGED vars

Spec == Init /\ [][Next]_vars
-----------------------------------------------------------------------------
Times(seq, x) == Cardinality({i \in DOMAIN seq : seq[i] = x})

\* Every provider call of every turn that reached the engine and ended is on the
\* ledger once, as itself, and nothing else is; the report reads as complete exactly
\* when each of them could be priced (orchestrator.py: an unmetered call is in no report).
LedgerIsComplete ==
    turn.at = "idle" =>
        /\ Cardinality(ModelRows(ledger)) = Len(owed)
        /\ \A u \in Range(owed) : Times(ledger, Row(u)) = Times(owed, u)
        /\ Report(ledger, 1, 0).complete = (\A u \in Range(owed) : Price(u).usd # Unpriced)

\* No figure reaches the customer unless the search the reply was composed from holds
\* it exactly, the auditor did not disown it, and its source can be shown to an agent.
OnlyGroundedFigures ==
    result.composed =>
        /\ result.gates.passed
        /\ \A i \in DOMAIN result.figures :
              /\ result.figures[i].value \in
                    SourceNumbers(result.searched.passages, result.searched.constants)
              /\ ~result.figures[i].approx
              /\ result.provenance[i].source # Nothing

\* The count that hands a customer over is the number of clarifying replies they were
\* sent in a row: outages before the engine do not touch it, failures after it reset it.
CountsTheQuestions == turn.at = "idle" => state.count = asked

\* A clarification never asks for a slot the conversation, as saved, already holds.
NeverAsksWhatItHolds ==
    turn.at = "idle" /\ result.reply.key = "clarify" =>
        result.reply.asks \cap DOMAIN state.slots = {}

\* What the bot asks, turn after turn, and how often before it hands over.
QuestionsAreKept == CountsTheQuestions /\ NeverAsksWhatItHolds

\* No provider is given the whole of anything a redaction pattern matched.
NoMatchIsSent ==
    turn.at # "idle" =>
        \A m \in Range(turn.message.matches) : ~(m.from..(m.to - 1) \subseteq turn.sent)
=============================================================================
