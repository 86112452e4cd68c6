------------------------------ MODULE Grounding ------------------------------
(***************************************************************************)
(* agent/guards.py, figure_audit.py and provenance.py: what a reply may say, *)
(* and where it says it from.  A reply's figures are a sequence of [value,   *)
(* approx]; a passage is [id, figures, sentences], a sentence a set of       *)
(* figures; a row or a computation is [id, values].                         *)
(***************************************************************************)
EXTENDS Integers, Sequences, SequencesExt, FiniteSets, TLC

CONSTANTS Inside,     \* the pairs of figures whose first is written inside the second
          Nothing,    \* None: no span, no type, nothing to audit
          Fault,      \* the auditor's provider raised
          Malformed   \* an answer that does not parse

\* Slip: two matches may not even touch, and the second is left in the clear.
SpansApart(matches) ==
    {matches[i] : i \in CHOOSE taken \in SUBSET DOMAIN matches : \A i \in DOMAIN matches :
        i \in taken <=> \A j \in taken : j < i => ~ /\ matches[i].from <= matches[j].to
                                                   /\ matches[j].from <= matches[i].to}

Overlaps(a, b) == a.from < b.to /\ b.from < a.to

\* redact: patterns in the configuration's order, each match taken unless one taken
\* before it overlaps.  A match is [label, from, to]; what is left is cut from the original.
Taken(matches, taken) ==
    \A i \in DOMAIN matches :
        i \in taken <=> \A j \in taken : j < i => ~Overlaps(matches[i], matches[j])
RedactedSpans(matches) ==
    {matches[i] : i \in CHOOSE taken \in SUBSET DOMAIN matches : Taken(matches, taken)}
ClearOf(message) ==
    {i \in 1..message.length : \A m \in RedactedSpans(message.matches) : i \notin m.from..(m.to - 1)}

\* _collect_sources and is_grounded: exact, over every passage and every constant.
SourceNumbers(passages, constants) == (UNION {p.figures : p \in Range(passages)}) \cup constants
IsGrounded(value, sources)         == value \in sources

\* check_numeric_grounding: no orphan, and no exact figure rounded into a hedge.
NumbersGrounded(reply, passages, constants) ==
    \A q \in Range(reply) : /\ IsGrounded(q.value, SourceNumbers(passages, constants))
                            /\ ~q.approx

\* _supported: the quoted span is in the material, and the figure is written in it.
Supported(claim, material) ==
    /\ claim.span # Nothing /\ claim.span \in material
    /\ \E n \in claim.span : n = claim.figure \/ <<claim.figure, n>> \in Inside

\* audit_figures: nothing to check passes, a fault or an unreadable answer passes
\* degraded, and every claim listed must be supported.
Audit(answer, material) ==
    IF answer = Nothing THEN [passed |-> TRUE, degraded |-> FALSE]
    ELSE IF answer \in {Fault, Malformed} THEN [passed |-> TRUE, degraded |-> TRUE]
    ELSE [passed |-> \A c \in Range(answer) : Supported(c, material), degraded |-> FALSE]
Material(passages, constants) ==
    (UNION {Range(p.sentences) : p \in Range(passages)}) \cup {{c} : c \in constants}

\* check_type_substitution.
TypesKept(requested, presented) ==
    requested # Nothing /\ \A u \in DOMAIN presented : presented[u] = requested

\* _in_row, _in_computation and _find: the first that holds the value.
Holding(value, held)     == SelectInSeq(held, LAMBDA h : \E f \in DOMAIN h.values : h.values[f] = value)
PassageWith(value, held) == SelectInSeq(held, LAMBDA p : IsGrounded(value, p.figures))

\* _excerpt: the first sentence that states it, or the whole passage.
Excerpt(value, passage) ==
    LET at == SelectInSeq(passage.sentences, LAMBDA s : value \in s)
    IN  IF at = 0 THEN passage.figures ELSE passage.sentences[at]

From(source, id, excerpt) == [source |-> source, id |-> id, excerpt |-> excerpt]
Untraced == From(Nothing, Nothing, {})

\* trace_figures, for one figure: a row, then a computation, a passage, a constant.
Trace(value, passages, constants, rows, computations) ==
    LET row  == Holding(value, rows)            tool  == Holding(value, computations)
        text == PassageWith(value, passages)
    IN  IF row # 0 THEN From("inventory", rows[row].id, {value})
        ELSE IF tool # 0 THEN From("calculator", computations[tool].id, {value})
        ELSE IF text # 0 THEN From("chunk", passages[text].id, Excerpt(value, passages[text]))
        ELSE IF IsGrounded(value, constants) THEN From("script", Nothing, {value})
        ELSE Untraced
TraceFigures(reply, passages, constants, rows, computations) ==
    [i \in DOMAIN reply |-> Trace(reply[i].value, passages, constants, rows, computations)]
=============================================================================
