---------------------------- MODULE Scripts_proofs ----------------------------
(***************************************************************************)
(* Which script a turn runs, and how often it may ask: Scripts.tla, proved  *)
(* for any number of versions, conversations and console requests.          *)
(***************************************************************************)
EXTENDS Scripts, WellFoundedInduction, TLAPS

Row     == [body : Bodies, published : BOOLEAN]
Stages  == {"idle", "replace", "number", "insert", "publish"}

TypeOK ==
    /\ rows \in [Versions -> Row \cup {NoRow}] /\ audited \in Nat
    /\ edit \in [Edits -> [at : Stages, body : Bodies \cup {None}, version : Nat, draft : BOOLEAN]]
    /\ DOMAIN cache \subseteq Nat /\ \A v \in DOMAIN cache : cache[v] \in Known
    /\ state \in [Convs -> States \cup {None}]
    /\ began \in [Convs -> Known \cup {None}]
    /\ DOMAIN last = Convs /\ \A c \in Convs : last[c].ran \in Known \cup {None}
    /\ unmet \in [Convs -> Nat] /\ mixed \in BOOLEAN

\* What a request has read: its own body, a row that is there, a number not yet taken
\* or the next one.
EditOK == \A e \in Edits :
    /\ edit[e].at \in {"replace", "number", "insert"} => edit[e].body \in Bodies
    /\ edit[e].at \in {"replace", "publish"} => edit[e].version \in Stored
    /\ edit[e].at = "replace" => edit[e].draft
    /\ edit[e].at = "insert" => edit[e].version \in Versions /\ edit[e].version <= Latest(Stored) + 1

\* The versions are numbered without a gap, and only the last may be a draft.
RowsOK ==
    /\ \E n \in 0 .. MaxVersions : Stored = 1 .. n
    /\ ~mixed => /\ \A v \in DraftRows : v = Latest(Stored)
                 /\ audited = CurrentVersion

\* While published versions are told apart: every published row of the cache is its
\* row's, and a conversation in flight names the version it was started on.
Good == ~mixed /\ \A v \in Stored : rows[v].published => rows[v].body.version = v
Published == {rows[v].body : v \in {w \in Stored : rows[w].published}}
ServedOK ==
    /\ \A v \in DOMAIN cache : v \in Stored /\ rows[v].published /\ cache[v] = rows[v].body
    /\ \A c \in Convs :
          /\ began[c] \in Published \cup {None, FileScript}
          /\ last[c].ran \in Published \cup {None, FileScript}
          /\ state[c] = None <=> began[c] = None
          /\ state[c] # None => state[c].version = began[c].version
          /\ began[c] \notin {None, FileScript} => last[c].ran = began[c]

\* The count the engine keeps is the turns nobody was served in.
CountOK == \A c \in Convs :
    /\ state[c] = None => unmet[c] = 0
    /\ state[c] # None => unmet[c] = state[c].count

\* Where the last turn left a question, the state is at the node that asked.
AskedOK == \A c \in Convs : last[c].action = "clarify" =>
    /\ last[c].ran \in Known /\ state[c] # None /\ last[c].node = state[c].node
    /\ last[c].missing # {} =>
          /\ last[c].node \in NodeNames(last[c].ran)
          /\ last[c].missing \subseteq NodeOf(last[c].ran, last[c].node).requires
                                     \cup NodeOf(last[c].ran, last[c].node).any

Inv == TypeOK /\ EditOK /\ RowsOK /\ (Good => ServedOK) /\ CountOK /\ LoopIsBounded /\ AskedOK
-----------------------------------------------------------------------------
LEMMA NoneOfThem ==
    /\ MaxVersions \in Nat \ {0} /\ None \notin Known /\ None \notin States
    /\ \A s \in Known : s.version \in Nat /\ s.max \in Nat /\ None \notin NodeNames(s)
    /\ \A turn \in Turns : turn.slots \in SlotMaps
    /\ NoRow \notin Row
<1>1. NoRow \notin Row
  BY ScriptsAssumption DEF NoRow, Row, Known
<1> QED
  BY <1>1, ScriptsAssumption

\* The numbers up to n have n as their highest; any others, one of themselves.
LEMMA LatestOfAll == ASSUME NEW n \in Nat PROVE Latest(1 .. n) = n
<1>1. CASE n = 0
  BY <1>1 DEF Latest
<1>2. CASE n # 0
  <2>1. n \in 1 .. n /\ \A w \in 1 .. n : w <= n
    BY <1>2
  <2>2. \A v \in 1 .. n : (\A w \in 1 .. n : w <= v) => v = n
    BY <2>1
  <2>3. 1 .. n # {}
    BY <2>1
  <2> QED
    BY <2>1, <2>2, <2>3 DEF Latest
<1> QED
  BY <1>1, <1>2

LEMMA LatestIsOneOfThem ==
    ASSUME NEW n \in Nat, NEW S \in SUBSET (1 .. n), S # {}
    PROVE  Latest(S) \in S
<1> DEFINE R == OpToRel(<, Nat)
           U == {n - v : v \in S}
<1>1. IsWellFoundedOn(R, Nat)
  BY NatLessThanWellFounded
<1>2. \A x, y \in Nat : x < y => <<x, y>> \in R
  BY DEF OpToRel
<1> HIDE DEF R
<1>3. U \subseteq Nat /\ U # {}
  <2>1. PICK v \in S : TRUE
    OBVIOUS
  <2>2. n - v \in U
    BY <2>1
  <2>3. \A w \in S : n - w \in Nat
    OBVIOUS
  <2> QED
    BY <2>2, <2>3
<1>4. PICK u \in U : \A w \in U : ~ (<<w, u>> \in R)
  BY <1>1, <1>3, WFMin
<1>5. PICK v \in S : u = n - v
  BY <1>4
<1>6. \A w \in S : w <= v
  <2> SUFFICES ASSUME NEW w \in S, ~ (w <= v) PROVE FALSE
    OBVIOUS
  <2>1. n - w \in U /\ n - w \in Nat /\ n - v \in Nat /\ n - w < n - v
    OBVIOUS
  <2> QED
    BY <2>1, <1>2, <1>4, <1>5
<1> QED
  BY <1>6 DEF Latest

\* Where nothing is published there is no version; else the newest is a published row.
LEMMA CurrentIsPublished ==
    ASSUME TypeOK, RowsOK
    PROVE  /\ CurrentVersion \in Nat /\ CurrentScript \in Known
           /\ CurrentVersion = 0 => \A v \in Stored : ~rows[v].published
           /\ CurrentVersion # 0 => /\ CurrentVersion \in Stored
                                    /\ rows[CurrentVersion].published
<1> DEFINE P == {v \in Stored : rows[v].published}
<1>1. PICK n \in 0 .. MaxVersions : Stored = 1 .. n
  BY DEF RowsOK
<1>2. n \in Nat /\ P \subseteq 1 .. n
  BY <1>1, NoneOfThem
<1>3. P = {} => CurrentVersion = 0
  BY DEF CurrentVersion, Latest
<1>4. P # {} => CurrentVersion \in P
  BY <1>2, LatestIsOneOfThem DEF CurrentVersion
<1>5. \A v \in P : v \in Nat /\ v # 0 /\ rows[v].body \in Known
  <2> SUFFICES ASSUME NEW v \in P PROVE v \in Nat /\ v # 0 /\ rows[v].body \in Known
    OBVIOUS
  <2>1. v \in Versions /\ rows[v] # NoRow
    BY DEF Stored
  <2>2. rows[v] \in Row
    BY <2>1 DEF TypeOK
  <2> QED
    BY <2>2, <1>1, NoneOfThem DEF Row, Known
<1> HIDE DEF P
<1>6. CurrentScript \in Known
  BY <1>3, <1>4, <1>5 DEF CurrentScript, Known
<1> QED
  BY <1>3, <1>4, <1>5, <1>6 DEF P
-----------------------------------------------------------------------------
\* What the engine returns, whatever it decides.
Outcome(script, held, turn, name, d) ==
    \/ d = Raised
    \/ /\ d.action # "clarify" /\ d.node = name
       /\ d.state = [held EXCEPT !.node = name, !.count = 0]
    \/ /\ d.action = "clarify" /\ d.state = [held EXCEPT !.node = d.node, !.count = @ + 1]
       /\ ~(held.count >= script.max)
       /\ \/ d.node = name /\ d.missing \subseteq NodeOf(script, name).requires
                                                  \cup NodeOf(script, name).any
          \/ d.gate /\ d.node = Fallback /\ Fallback \in NodeNames(script) /\ d.missing = {}

LEMMA DecideShape ==
    ASSUME NEW script, NEW held, NEW turn, NEW name
    PROVE  Outcome(script, held, turn, name, Decide(script, held, turn, name))
<1> DEFINE node    == NodeOf(script, name)
           missing == {s \in node.requires : s \notin DOMAIN held.slots}
           d       == Decide(script, held, turn, name)
<1>1. CASE turn.human \/ AtLimit(script, held) \/ node.action = "handoff"
  <2>1. d = Handoff(held, name)
    BY <1>1 DEF Decide
  <2> QED
    BY <2>1 DEF Handoff, Decision, ResetCount, Outcome
<1>2. CASE ~ (turn.human \/ AtLimit(script, held) \/ node.action = "handoff")
  <2>1. ~ (held.count >= script.max)
    BY <1>2 DEF AtLimit
  <2>2. CASE missing # {}
    <3>1. d = Clarify(script, held, name, missing, FALSE)
      BY <1>2, <2>2 DEF Decide
    <3> QED
      BY <2>1, <3>1 DEF Clarify, Decision, Counted, Outcome
  <2>3. CASE missing = {} /\ node.any # {} /\ node.any \cap DOMAIN held.slots = {}
    <3>1. d = Clarify(script, held, name, node.any, FALSE)
      BY <1>2, <2>3 DEF Decide
    <3> QED
      BY <2>1, <3>1 DEF Clarify, Decision, Counted, Outcome
  <2>4. CASE missing = {} /\ ~ (node.any # {} /\ node.any \cap DOMAIN held.slots = {})
    <3>1. CASE node.action = "answer" /\ GateShut(turn)
      <4>1. d = IF Fallback \in NodeNames(script)
                THEN Clarify(script, held, Fallback, {}, TRUE) ELSE Raised
        BY <1>2, <2>4, <3>1 DEF Decide
      <4>2. CASE Fallback \notin NodeNames(script)
        BY <4>1, <4>2 DEF Outcome
      <4>3. CASE Fallback \in NodeNames(script)
        <5>1. d = Clarify(script, held, Fallback, {}, TRUE)
          BY <4>1, <4>3
        <5>2. /\ d.action = "clarify" /\ d.node = Fallback /\ d.missing = {} /\ d.gate
              /\ d.state = [held EXCEPT !.node = Fallback, !.count = @ + 1]
          BY <5>1 DEF Clarify, Decision, Counted
        <5> QED
          BY <2>1, <4>3, <5>2 DEF Outcome
      <4> QED
        BY <4>2, <4>3
    <3>2. CASE ~ (node.action = "answer" /\ GateShut(turn)) /\ node.action = "clarify"
      <4>1. d = Clarify(script, held, name, {}, FALSE)
        BY <1>2, <2>4, <3>2 DEF Decide
      <4> QED
        BY <2>1, <4>1 DEF Clarify, Decision, Counted, Outcome
    <3>3. CASE ~ (node.action = "answer" /\ GateShut(turn)) /\ node.action # "clarify"
      <4>1. d = [Decision(node.action, name, ResetCount(held, name)) EXCEPT
                    !.grounding = node.grounding]
        BY <1>2, <2>4, <3>3 DEF Decide
      <4> QED
        BY <3>3, <4>1 DEF Decision, ResetCount, Outcome
    <3> QED
      BY <3>1, <3>2, <3>3
  <2> QED
    BY <2>2, <2>3, <2>4
<1> QED
  BY <1>1, <1>2

LEMMA SlotsStayTyped ==
    ASSUME NEW held \in SlotMaps, NEW said \in SlotMaps, NEW cleared
    PROVE  WithSlots(held, said, cleared) \in SlotMaps
<1> DEFINE D == DOMAIN said \cup (DOMAIN held \ cleared)
           f == WithSlots(held, said, cleared)
<1>1. PICK S \in SUBSET SlotNames : held \in [S -> SlotValues]
  BY DEF SlotMaps
<1>2. PICK T \in SUBSET SlotNames : said \in [T -> SlotValues]
  BY DEF SlotMaps
<1>3. D \in SUBSET SlotNames
  BY <1>1, <1>2
<1>4. f = [s \in D |-> IF s \in DOMAIN said THEN said[s] ELSE held[s]]
  BY DEF WithSlots
<1>5. \A s \in D : (IF s \in DOMAIN said THEN said[s] ELSE held[s]) \in SlotValues
  BY <1>1, <1>2
<1> HIDE DEF D, f
<1>6. f \in [D -> SlotValues]
  BY <1>4, <1>5
<1> QED
  BY <1>3, <1>6 DEF SlotMaps, f

\* What the engine makes of a message, when it does not raise.
Advanced(script, st, d) ==
    /\ d.state \in States /\ st.version = script.version /\ d.state.version = st.version
    /\ d.action # "clarify" => d.state.count = 0
    /\ d.action = "clarify" =>
          /\ d.state.count = st.count + 1 /\ st.count < script.max /\ d.state.node = d.node
          /\ d.missing # {} => /\ d.node \in NodeNames(script)
                               /\ d.missing \subseteq NodeOf(script, d.node).requires
                                                      \cup NodeOf(script, d.node).any

LEMMA AdvanceShape ==
    ASSUME NEW script \in Known, NEW st \in States, NEW turn \in Turns,
           Advance(script, st, turn) # Raised
    PROVE  Advanced(script, st, Advance(script, st, turn))
<1> DEFINE name == ChosenNode(script, st, turn)
           gone == turn.cleared \cup Stale(script, st.slots, turn.slots)
           said == WithSlots(st.slots, turn.slots, gone)
           held == [st EXCEPT !.slots = said]
           d    == Decide(script, held, turn, name)
<1>1. Advance(script, st, turn) = d /\ st.version = script.version /\ name \in NodeNames(script)
  BY DEF Advance, Pinned
<1>2. said \in SlotMaps
  <2>1. st.slots \in SlotMaps /\ turn.slots \in SlotMaps
    BY NoneOfThem DEF States
  <2> QED
    BY <2>1, SlotsStayTyped
<1>3. Outcome(script, held, turn, name, d)
  BY DecideShape
<1> HIDE DEF said, gone, name, d
<1>4. held \in States /\ held.count = st.count /\ held.version = st.version
  BY <1>2 DEF States
<1>5. \A n \in NodeNames(script), k \in Nat :
          [held EXCEPT !.node = n, !.count = k] \in States
  BY <1>4 DEF States
<1>6. held.count \in Nat /\ script.max \in Nat
  BY <1>4, NoneOfThem DEF States
<1> HIDE DEF held
<1>7. CASE d.action # "clarify"
  <2>1. d.state = [held EXCEPT !.node = name, !.count = 0]
    BY <1>1, <1>3, <1>7 DEF Outcome
  <2>2. d.state \in States
    BY <2>1, <1>1, <1>5
  <2>3. d.state.count = 0 /\ d.state.version = held.version
    BY <2>1, <1>4 DEF States
  <2> QED
    BY <2>2, <2>3, <1>1, <1>4, <1>7 DEF Advanced
<1>8. CASE d.action = "clarify"
  <2>1. /\ d.state = [held EXCEPT !.node = d.node, !.count = held.count + 1]
        /\ ~ (held.count >= script.max)
        /\ d.node \in NodeNames(script)
        /\ d.missing # {} => d.node = name
                    /\ d.missing \subseteq NodeOf(script, name).requires
                                           \cup NodeOf(script, name).any
    <3>1. d # Raised
      BY <1>1
    <3> QED
      BY <3>1, <1>1, <1>3, <1>8 DEF Outcome
  <2>2. d.state \in States
    <3>1. held.count + 1 \in Nat
      BY <1>6
    <3>2. [held EXCEPT !.node = d.node, !.count = held.count + 1] \in States
      BY <3>1, <2>1, <1>5
    <3> QED
      BY <3>2, <2>1
  <2>3. /\ d.state.count = held.count + 1 /\ d.state.version = held.version
        /\ d.state.node = d.node
    BY <2>1, <1>4 DEF States
  <2>4. held.count < script.max
    BY <2>1, <1>6
  <2> QED
    BY <2>1, <2>2, <2>3, <2>4, <1>1, <1>4, <1>8 DEF Advanced
<1> QED
  BY <1>7, <1>8

LEMMA StartIsTyped == ASSUME NEW script \in Known PROVE StartState(script) \in States
<1>1. <<>> \in SlotMaps
  <2>1. <<>> \in [{} -> SlotValues]
    OBVIOUS
  <2> QED
    BY <2>1 DEF SlotMaps
<1>2. script.version \in Nat /\ 0 \in Nat
  BY NoneOfThem
<1>3. script.id \in {s.id : s \in Known} /\ script.entry \in {s.entry : s \in Known}
  OBVIOUS
<1> HIDE DEF SlotMaps
<1> QED
  BY <1>1, <1>2, <1>3 DEF StartState, States
-----------------------------------------------------------------------------
\* What a turn works on: the state loaded, the engines held, the script run.
Loaded(c) == IF state[c] = None THEN StartState(CurrentScript) ELSE state[c]
HeldNow   == Cached(cache, CurrentVersion, CurrentScript)
Ran(c)    == ScriptFor(Loaded(c), HeldNow)
Answer(c, turn) == Advance(Ran(c), Loaded(c), turn)
Asked(c)  == Loaded(c).version # CurrentScript.version /\ Loaded(c).version \in Stored

LEMMA RowsAreKnown == ASSUME TypeOK PROVE \A v \in Stored : rows[v] \in Row /\ rows[v].body \in Known
<1> SUFFICES ASSUME NEW v \in Stored PROVE rows[v] \in Row /\ rows[v].body \in Known
  OBVIOUS
<1>1. v \in Versions /\ rows[v] # NoRow
  BY DEF Stored
<1>2. rows[v] \in Row
  BY <1>1 DEF TypeOK
<1> QED
  BY <1>2 DEF Row, Known

LEMMA HeldIsKnown ==
    ASSUME TypeOK, RowsOK
    PROVE  /\ DOMAIN HeldNow \subseteq Nat /\ \A v \in DOMAIN HeldNow : HeldNow[v] \in Known
           /\ \A v \in Nat : At(HeldNow, v) \in Known \cup {None}
           /\ \A v \in DOMAIN HeldNow \cup Stored : At(HeldNow, v) \in Known
<1>1. CurrentVersion \in Nat /\ CurrentScript \in Known
  BY CurrentIsPublished
<1>2. DOMAIN HeldNow \subseteq Nat /\ \A v \in DOMAIN HeldNow : HeldNow[v] \in Known
  BY <1>1 DEF HeldNow, Cached, TypeOK
<1> QED
  BY <1>2, RowsAreKnown DEF At

LEMMA RanIsKnown ==
    ASSUME TypeOK, RowsOK, NEW c \in Convs
    PROVE  Loaded(c) \in States /\ Loaded(c).version \in Nat /\ Ran(c) \in Known
<1>1. CurrentScript \in Known
  BY CurrentIsPublished
<1>2. Loaded(c) \in States
  BY <1>1, StartIsTyped DEF Loaded, TypeOK
<1>3. Loaded(c).version \in Nat
  BY <1>2 DEF States
<1>4. At(HeldNow, Loaded(c).version) \in Known \cup {None}
  BY <1>3, HeldIsKnown
<1> QED
  BY <1>1, <1>2, <1>3, <1>4 DEF Ran, ScriptFor

\* A turn: it raises and leaves the conversation where it was, or saves what it made.
LEMMA TurnShape ==
    ASSUME TypeOK, RowsOK, NEW c \in Convs, NEW turn \in Turns, Turn(c, turn)
    PROVE  /\ cache' = IF Asked(c)
                       THEN Cached(HeldNow, Loaded(c).version, At(HeldNow, Loaded(c).version))
                       ELSE HeldNow
           /\ \/ /\ last' = [last EXCEPT ![c] = [NoTurn EXCEPT !.ran = Ran(c), !.action = "raised"]]
                 /\ UNCHANGED <<state, began, unmet>>
              \/ \E d : /\ Advanced(Ran(c), Loaded(c), d)
                        /\ state' = [state EXCEPT ![c] = d.state]
                        /\ last' = [last EXCEPT ![c] = [ran |-> Ran(c), action |-> d.action,
                                                        node |-> d.node, missing |-> d.missing]]
                        /\ began' = [began EXCEPT ![c] = IF began[c] = None THEN Ran(c)
                                                         ELSE began[c]]
                        /\ unmet' = [unmet EXCEPT ![c] = IF d.action = "clarify"
                                                         THEN unmet[c] + 1 ELSE 0]
<1>1. Loaded(c) \in States /\ Ran(c) \in Known
  BY RanIsKnown
<1>2. Answer(c, turn) # Raised => Advanced(Ran(c), Loaded(c), Answer(c, turn))
  BY <1>1, AdvanceShape DEF Answer
<1>3. CASE Answer(c, turn) = Raised
  BY <1>3 DEF Turn, Answer, Ran, Loaded, HeldNow, Asked
<1>4. CASE Answer(c, turn) # Raised
  <2> DEFINE d == Answer(c, turn)
  <2>1. /\ state' = [state EXCEPT ![c] = d.state]
        /\ last' = [last EXCEPT ![c] = [ran |-> Ran(c), action |-> d.action,
                                        node |-> d.node, missing |-> d.missing]]
        /\ began' = [began EXCEPT ![c] = IF began[c] = None THEN Ran(c) ELSE began[c]]
        /\ unmet' = [unmet EXCEPT ![c] = IF d.action = "clarify" THEN unmet[c] + 1 ELSE 0]
    <3>1. DOMAIN began = Convs /\ DOMAIN unmet = Convs
      BY DEF TypeOK
    <3> QED
      BY <3>1, <1>4 DEF Turn, Answer, Ran, Loaded, HeldNow, Asked
  <2>2. cache' = IF Asked(c)
                 THEN Cached(HeldNow, Loaded(c).version, At(HeldNow, Loaded(c).version))
                 ELSE HeldNow
    BY DEF Turn, Ran, Loaded, HeldNow, Asked
  <2> HIDE DEF d
  <2> QED
    BY <2>1, <2>2, <1>2, <1>4 DEF d
<1> QED
  BY <1>3, <1>4

LEMMA CacheStaysTyped ==
    ASSUME TypeOK, RowsOK, NEW c \in Convs, NEW turn \in Turns, Turn(c, turn)
    PROVE  DOMAIN cache' \subseteq Nat /\ \A v \in DOMAIN cache' : cache'[v] \in Known
<1>1. CASE ~ Asked(c)
  <2>1. cache' = HeldNow
    BY <1>1, TurnShape
  <2> QED
    BY <2>1, HeldIsKnown
<1>2. CASE Asked(c)
  <2>1. cache' = Cached(HeldNow, Loaded(c).version, At(HeldNow, Loaded(c).version))
    BY <1>2, TurnShape
  <2>2. At(HeldNow, Loaded(c).version) \in Known /\ Loaded(c).version \in Nat
    BY <1>2, HeldIsKnown, RanIsKnown DEF Asked
  <2> QED
    BY <2>1, <2>2, HeldIsKnown DEF Cached
<1> QED
  BY <1>1, <1>2
-----------------------------------------------------------------------------
\* The console's rows and requests, and what a turn and a restart leave of them.
Desk    == <<rows, audited, edit, mixed>>
DeskType ==
    /\ rows \in [Versions -> Row \cup {NoRow}] /\ audited \in Nat /\ mixed \in BOOLEAN
    /\ edit \in [Edits -> [at : Stages, body : Bodies \cup {None}, version : Nat, draft : BOOLEAN]]
FloorType ==
    /\ DOMAIN cache \subseteq Nat /\ \A v \in DOMAIN cache : cache[v] \in Known
    /\ state \in [Convs -> States \cup {None}]
    /\ began \in [Convs -> Known \cup {None}]
    /\ DOMAIN last = Convs /\ \A c \in Convs : last[c].ran \in Known \cup {None}
    /\ unmet \in [Convs -> Nat]

LEMMA TypeParts == TypeOK <=> DeskType /\ FloorType
  BY DEF TypeOK, DeskType, FloorType

\* One statement of the console's: which row it leaves otherwise, and how.
LEMMA EditShape ==
    ASSUME DeskType, EditOK, RowsOK, NEW e \in Edits, Edit(e)
    PROVE  /\ UNCHANGED serving /\ DeskType'
           /\ \/ UNCHANGED <<rows, audited, mixed>>
              \/ /\ edit[e].version \in Stored /\ UNCHANGED audited
                 /\ \E b \in Bodies :
                       rows' = [rows EXCEPT ![edit[e].version] = [body |-> b, published |-> @.published]]
                 /\ mixed' = (mixed \/ rows[edit[e].version].published)
              \/ /\ edit[e].version \in Versions \ Stored /\ UNCHANGED audited
                 /\ edit[e].version <= Latest(Stored) + 1
                 /\ \E b \in Bodies :
                       rows' = [rows EXCEPT ![edit[e].version] = [body |-> b, published |-> FALSE]]
                 /\ mixed' = (mixed \/ DraftRows # {})
              \/ /\ edit[e].version \in Stored /\ audited' = edit[e].version
                 /\ rows' = [rows EXCEPT ![edit[e].version] = [body |-> @.body, published |-> TRUE]]
                 /\ mixed' = (mixed \/ rows[edit[e].version].published)
<1> DEFINE v == edit[e].version
<1>1. /\ v \in Nat /\ edit[e].body \in Bodies \cup {None} /\ edit[e].draft \in BOOLEAN
      /\ DOMAIN edit = Edits /\ DOMAIN rows = Versions /\ Versions \subseteq Nat
      /\ Stored \subseteq Versions
  BY NoneOfThem DEF DeskType, Versions, Stored
<1>2. \A w \in Stored : rows[w] \in Row
  BY DEF DeskType, Stored
<1>3. Idle \in [at : Stages, body : Bodies \cup {None}, version : Nat, draft : BOOLEAN]
  BY DEF Idle, Stages
<1>4. Latest(Stored) \in Nat
  <2>1. PICK n \in 0 .. MaxVersions : Stored = 1 .. n
    BY DEF RowsOK
  <2> QED
    BY <2>1, LatestOfAll, NoneOfThem
<1>5. \A w \in Versions, r \in Row : [rows EXCEPT ![w] = r] \in [Versions -> Row \cup {NoRow}]
  BY DEF DeskType
<1>6. [edit EXCEPT ![e] = Idle] \in
          [Edits -> [at : Stages, body : Bodies \cup {None}, version : Nat, draft : BOOLEAN]]
  BY <1>3 DEF DeskType
<1>7. audited \in Nat
  BY DEF DeskType
<1>8. CASE edit[e].at = "idle" /\ \E body \in Bodies : SaveReads(e, body)
  <2>1. PICK body \in Bodies : SaveReads(e, body)
    BY <1>8
  <2>2. UNCHANGED <<rows, audited, serving, mixed>>
    BY <2>1 DEF SaveReads
  <2>3. \E r \in [at : Stages, body : Bodies \cup {None}, version : Nat, draft : BOOLEAN] :
            edit' = [edit EXCEPT ![e] = r]
    <3>1. CASE edit' = [edit EXCEPT ![e] = [Idle EXCEPT !.at = "number", !.body = body]]
      <4>1. [Idle EXCEPT !.at = "number", !.body = body] \in
                [at : Stages, body : Bodies \cup {None}, version : Nat, draft : BOOLEAN]
        BY DEF Idle, Stages
      <4> QED
        BY <3>1, <4>1
    <3>2. CASE \E w \in DraftRows :
                  edit' = [edit EXCEPT ![e] = [at |-> "replace", body |-> body, version |-> w,
                                               draft |-> ~rows[w].published]]
      <4>1. PICK w \in DraftRows :
                  edit' = [edit EXCEPT ![e] = [at |-> "replace", body |-> body, version |-> w,
                                               draft |-> ~rows[w].published]]
        BY <3>2
      <4>2. w \in Nat
        BY <1>1 DEF DraftRows
      <4>3. [at |-> "replace", body |-> body, version |-> w, draft |-> ~rows[w].published] \in
                [at : Stages, body : Bodies \cup {None}, version : Nat, draft : BOOLEAN]
        BY <4>2 DEF Stages
      <4> QED
        BY <4>1, <4>3
    <3> QED
      BY <2>1, <3>1, <3>2 DEF SaveReads
  <2>4. DeskType'
    BY <2>2, <2>3 DEF DeskType
  <2> QED
    BY <2>2, <2>4
<1>9. CASE SaveReplaces(e)
  <2>1. v \in Stored /\ edit[e].body \in Bodies /\ edit[e].draft
    BY <1>9 DEF SaveReplaces, EditOK
  <2>2. rows' = [rows EXCEPT ![v] = [body |-> edit[e].body, published |-> @.published]]
    <3>1. rows[v] \in Row
      BY <2>1, <1>2
    <3>2. [rows[v] EXCEPT !.body = edit[e].body]
              = [body |-> edit[e].body, published |-> rows[v].published]
      BY <3>1 DEF Row
    <3>3. rows' = [rows EXCEPT ![v] = [rows[v] EXCEPT !.body = edit[e].body]]
      BY <1>9 DEF SaveReplaces
    <3> QED
      BY <3>2, <3>3
  <2>3. [body |-> edit[e].body, published |-> rows[v].published] \in Row
    BY <2>1, <1>2 DEF Row
  <2>4. /\ UNCHANGED audited /\ UNCHANGED serving
        /\ mixed' = (mixed \/ rows[v].published) /\ mixed' \in BOOLEAN
        /\ edit' = [edit EXCEPT ![e] = Idle]
    BY <1>9, <2>1 DEF SaveReplaces, Finish
  <2>5. DeskType'
    <3>1. rows' \in [Versions -> Row \cup {NoRow}]
      BY <2>1, <2>2, <2>3, <1>1, <1>5
    <3>2. audited' \in Nat
      BY <2>4, <1>7
    <3> QED
      BY <3>1, <3>2, <2>4, <1>6 DEF DeskType
  <2> QED
    BY <2>1, <2>2, <2>4, <2>5
<1>10. CASE SaveNumbers(e)
  <2>1. /\ UNCHANGED <<rows, audited, serving, mixed>>
        /\ edit' = [edit EXCEPT ![e] = [edit[e] EXCEPT !.at = "insert", !.version = Latest(Stored) + 1]]
    BY <1>1, <1>10 DEF SaveNumbers
  <2>2. [edit[e] EXCEPT !.at = "insert", !.version = Latest(Stored) + 1] \in
            [at : Stages, body : Bodies \cup {None}, version : Nat, draft : BOOLEAN]
    <3>1. edit[e] \in [at : Stages, body : Bodies \cup {None}, version : Nat, draft : BOOLEAN]
      BY DEF DeskType
    <3>2. Latest(Stored) + 1 \in Nat /\ "insert" \in Stages
      BY <1>4 DEF Stages
    <3> QED
      BY <3>1, <3>2
  <2>3. DeskType'
    BY <2>1, <2>2 DEF DeskType
  <2> QED
    BY <2>1, <2>3
<1>11. CASE SaveInserts(e)
  <2>1. /\ edit[e].body \in Bodies /\ v \in Versions /\ v <= Latest(Stored) + 1
        /\ UNCHANGED <<audited, serving>> /\ edit' = [edit EXCEPT ![e] = Idle]
    BY <1>11 DEF SaveInserts, EditOK, Finish
  <2>2. CASE v \in Stored
    <3>1. UNCHANGED <<rows, mixed>>
      BY <1>11, <2>2 DEF SaveInserts
    <3>2. DeskType'
      BY <3>1, <2>1, <1>6 DEF DeskType
    <3> QED
      BY <2>1, <3>1, <3>2
  <2>3. CASE v \notin Stored
    <3>1. rows' = [rows EXCEPT ![v] = [body |-> edit[e].body, published |-> FALSE]]
      BY <1>11, <2>3 DEF SaveInserts
    <3>2. [body |-> edit[e].body, published |-> FALSE] \in Row
      BY <2>1 DEF Row
    <3>3. mixed' = (mixed \/ DraftRows # {}) /\ mixed' \in BOOLEAN
      BY <1>11, <2>3 DEF SaveInserts
    <3>4. DeskType'
      <4>1. rows' \in [Versions -> Row \cup {NoRow}]
        BY <2>1, <3>1, <3>2, <1>5
      <4> QED
        BY <4>1, <2>1, <3>3, <1>6, <1>7 DEF DeskType
    <3> QED
      BY <2>1, <2>3, <3>1, <3>3, <3>4
  <2> QED
    BY <2>2, <2>3
<1>12. CASE PublishReads(e)
  <2>1. PICK w \in DraftRows : edit' = [edit EXCEPT ![e] = [Idle EXCEPT !.at = "publish", !.version = w]]
    BY <1>12 DEF PublishReads
  <2>2. UNCHANGED <<rows, audited, serving, mixed>>
    BY <1>12 DEF PublishReads
  <2>3. w \in Nat
    BY <1>1 DEF DraftRows
  <2>4. [Idle EXCEPT !.at = "publish", !.version = w] \in
            [at : Stages, body : Bodies \cup {None}, version : Nat, draft : BOOLEAN]
    BY <2>3 DEF Idle, Stages
  <2>5. DeskType'
    BY <2>1, <2>2, <2>4 DEF DeskType
  <2> QED
    BY <2>2, <2>5
<1>13. CASE Publish(e)
  <2>1. v \in Stored
    BY <1>13 DEF Publish, EditOK
  <2>2. rows' = [rows EXCEPT ![v] = [body |-> @.body, published |-> TRUE]]
    BY <1>13 DEF Publish
  <2>3. [body |-> rows[v].body, published |-> TRUE] \in Row
    BY <2>1, <1>2 DEF Row
  <2>4. /\ UNCHANGED serving /\ audited' = v /\ mixed' = (mixed \/ rows[v].published)
        /\ mixed' \in BOOLEAN /\ edit' = [edit EXCEPT ![e] = Idle]
    BY <1>13 DEF Publish, Finish
  <2>5. DeskType'
    <3>1. rows' \in [Versions -> Row \cup {NoRow}]
      BY <2>1, <2>2, <2>3, <1>1, <1>5
    <3>2. audited' \in Nat
      BY <2>4, <1>1
    <3> QED
      BY <3>1, <3>2, <2>4, <1>6 DEF DeskType
  <2> QED
    BY <2>1, <2>2, <2>4, <2>5
<1> QED
  BY <1>8, <1>9, <1>10, <1>11, <1>12, <1>13 DEF Edit

LEMMA DraftsAreRows ==
    ASSUME NEW b \in Bodies, NEW p \in BOOLEAN PROVE [body |-> b, published |-> p] # NoRow
<1>1. None \notin Bodies
  BY NoneOfThem DEF Known
<1>2. CASE [body |-> b, published |-> p] = [body |-> None, published |-> FALSE]
  <2>1. [body |-> b, published |-> p].body = [body |-> None, published |-> FALSE].body
    BY <1>2
  <2> QED
    BY <1>1, <2>1
<1> QED
  BY <1>2 DEF NoRow

\* Rows are only added, the next version at a time.
LEMMA StoredAfter ==
    ASSUME DeskType, EditOK, RowsOK, NEW e \in Edits, Edit(e), NEW n \in 0 .. MaxVersions, Stored = 1 .. n
    PROVE  \/ Stored' = 1 .. n
           \/ /\ n + 1 \in 0 .. MaxVersions /\ Stored' = 1 .. (n + 1) /\ UNCHANGED audited
              /\ \E b \in Bodies :
                    rows' = [rows EXCEPT ![n + 1] = [body |-> b, published |-> FALSE]]
              /\ mixed' = (mixed \/ DraftRows # {})
<1> DEFINE v == edit[e].version
<1>1. /\ DOMAIN rows = Versions /\ Stored \subseteq Versions /\ Versions \subseteq Nat
      /\ \A w \in Stored : rows[w].published \in BOOLEAN
  BY NoneOfThem DEF DeskType, Versions, Stored, Row
<1>2. n \in Nat /\ Latest(Stored) = n
  BY LatestOfAll, NoneOfThem
<1>3. CASE UNCHANGED rows
  BY <1>3 DEF Stored
<1>4. ASSUME NEW b \in Bodies, NEW p \in BOOLEAN, v \in Stored,
             rows' = [rows EXCEPT ![v] = [body |-> b, published |-> p]]
      PROVE  Stored' = Stored
  <2>1. rows'[v] # NoRow
    BY <1>1, <1>4, DraftsAreRows
  <2>2. \A w \in Versions \ {v} : rows'[w] = rows[w]
    BY <1>1, <1>4
  <2>3. v \in Versions /\ rows[v] # NoRow
    BY <1>4 DEF Stored
  <2> QED
    BY <2>1, <2>2, <2>3 DEF Stored
<1>5. ASSUME NEW b \in Bodies, v \in Versions \ Stored, v <= Latest(Stored) + 1,
             rows' = [rows EXCEPT ![v] = [body |-> b, published |-> FALSE]]
      PROVE  v = n + 1 /\ n + 1 \in 0 .. MaxVersions /\ Stored' = 1 .. (n + 1)
  <2>1. v = n + 1 /\ n + 1 \in 0 .. MaxVersions
    BY <1>2, <1>5, NoneOfThem DEF Versions
  <2>2. rows'[v] # NoRow
    BY <1>1, <1>5, DraftsAreRows
  <2>3. \A w \in Versions \ {v} : rows'[w] = rows[w]
    BY <1>1, <1>5
  <2>4. Stored' = Stored \cup {v}
    BY <2>2, <2>3, <1>5 DEF Stored
  <2>5. 1 .. (n + 1) = (1 .. n) \cup {n + 1}
    BY <1>2
  <2> QED
    BY <2>1, <2>4, <2>5
<1> QED
  <2>1. CASE UNCHANGED <<rows, audited, mixed>>
    BY <2>1, <1>3
  <2>2. CASE v \in Stored /\ \E b \in Bodies :
                 rows' = [rows EXCEPT ![v] = [body |-> b, published |-> @.published]]
    BY <2>2, <1>1, <1>4
  <2>3. CASE /\ v \in Versions \ Stored /\ v <= Latest(Stored) + 1 /\ UNCHANGED audited
             /\ \E b \in Bodies :
                   rows' = [rows EXCEPT ![v] = [body |-> b, published |-> FALSE]]
             /\ mixed' = (mixed \/ DraftRows # {})
    BY <2>3, <1>5
  <2>4. CASE v \in Stored /\ rows' = [rows EXCEPT ![v] = [body |-> @.body, published |-> TRUE]]
    <3>1. rows[v].body \in Bodies
      BY <2>4 DEF Stored, DeskType, Row
    <3> QED
      BY <2>4, <3>1, <1>4
  <2> QED
    BY <2>1, <2>2, <2>3, <2>4, EditShape

\* What a request holds, from what it has read to what it writes.
HoldsOK(r) ==
    /\ r.at \in {"replace", "number", "insert"} => r.body \in Bodies
    /\ r.at \in {"replace", "publish"} => r.version \in Stored
    /\ r.at = "replace" => r.draft
    /\ r.at = "insert" => r.version \in Versions /\ r.version <= Latest(Stored) + 1

LEMMA EditStep ==
    ASSUME DeskType, EditOK, RowsOK, NEW e \in Edits, Edit(e) PROVE EditOK'
<1>1. PICK n \in 0 .. MaxVersions : Stored = 1 .. n
  BY DEF RowsOK
<1>2. n \in Nat /\ Latest(Stored) = n
  BY <1>1, LatestOfAll, NoneOfThem
<1>3. Stored \subseteq Stored' /\ Latest(Stored') \in Nat /\ Latest(Stored) <= Latest(Stored')
  <2>1. CASE Stored' = 1 .. n
    BY <1>1, <1>2, <2>1
  <2>2. CASE Stored' = 1 .. (n + 1)
    <3>1. Latest(1 .. (n + 1)) = n + 1
      BY <1>2, LatestOfAll
    <3> QED
      BY <1>1, <1>2, <2>2, <3>1
  <2> QED
    BY <1>1, <2>1, <2>2, StoredAfter
<1>4. Stored \subseteq Versions /\ Versions \subseteq Nat
  BY DEF Stored, Versions
<1>5. ASSUME NEW r, HoldsOK(r) PROVE HoldsOK(r)'
  <2>1. r.at = "insert" => r.version \in Nat
    BY <1>4, <1>5 DEF HoldsOK
  <2> QED
    BY <1>2, <1>3, <1>5, <2>1 DEF HoldsOK, Versions
<1>6. HoldsOK(Idle)'
  BY DEF HoldsOK, Idle
<1>7. /\ DOMAIN edit = Edits
      /\ \A f \in Edits : edit[f] \in [at : Stages, body : Bodies \cup {None}, version : Nat,
                                       draft : BOOLEAN]
  BY DEF DeskType
<1>8. \E r : edit' = [edit EXCEPT ![e] = r] /\ HoldsOK(r)'
  <2>1. CASE edit[e].at = "idle" /\ \E body \in Bodies : SaveReads(e, body)
    <3>1. PICK body \in Bodies : SaveReads(e, body)
      BY <2>1
    <3>2. CASE edit' = [edit EXCEPT ![e] = [Idle EXCEPT !.at = "number", !.body = body]]
      <4>1. HoldsOK([Idle EXCEPT !.at = "number", !.body = body])'
        BY DEF HoldsOK, Idle
      <4> QED
        BY <3>2, <4>1
    <3>3. CASE \E w \in DraftRows :
                  edit' = [edit EXCEPT ![e] = [at |-> "replace", body |-> body, version |-> w,
                                               draft |-> ~rows[w].published]]
      <4>1. PICK w \in DraftRows :
                  edit' = [edit EXCEPT ![e] = [at |-> "replace", body |-> body, version |-> w,
                                               draft |-> ~rows[w].published]]
        BY <3>3
      <4>2. w \in Stored /\ ~rows[w].published
        BY DEF DraftRows
      <4>3. HoldsOK([at |-> "replace", body |-> body, version |-> w,
                     draft |-> ~rows[w].published])
        BY <4>2 DEF HoldsOK
      <4> QED
        BY <4>1, <4>3, <1>5
    <3> QED
      BY <3>1, <3>2, <3>3 DEF SaveReads
  <2>2. CASE SaveReplaces(e) \/ SaveInserts(e) \/ Publish(e)
    BY <2>2, <1>6 DEF SaveReplaces, SaveInserts, Publish, Finish
  <2>3. CASE SaveNumbers(e)
    <3> DEFINE r == [edit[e] EXCEPT !.at = "insert", !.version = Latest(Stored) + 1]
    <3>1. edit' = [edit EXCEPT ![e] = r] /\ edit[e].at = "number" /\ Latest(Stored) < MaxVersions
      BY <1>7, <2>3 DEF SaveNumbers
    <3>2. edit[e].body \in Bodies
      BY <3>1 DEF EditOK
    <3>3. r.at = "insert" /\ r.body = edit[e].body /\ r.version = Latest(Stored) + 1
      BY <1>7
    <3>4. Latest(Stored) + 1 \in Versions
      BY <3>1, <1>2, NoneOfThem DEF Versions
    <3> HIDE DEF r
    <3>5. HoldsOK(r)
      BY <3>2, <3>3, <3>4, <1>2 DEF HoldsOK
    <3> QED
      BY <3>1, <3>5, <1>5
  <2>4. CASE PublishReads(e)
    <3>1. PICK w \in DraftRows :
              edit' = [edit EXCEPT ![e] = [Idle EXCEPT !.at = "publish", !.version = w]]
      BY <2>4 DEF PublishReads
    <3>2. w \in Stored
      BY DEF DraftRows
    <3>3. HoldsOK([Idle EXCEPT !.at = "publish", !.version = w])
      BY <3>2 DEF HoldsOK, Idle
    <3> QED
      BY <3>1, <3>3, <1>5
  <2> QED
    BY <2>1, <2>2, <2>3, <2>4 DEF Edit
<1>9. \A f \in Edits : HoldsOK(edit[f])
  BY DEF EditOK, HoldsOK
<1>10. \A f \in Edits : HoldsOK(edit[f])'
  <2>1. PICK r : edit' = [edit EXCEPT ![e] = r] /\ HoldsOK(r)'
    BY <1>8
  <2> SUFFICES ASSUME NEW f \in Edits PROVE HoldsOK(edit[f])'
    OBVIOUS
  <2>2. CASE f = e
    <3>1. edit'[f] = r
      BY <2>1, <2>2, <1>7
    <3> QED
      BY <2>1, <3>1 DEF HoldsOK
  <2>3. CASE f # e
    <3>1. edit'[f] = edit[f] /\ HoldsOK(edit[f])
      BY <2>1, <2>3, <1>7, <1>9
    <3>2. \A q : HoldsOK(q) => HoldsOK(q)'
      BY <1>5
    <3>3. \A q : q = edit[f] => HoldsOK(q)'
      BY <3>1, <3>2
    <3> QED
      BY <3>1, <3>3 DEF HoldsOK
  <2> QED
    BY <2>2, <2>3
<1> QED
  BY <1>10 DEF EditOK, HoldsOK

\* Until two requests have crossed, what is published stays as it is.
LEMMA PublishedStays ==
    ASSUME DeskType, EditOK, RowsOK, NEW e \in Edits, Edit(e), ~mixed'
    PROVE  /\ ~mixed
           /\ \A v \in Stored : rows[v].published => v \in Stored' /\ rows'[v] = rows[v]
<1> DEFINE v == edit[e].version
<1>1. DOMAIN rows = Versions
  BY DEF DeskType
<1>2. ~mixed /\ \A w \in Stored : rows[w].published => rows'[w] = rows[w]
  <2>1. CASE UNCHANGED <<rows, audited, mixed>>
    BY <2>1
  <2>2. CASE /\ \E r : rows' = [rows EXCEPT ![v] = r]
             /\ mixed' = (mixed \/ rows[v].published)
    BY <1>1, <2>2 DEF Stored
  <2>3. CASE /\ v \in Versions \ Stored
             /\ \E r : rows' = [rows EXCEPT ![v] = r]
             /\ mixed' = (mixed \/ DraftRows # {})
    BY <1>1, <2>3 DEF Stored
  <2> QED
    BY <2>1, <2>2, <2>3, EditShape
<1> QED
  BY <1>2 DEF Stored

LEMMA RowsStep ==
    ASSUME DeskType, EditOK, RowsOK, NEW e \in Edits, Edit(e) PROVE RowsOK'
<1> DEFINE v == edit[e].version
           P == {w \in Stored : rows[w].published}
<1>1. PICK n \in 0 .. MaxVersions : Stored = 1 .. n
  BY DEF RowsOK
<1>2. n \in Nat /\ Latest(1 .. n) = n /\ Latest(1 .. (n + 1)) = n + 1
  BY LatestOfAll, NoneOfThem
<1>3. \E m \in 0 .. MaxVersions : Stored' = 1 .. m
  BY <1>1, StoredAfter
<1>4. ASSUME ~mixed' PROVE /\ \A w \in DraftRows' : w = Latest(Stored')
                           /\ audited' = CurrentVersion'
  <2>1. DOMAIN rows = Versions /\ Stored \subseteq Versions
    BY DEF DeskType, Stored
  <2>2. ~mixed
    BY <1>4, PublishedStays
  <2>3. (\A w \in DraftRows : w = n) /\ audited = CurrentVersion
    BY <1>1, <1>2, <2>2 DEF RowsOK
  <2>4. CASE UNCHANGED <<rows, audited, mixed>>
    <3>1. Stored' = Stored /\ DraftRows' = DraftRows /\ CurrentVersion' = CurrentVersion
      BY <2>4 DEF Stored, DraftRows, CurrentVersion
    <3> QED
      BY <1>1, <1>2, <2>3, <2>4, <3>1
  <2>5. CASE /\ v \in Stored /\ UNCHANGED audited
             /\ \E b \in Bodies :
                   rows' = [rows EXCEPT ![v] = [body |-> b, published |-> @.published]]
    <3>2. \A w \in Versions : w \in Stored => rows'[w].published = rows[w].published
      BY <2>1, <2>5
    <3>3. Stored' = Stored
      <4>1. PICK b \in Bodies : rows' = [rows EXCEPT ![v] = [body |-> b, published |-> rows[v].published]]
        BY <2>5
      <4>2. rows[v].published \in BOOLEAN
        BY <2>5 DEF Stored, DeskType, Row
      <4>3. rows'[v] # NoRow
        BY <2>1, <2>5, <4>1, <4>2, DraftsAreRows
      <4> QED
        BY <2>1, <2>5, <4>1, <4>3 DEF Stored
    <3>4. DraftRows' = DraftRows /\ {w \in Stored' : rows'[w].published} = P
      BY <2>1, <3>2, <3>3 DEF DraftRows
    <3>5. CurrentVersion' = CurrentVersion
      BY <3>4 DEF CurrentVersion
    <3> QED
      BY <1>1, <1>2, <2>3, <2>5, <3>3, <3>4, <3>5
  <2>6. CASE /\ n + 1 \in 0 .. MaxVersions /\ Stored' = 1 .. (n + 1) /\ UNCHANGED audited
             /\ \E b \in Bodies :
                   rows' = [rows EXCEPT ![n + 1] = [body |-> b, published |-> FALSE]]
             /\ mixed' = (mixed \/ DraftRows # {})
    <3>1. n + 1 \in Versions /\ n + 1 \notin Stored /\ Stored' = Stored \cup {n + 1}
      BY <1>1, <1>2, <2>6 DEF Versions
    <3>2. ~rows'[n + 1].published /\ \A w \in Stored : rows'[w] = rows[w]
      BY <2>1, <2>6, <3>1
    <3>3. DraftRows = {}
      BY <1>4, <2>6
    <3>4. DraftRows' = {n + 1} /\ {w \in Stored' : rows'[w].published} = P
      BY <3>1, <3>2, <3>3 DEF DraftRows
    <3>5. CurrentVersion' = CurrentVersion
      BY <3>4 DEF CurrentVersion
    <3> QED
      BY <1>2, <2>3, <2>6, <3>4, <3>5
  <2>7. CASE /\ v \in Stored /\ audited' = v
             /\ rows' = [rows EXCEPT ![v] = [body |-> @.body, published |-> TRUE]]
             /\ mixed' = (mixed \/ rows[v].published)
    <3>1. v = n
      BY <1>4, <2>3, <2>7 DEF DraftRows
    <3>2. Stored' = Stored
      <4>1. rows[v].body \in Bodies
        BY <2>7 DEF Stored, DeskType, Row
      <4>2. rows'[v] # NoRow
        BY <2>1, <2>7, <4>1, DraftsAreRows
      <4> QED
        BY <2>1, <2>7, <4>2 DEF Stored
    <3>3. \A w \in Stored : rows'[w].published
      BY <2>1, <2>3, <2>7, <3>1 DEF DraftRows
    <3>4. DraftRows' = {} /\ {w \in Stored' : rows'[w].published} = 1 .. n
      BY <1>1, <3>2, <3>3 DEF DraftRows
    <3>5. CurrentVersion' = n
      BY <1>2, <3>4 DEF CurrentVersion
    <3> QED
      BY <2>7, <3>1, <3>4, <3>5
  <2>8. CASE Stored' # Stored
    BY <1>1, <2>6, <2>8, StoredAfter
  <2>9. CASE Stored' = Stored
    <3>1. ASSUME NEW b \in Bodies, v \in Versions \ Stored,
                 rows' = [rows EXCEPT ![v] = [body |-> b, published |-> FALSE]]
          PROVE  FALSE
      <4>1. rows'[v] # NoRow
        BY <2>1, <3>1, DraftsAreRows
      <4> QED
        BY <2>9, <3>1, <4>1 DEF Stored
    <3> QED
      BY <2>4, <2>5, <2>7, <3>1, EditShape
  <2> QED
    BY <2>8, <2>9
<1> QED
  BY <1>3, <1>4 DEF RowsOK
-----------------------------------------------------------------------------
CountedOK == CountOK /\ LoopIsBounded /\ AskedOK

LEMMA TurnStep ==
    ASSUME TypeOK, RowsOK, CountedOK, NEW c \in Convs, NEW turn \in Turns, Turn(c, turn)
    PROVE  FloorType' /\ CountedOK'
<1>1. /\ DOMAIN state = Convs /\ DOMAIN last = Convs /\ DOMAIN began = Convs
      /\ DOMAIN unmet = Convs /\ unmet[c] \in Nat
  BY DEF TypeOK
<1>2. Loaded(c) \in States /\ Ran(c) \in Known
  BY RanIsKnown
<1>3. DOMAIN cache' \subseteq Nat /\ \A v \in DOMAIN cache' : cache'[v] \in Known
  BY CacheStaysTyped
<1>4. CASE /\ last' = [last EXCEPT ![c] = [NoTurn EXCEPT !.ran = Ran(c), !.action = "raised"]]
           /\ UNCHANGED <<state, began, unmet>>
  <2>1. /\ last'[c].ran = Ran(c) /\ last'[c].action = "raised" /\ DOMAIN last' = Convs
        /\ \A b \in Convs \ {c} : last'[b] = last[b]
    BY <1>1, <1>4 DEF NoTurn
  <2>2. FloorType'
    BY <1>2, <1>3, <1>4, <2>1 DEF TypeOK, FloorType
  <2>3. CountOK' /\ LoopIsBounded'
    BY <1>4 DEF CountedOK, CountOK, LoopIsBounded
  <2>4. AskedOK'
    BY <1>4, <2>1 DEF CountedOK, AskedOK
  <2> QED
    BY <2>2, <2>3, <2>4 DEF CountedOK
<1>5. ASSUME NEW d, Advanced(Ran(c), Loaded(c), d), state' = [state EXCEPT ![c] = d.state],
             last' = [last EXCEPT ![c] = [ran |-> Ran(c), action |-> d.action,
                                          node |-> d.node, missing |-> d.missing]],
             began' = [began EXCEPT ![c] = IF began[c] = None THEN Ran(c) ELSE began[c]],
             unmet' = [unmet EXCEPT ![c] = IF d.action = "clarify" THEN unmet[c] + 1 ELSE 0]
      PROVE  FloorType' /\ CountedOK'
  <2>1. /\ state'[c] = d.state /\ last'[c].ran = Ran(c) /\ last'[c].action = d.action
        /\ last'[c].node = d.node /\ last'[c].missing = d.missing /\ DOMAIN last' = Convs
        /\ unmet'[c] = IF d.action = "clarify" THEN unmet[c] + 1 ELSE 0
        /\ \A b \in Convs \ {c} : /\ last'[b] = last[b] /\ state'[b] = state[b]
                                  /\ unmet'[b] = unmet[b]
    BY <1>1, <1>5
  <2>2. d.state \in States /\ d.state # None
    BY <1>5, NoneOfThem DEF Advanced
  <2>3. unmet[c] = Loaded(c).count
    BY DEF CountedOK, CountOK, Loaded, StartState
  <2>4. FloorType'
    <3>1. state' \in [Convs -> States \cup {None}]
      BY <1>5, <2>2 DEF TypeOK
    <3>2. began' \in [Convs -> Known \cup {None}]
      BY <1>2, <1>5 DEF TypeOK
    <3>3. unmet' \in [Convs -> Nat]
      BY <1>1, <1>5 DEF TypeOK
    <3>4. \A b \in Convs : last'[b].ran \in Known \cup {None}
      BY <1>2, <2>1 DEF TypeOK
    <3> QED
      BY <1>3, <2>1, <3>1, <3>2, <3>3, <3>4 DEF FloorType
  <2>5. CountOK'
    BY <1>5, <2>1, <2>2, <2>3 DEF CountedOK, CountOK, Advanced
  <2>6. \E s \in Bodies \cup {FileScript} : unmet'[c] <= s.max
    <3>1. Ran(c).max \in Nat /\ Ran(c) \in Bodies \cup {FileScript}
      BY <1>2, NoneOfThem DEF Known
    <3>2. d.action = "clarify" => unmet[c] < Ran(c).max
      BY <1>5, <2>3 DEF Advanced
    <3>3. unmet'[c] <= Ran(c).max
      BY <1>1, <2>1, <3>1, <3>2
    <3> QED
      BY <3>1, <3>3
  <2>7. LoopIsBounded'
    BY <2>1, <2>6 DEF CountedOK, LoopIsBounded
  <2>8. d.action = "clarify" =>
            /\ d.state # None /\ d.node = d.state.node
            /\ d.missing # {} =>
                  /\ d.node \in NodeNames(Ran(c))
                  /\ d.missing \subseteq NodeOf(Ran(c), d.node).requires
                                         \cup NodeOf(Ran(c), d.node).any
    BY <1>5, <2>2 DEF Advanced
  <2>9. AskedOK'
    BY <1>2, <2>1, <2>8 DEF CountedOK, AskedOK
  <2> QED
    BY <2>4, <2>5, <2>7, <2>9 DEF CountedOK
<1> QED
  BY <1>4, <1>5, TurnShape

LEMMA Frames ==
    /\ FloorType /\ UNCHANGED serving => FloorType'
    /\ CountedOK /\ UNCHANGED serving => CountedOK'
    /\ TypeOK /\ UNCHANGED Desk => DeskType'
    /\ EditOK /\ RowsOK /\ UNCHANGED Desk => EditOK' /\ RowsOK'
<1>1. FloorType /\ UNCHANGED serving => FloorType'
  BY DEF FloorType, serving
<1>2. CountedOK /\ UNCHANGED serving => CountedOK'
  BY DEF CountedOK, CountOK, LoopIsBounded, AskedOK, serving
<1>3. TypeOK /\ UNCHANGED Desk => DeskType'
  BY DEF TypeOK, DeskType, Desk
<1>4. ASSUME EditOK, RowsOK, UNCHANGED Desk PROVE EditOK' /\ RowsOK'
  <2>1. Stored' = Stored
    BY <1>4 DEF Stored, Desk
  <2>2. DraftRows' = DraftRows /\ CurrentVersion' = CurrentVersion
    BY <1>4, <2>1 DEF DraftRows, CurrentVersion, Desk
  <2>3. EditOK'
    BY <1>4, <2>1 DEF EditOK, Desk
  <2> QED
    BY <1>4, <2>1, <2>2, <2>3 DEF RowsOK, Desk
<1> QED
  BY <1>1, <1>2, <1>3, <1>4

BaseInv == TypeOK /\ EditOK /\ RowsOK /\ CountedOK

LEMMA BaseInit == Init => BaseInv
<1> SUFFICES ASSUME Init PROVE BaseInv
  OBVIOUS
<1>1. Stored = {} /\ DraftRows = {} /\ CurrentVersion = 0 /\ Latest({}) = 0
  BY DEF Init, Stored, DraftRows, CurrentVersion, Latest, Versions
<1>2. TypeOK
  BY DEF Init, TypeOK, Stages, Idle, NoTurn
<1>3. EditOK
  BY DEF Init, EditOK, Idle
<1>4. RowsOK
  <2>1. 0 \in 0 .. MaxVersions /\ Stored = 1 .. 0
    BY <1>1, NoneOfThem
  <2> QED
    BY <1>1, <2>1 DEF Init, RowsOK
<1>5. CountOK /\ AskedOK
  BY DEF Init, CountOK, AskedOK, NoTurn
<1>6. LoopIsBounded
  <2>1. FileScript.max \in Nat
    BY NoneOfThem DEF Known
  <2> QED
    BY <2>1 DEF Init, LoopIsBounded
<1> QED
  BY <1>2, <1>3, <1>4, <1>5, <1>6 DEF BaseInv, CountedOK

LEMMA BaseStep == BaseInv /\ [Next]_vars => BaseInv'
<1> SUFFICES ASSUME BaseInv, [Next]_vars PROVE BaseInv'
  OBVIOUS
<1>1. TypeOK /\ EditOK /\ RowsOK /\ CountedOK /\ DeskType /\ FloorType
  BY TypeParts DEF BaseInv
<1>2. ASSUME NEW e \in Edits, Edit(e) PROVE BaseInv'
  <2>1. UNCHANGED serving /\ DeskType'
    BY <1>1, <1>2, EditShape
  <2>2. EditOK' /\ RowsOK'
    BY <1>1, <1>2, EditStep, RowsStep
  <2>3. FloorType' /\ CountedOK'
    BY <1>1, <2>1, Frames
  <2> QED
    BY <2>1, <2>2, <2>3, TypeParts DEF BaseInv, TypeOK, DeskType, FloorType
<1>3. ASSUME NEW c \in Convs, NEW turn \in Turns, Turn(c, turn), UNCHANGED Desk
      PROVE  BaseInv'
  <2>1. FloorType' /\ CountedOK'
    BY <1>1, <1>3, TurnStep
  <2>2. DeskType' /\ EditOK' /\ RowsOK'
    BY <1>1, <1>3, Frames
  <2> QED
    BY <2>1, <2>2 DEF BaseInv, TypeOK, DeskType, FloorType
<1>4. CASE Restart
  <2>1. UNCHANGED Desk /\ UNCHANGED <<state, last, began, unmet>>
        /\ DOMAIN cache' = {}
    BY <1>4 DEF Restart, Desk
  <2>2. FloorType'
    BY <1>1, <2>1 DEF FloorType
  <2>3. CountedOK'
    BY <1>1, <2>1 DEF CountedOK, CountOK, LoopIsBounded, AskedOK
  <2>4. DeskType' /\ EditOK' /\ RowsOK'
    BY <1>1, <2>1, Frames
  <2> QED
    BY <2>2, <2>3, <2>4 DEF BaseInv, TypeOK, DeskType, FloorType
<1>5. CASE UNCHANGED vars
  <2>1. UNCHANGED Desk /\ UNCHANGED serving
    BY <1>5 DEF vars, Desk, serving
  <2> QED
    BY <1>1, <2>1, Frames DEF BaseInv, TypeOK, DeskType, FloorType
<1> QED
  BY <1>2, <1>3, <1>4, <1>5 DEF Next, Desk

LEMMA BaseHolds == Spec => []BaseInv
  BY BaseInit, BaseStep, PTL DEF Spec

\* Nobody is asked to explain themselves more often than some script of the tenant's
\* allows: AtLimit, for any number of versions, edits and restarts in between.
THEOREM LoopStaysBounded == Spec => []LoopIsBounded
<1>1. BaseInv => LoopIsBounded
  BY DEF BaseInv, CountedOK
<1> QED
  BY <1>1, BaseHolds, PTL
-----------------------------------------------------------------------------
\* A decision made at a node stays there, raises, or is a gate found shut.
LEMMA DecidesWhereAsked ==
    ASSUME NEW script, NEW held, NEW turn, NEW name
    PROVE  LET d == Decide(script, held, turn, name) IN d = Raised \/ d.node = name \/ d.gate
  BY DecideShape DEF Outcome

\* A bare value for what a node asked is read at that node.
LEMMA AnswersWhereAsked ==
    ASSUME NEW script, NEW st, NEW turn, st.node \in NodeNames(script), st.node # None,
           turn.intent = None,
           DOMAIN turn.slots \cap (NodeOf(script, st.node).requires
                                   \cup NodeOf(script, st.node).any) # {}
    PROVE  ChosenNode(script, st, turn) = st.node
<1>1. turn.slots # <<>>
  <2>1. DOMAIN <<>> = {}
    OBVIOUS
  <2> QED
    BY <2>1
<1>2. Resumes(script, st, turn) = st.node
  BY <1>1 DEF Resumes
<1> QED
  BY <1>2 DEF ChosenNode

\* A customer who answers what the bot asked is at the node that asked (edu-0007), with
\* whatever the turn before it ran: resumes and the node a clarification leaves behind.
THEOREM QuestionsAreResumed == Spec => []QuestionIsResumed
<1>1. ASSUME BaseInv, NEW c \in Convs, NEW turn \in Turns,
             last[c].action = "clarify", last[c].missing \cap DOMAIN turn.slots # {},
             turn.intent = None
      PROVE  LET d == Advance(last[c].ran, state[c], turn)
             IN  d = Raised \/ d.node = last[c].node \/ d.gate
  <2> DEFINE ran == last[c].ran
             node == last[c].node
             d == Advance(ran, state[c], turn)
  <2>1. /\ state[c] # None /\ node = state[c].node /\ node \in NodeNames(ran)
        /\ last[c].missing \subseteq NodeOf(ran, node).requires \cup NodeOf(ran, node).any
    BY <1>1 DEF BaseInv, CountedOK, AskedOK
  <2>2. node # None
    BY <1>1, <2>1, NoneOfThem DEF BaseInv, CountedOK, AskedOK
  <2>3. ChosenNode(ran, state[c], turn) = node
    BY <1>1, <2>1, <2>2, AnswersWhereAsked
  <2>4. d = Raised \/ \E held : d = Decide(ran, held, turn, node)
    BY <2>3 DEF Advance
  <2> QED
    BY <2>4, DecidesWhereAsked
<1>2. BaseInv => QuestionIsResumed
  BY <1>1 DEF QuestionIsResumed
<1> QED
  BY <1>2, BaseHolds, PTL
-----------------------------------------------------------------------------
\* Both scripts in config/ are their platform's first version.
FileIsTheFirst == FileScript.version <= 1

LEMMA HeldIsPublished ==
    ASSUME BaseInv, ServedOK
    PROVE  /\ \A v \in DOMAIN HeldNow : v \in Stored /\ rows[v].published /\ HeldNow[v] = rows[v].body
           /\ \A v \in Stored : At(HeldNow, v) = rows[v].body
<1>1. CurrentVersion # 0 => /\ CurrentVersion \in Stored /\ rows[CurrentVersion].published
                            /\ CurrentScript = rows[CurrentVersion].body
  BY CurrentIsPublished DEF BaseInv, CurrentScript
<1>2. \A v \in DOMAIN cache : v \in Stored /\ rows[v].published /\ cache[v] = rows[v].body
  BY DEF ServedOK
<1>3. \A v \in DOMAIN HeldNow : v \in Stored /\ rows[v].published /\ HeldNow[v] = rows[v].body
  BY <1>1, <1>2 DEF HeldNow, Cached
<1> QED
  BY <1>3 DEF At

\* A stored version a conversation names, and that is not the current one, is published.
LEMMA NamedIsPublished ==
    ASSUME BaseInv, Good, ServedOK, FileIsTheFirst, NEW c \in Convs, Asked(c)
    PROVE  rows[Loaded(c).version].published
<1> DEFINE v == Loaded(c).version
<1>1. state[c] # None /\ v = state[c].version /\ v \in Stored /\ v # CurrentScript.version
  BY DEF Asked, Loaded, StartState
<1>2. began[c] \in Published \cup {FileScript} /\ v = began[c].version
  BY <1>1 DEF ServedOK
<1>3. CASE began[c] \in Published
  <2>1. PICK w \in Stored : rows[w].published /\ began[c] = rows[w].body
    BY <1>3 DEF Published
  <2> QED
    BY <1>2, <2>1 DEF Good
<1>4. CASE began[c] = FileScript
  <2> SUFFICES ASSUME ~rows[v].published PROVE FALSE
    OBVIOUS
  <2>1. PICK n \in 0 .. MaxVersions : Stored = 1 .. n
    BY DEF BaseInv, RowsOK
  <2>2. n \in Nat /\ Latest(Stored) = n
    BY <2>1, LatestOfAll, NoneOfThem
  <2>3. v = 1
    <3>1. v \in 1 .. n /\ FileScript.version \in Nat
      BY <1>1, <2>1, NoneOfThem DEF Known
    <3> QED
      BY <1>2, <1>4, <2>2, <3>1 DEF FileIsTheFirst
  <2>4. n = 1
    BY <1>1, <2>2, <2>3 DEF BaseInv, RowsOK, Good, DraftRows
  <2>5. Stored = {1}
    BY <2>1, <2>4
  <2>6. CurrentVersion = 0
    BY <2>3, <2>5, CurrentIsPublished DEF BaseInv
  <2> QED
    BY <1>1, <1>2, <1>4, <2>6 DEF CurrentScript
<1> QED
  BY <1>2, <1>3, <1>4

\* What a turn runs is published or the platform's, and what its conversation began on.
LEMMA RanIsPublished ==
    ASSUME BaseInv, Good, ServedOK, FileIsTheFirst, NEW c \in Convs
    PROVE  /\ Ran(c) \in Published \cup {FileScript}
           /\ began[c] \notin {None, FileScript} => Ran(c) = began[c]
<1> DEFINE v == Loaded(c).version
<1>1. /\ CurrentVersion = 0 => /\ \A w \in Stored : ~rows[w].published
                               /\ CurrentScript = FileScript
      /\ CurrentVersion # 0 => /\ CurrentVersion \in Stored /\ rows[CurrentVersion].published
                               /\ CurrentScript = rows[CurrentVersion].body
                               /\ CurrentScript.version = CurrentVersion
  BY CurrentIsPublished DEF BaseInv, CurrentScript, Good
<1>2. CurrentScript \in Published \cup {FileScript}
  BY <1>1 DEF Published
<1>3. v # CurrentScript.version /\ At(HeldNow, v) # None => Asked(c)
  BY HeldIsPublished DEF At, Asked
<1>4. Asked(c) => /\ v \in Stored /\ rows[v].published /\ At(HeldNow, v) = rows[v].body
                  /\ v # CurrentScript.version
  BY NamedIsPublished, HeldIsPublished DEF Asked
<1>5. Ran(c) \in Published \cup {FileScript}
  BY <1>2, <1>3, <1>4 DEF Ran, ScriptFor, Published
<1>6. ASSUME began[c] \notin {None, FileScript} PROVE Ran(c) = began[c]
  <2>1. began[c] \in Published /\ state[c] # None /\ v = began[c].version
    BY <1>6 DEF ServedOK, Loaded
  <2>2. PICK w \in Stored : rows[w].published /\ began[c] = rows[w].body
    BY <2>1 DEF Published
  <2>3. v = w
    BY <2>1, <2>2 DEF Good
  <2>4. rows[w].body # None
    BY RowsAreKnown, NoneOfThem DEF BaseInv
  <2>5. CASE v = CurrentScript.version
    <3>1. CurrentVersion = w
      BY <1>1, <2>2, <2>3, <2>5
    <3>2. Ran(c) = CurrentScript
      BY <2>5 DEF Ran, ScriptFor
    <3>3. CurrentVersion # 0
      BY <1>1, <2>2
    <3> QED
      BY <1>1, <2>2, <3>1, <3>2, <3>3
  <2>6. CASE v # CurrentScript.version
    <3>1. At(HeldNow, v) = rows[w].body
      BY <2>3, HeldIsPublished
    <3> QED
      BY <2>2, <2>4, <2>6, <3>1 DEF Ran, ScriptFor
  <2> QED
    BY <2>5, <2>6
<1> QED
  BY <1>5, <1>6

LEMMA ServedByTurn ==
    ASSUME BaseInv, Good, ServedOK, FileIsTheFirst,
           NEW c \in Convs, NEW turn \in Turns, Turn(c, turn), UNCHANGED Desk
    PROVE  ServedOK'
<1>1. TypeOK /\ RowsOK
  BY DEF BaseInv
<1>2. /\ DOMAIN state = Convs /\ DOMAIN last = Convs /\ DOMAIN began = Convs
  BY <1>1 DEF TypeOK
<1>3. /\ Stored' = Stored /\ Published' = Published /\ rows' = rows
  BY DEF Desk, Stored, Published
<1>4. Ran(c) \in Known /\ Ran(c) # None
  BY <1>1, RanIsKnown, NoneOfThem
<1>5. \A v \in DOMAIN cache' : v \in Stored' /\ rows'[v].published /\ cache'[v] = rows'[v].body
  <2>1. CASE ~Asked(c)
    <3>1. cache' = HeldNow
      BY <1>1, <2>1, TurnShape
    <3> QED
      BY <1>3, <3>1, HeldIsPublished
  <2>2. CASE Asked(c)
    <3> DEFINE v == Loaded(c).version
    <3>1. cache' = Cached(HeldNow, v, At(HeldNow, v))
      BY <1>1, <2>2, TurnShape
    <3>2. v \in Stored /\ rows[v].published /\ At(HeldNow, v) = rows[v].body
      BY <2>2, NamedIsPublished, HeldIsPublished DEF Asked
    <3> HIDE DEF v
    <3> QED
      BY <1>3, <3>1, <3>2, HeldIsPublished DEF Cached
  <2> QED
    BY <2>1, <2>2
<1> DEFINE ConvOK(b) ==
              /\ began[b] \in Published \cup {None, FileScript}
              /\ last[b].ran \in Published \cup {None, FileScript}
              /\ state[b] = None <=> began[b] = None
              /\ state[b] # None => state[b].version = began[b].version
              /\ began[b] \notin {None, FileScript} => last[b].ran = began[b]
<1>6. \A b \in Convs : ConvOK(b)
  BY DEF ServedOK
<1>7. CASE /\ last' = [last EXCEPT ![c] = [NoTurn EXCEPT !.ran = Ran(c), !.action = "raised"]]
           /\ UNCHANGED <<state, began, unmet>>
  <2>1. last'[c].ran = Ran(c) /\ \A b \in Convs \ {c} : last'[b] = last[b]
    BY <1>2, <1>7 DEF NoTurn
  <2>2. \A b \in Convs : ConvOK(b)'
    BY <1>3, <1>6, <1>7, <2>1, RanIsPublished
  <2> QED
    BY <1>5, <2>2 DEF ServedOK
<1>8. ASSUME NEW d, Advanced(Ran(c), Loaded(c), d), state' = [state EXCEPT ![c] = d.state],
             last' = [last EXCEPT ![c] = [ran |-> Ran(c), action |-> d.action,
                                          node |-> d.node, missing |-> d.missing]],
             began' = [began EXCEPT ![c] = IF began[c] = None THEN Ran(c) ELSE began[c]]
      PROVE  ServedOK'
  <2>1. /\ state'[c] = d.state /\ last'[c].ran = Ran(c)
        /\ began'[c] = IF began[c] = None THEN Ran(c) ELSE began[c]
        /\ \A b \in Convs \ {c} : last'[b] = last[b] /\ state'[b] = state[b] /\ began'[b] = began[b]
    BY <1>2, <1>8
  <2>2. d.state # None /\ d.state.version = Loaded(c).version /\ Loaded(c).version = Ran(c).version
    BY <1>8, NoneOfThem DEF Advanced
  <2>3. ConvOK(c)'
    <3>1. CASE began[c] = None
      BY <1>3, <1>4, <2>1, <2>2, <3>1, RanIsPublished
    <3>2. CASE began[c] # None
      <4>1. began[c].version = Loaded(c).version
        BY <1>6, <3>2 DEF Loaded
      <4> QED
        BY <1>3, <1>6, <2>1, <2>2, <3>2, <4>1, RanIsPublished
    <3> QED
      BY <3>1, <3>2
  <2>4. \A b \in Convs : ConvOK(b)'
    BY <1>3, <1>6, <2>1, <2>3
  <2> QED
    BY <1>5, <2>4 DEF ServedOK
<1> QED
  BY <1>1, <1>7, <1>8, TurnShape

LEMMA ServedByEdit ==
    ASSUME BaseInv, Good => ServedOK, NEW e \in Edits, Edit(e), Good' PROVE ServedOK'
<1>1. DeskType /\ EditOK /\ RowsOK
  BY TypeParts DEF BaseInv
<1>2. ~mixed /\ \A v \in Stored : rows[v].published => v \in Stored' /\ rows'[v] = rows[v]
  BY <1>1, PublishedStays DEF Good
<1>3. Good /\ ServedOK
  BY <1>2 DEF Good
<1>4. Published \subseteq Published'
  BY <1>2 DEF Published
<1>5. UNCHANGED serving
  BY <1>1, EditShape
<1> QED
  BY <1>2, <1>3, <1>4, <1>5 DEF ServedOK, serving

LEMMA ServedHolds == ASSUME FileIsTheFirst PROVE Spec => [](Good => ServedOK)
<1>1. Init => (Good => ServedOK)
  BY DEF Init, ServedOK, NoTurn
<1>2. ASSUME BaseInv, Good => ServedOK, [Next]_vars, Good' PROVE ServedOK'
  <2>1. CASE \E e \in Edits : Edit(e)
    BY <1>2, <2>1, ServedByEdit
  <2>2. ASSUME UNCHANGED Desk PROVE Good /\ Stored' = Stored /\ Published' = Published /\ rows' = rows
    BY <1>2, <2>2 DEF Good, Stored, Published, Desk
  <2>3. CASE \E c \in Convs, turn \in Turns : Turn(c, turn) /\ UNCHANGED Desk
    BY <1>2, <2>2, <2>3, ServedByTurn
  <2>4. CASE Restart
    <3>1. UNCHANGED Desk /\ UNCHANGED <<state, last, began>> /\ DOMAIN cache' = {}
      BY <2>4 DEF Restart, Desk
    <3> QED
      BY <1>2, <2>2, <3>1 DEF ServedOK
  <2>5. CASE UNCHANGED vars
    <3>1. UNCHANGED Desk /\ UNCHANGED serving
      BY <2>5 DEF vars, Desk, serving
    <3> QED
      BY <1>2, <2>2, <3>1 DEF ServedOK, serving
  <2> QED
    BY <1>2, <2>1, <2>3, <2>4, <2>5 DEF Next, Desk
<1> QED
  BY <1>1, <1>2, BaseHolds, PTL DEF Spec

\* A conversation keeps the published version it began on, what a turn runs is never a
\* draft, and the newest audit row names the version customers start on: ScriptResolver
\* and ScriptStore, for any number of versions, requests, conversations and restarts,
\* where the versions are told apart and no two requests have crossed.
THEOREM PublishedIsServed == ASSUME FileIsTheFirst PROVE Spec => []ServesWhatWasPublished
<1>1. ASSUME BaseInv, Good => ServedOK PROVE ServesWhatWasPublished
  <2>1. ToldApart /\ ~mixed => ServedOK
    BY <1>1 DEF ToldApart, Good
  <2>2. KeepsItsVersion /\ DraftIsUnreached
    BY <2>1 DEF KeepsItsVersion, DraftIsUnreached, ServedOK, Published
  <2>3. AuditNamesTheCurrent
    BY <1>1 DEF BaseInv, RowsOK, AuditNamesTheCurrent
  <2> QED
    BY <2>2, <2>3 DEF ServesWhatWasPublished
<1> QED
  BY <1>1, BaseHolds, ServedHolds, PTL
===============================================================================
