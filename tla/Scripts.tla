------------------------------- MODULE Scripts -------------------------------
(***************************************************************************)
(* agent/scripts.py over tenant_scripts, for one tenant and one script: the *)
(* console drafts and publishes versions, one statement of a READ COMMITTED *)
(* transaction at a time, while the inbound worker resolves which version   *)
(* each conversation's turn runs and script_engine.py advances it.          *)
(***************************************************************************)
EXTENDS ScriptEngine, FiniteSets

CONSTANTS Bodies,      \* scripts the console may send as a draft
          FileScript,  \* the platform's own, from config/
          Edits,       \* console requests that may be in flight together
          Convs,       \* conversations
          Turns,       \* what a message may be read as
          MaxVersions  \* bound: rows of tenant_scripts

\* Every script there may be, and every state a conversation may be left in by one.
Known      == Bodies \cup {FileScript}
SlotNames  == UNION {DOMAIN turn.slots : turn \in Turns}
SlotValues == UNION {{turn.slots[s] : s \in DOMAIN turn.slots} : turn \in Turns}
SlotMaps   == UNION {[S -> SlotValues] : S \in SUBSET SlotNames}
States ==
    [script : {s.id : s \in Known}, version : Nat, count : Nat, quoted : {None},
     node : (UNION {NodeNames(s) : s \in Known}) \cup {s.entry : s \in Known},
     slots : SlotMaps]

ASSUME ScriptsAssumption ==
    /\ MaxVersions \in Nat \ {0}
    /\ None \notin Known \cup States
    /\ \A s \in Known : s.version \in Nat /\ s.max \in Nat /\ None \notin NodeNames(s)
    /\ \A turn \in Turns : turn.slots \in SlotMaps

VARIABLES rows,     \* tenant_scripts, by version: [body, published]
          audited,  \* settings_audit: the version its newest script row names
          edit,     \* console requests: what each has read, and means to write
          cache,    \* ScriptResolver._cache, by version
          state,    \* conversations.state; None before the first message
          last,     \* each conversation's last turn: the script it ran, and how it came out
          began,    \* history: the script each conversation was started on
          unmet,    \* history: turns since the customer was last served or handed over
          mixed     \* history: two console requests for one row have crossed

vars == <<rows, audited, edit, cache, state, last, began, unmet, mixed>>

Versions == 1..MaxVersions
NoRow    == [body |-> None, published |-> FALSE]
Idle     == [at |-> "idle", body |-> None, version |-> 0, draft |-> FALSE]
NoTurn   == [ran |-> None, action |-> "none", node |-> None, missing |-> {}]
Stored   == {v \in Versions : rows[v] # NoRow}
Latest(S) == IF S = {} THEN 0 ELSE CHOOSE v \in S : \A w \in S : w <= v

Init ==
    /\ rows = [v \in Versions |-> NoRow] /\ audited = 0
    /\ edit = [e \in Edits |-> Idle]
    /\ cache = [v \in {} |-> None]
    /\ state = [c \in Convs |-> None] /\ last = [c \in Convs |-> NoTurn]
    /\ began = [c \in Convs |-> None] /\ unmet = [c \in Convs |-> 0]
    /\ mixed = FALSE

serving == <<cache, state, last, began, unmet>>
Finish(e) == edit' = [edit EXCEPT ![e] = Idle]

\* _draft_row: an unpublished row; with two, the database says which.
DraftRows == {v \in Stored : ~rows[v].published}

\* save_draft, its first statement: the draft it will replace, if there is one.
SaveReads(e, body) ==
    /\ \/ /\ DraftRows = {}
          /\ edit' = [edit EXCEPT ![e] = [Idle EXCEPT !.at = "number", !.body = body]]
       \/ \E v \in DraftRows :
             edit' = [edit EXCEPT ![e] = [at |-> "replace", body |-> body, version |-> v,
                                          draft |-> ~rows[v].published]]
    /\ UNCHANGED <<rows, audited, serving, mixed>>

\* It is updated by its id, whatever has become of it since.
SaveReplaces(e) ==
    LET v == edit[e].version
    IN  /\ edit[e].at = "replace"
        /\ rows' = [rows EXCEPT ![v].body = edit[e].body]
        /\ mixed' = (mixed \/ (edit[e].draft /\ rows[v].published))
        /\ Finish(e)
        /\ UNCHANGED <<audited, serving>>

\* _next_version: one past the highest there is by now.
SaveNumbers(e) ==
    /\ edit[e].at = "number" /\ Latest(Stored) < MaxVersions
    /\ edit' = [edit EXCEPT ![e].at = "insert", ![e].version = Latest(Stored) + 1]
    /\ UNCHANGED <<rows, audited, serving, mixed>>

\* uq_tenant_scripts refuses the second insert of a version, and of nothing else.
SaveInserts(e) ==
    LET v == edit[e].version
    IN  /\ edit[e].at = "insert"
        /\ IF v \in Stored THEN UNCHANGED <<rows, mixed>>
           ELSE /\ rows' = [rows EXCEPT ![v] = [body |-> edit[e].body, published |-> FALSE]]
                /\ mixed' = (mixed \/ DraftRows # {})
        /\ Finish(e)
        /\ UNCHANGED <<audited, serving>>

\* publish: the draft is read, then stamped and audited in one transaction.
PublishReads(e) ==
    /\ edit[e].at = "idle"
    /\ \E v \in DraftRows :
          edit' = [edit EXCEPT ![e] = [Idle EXCEPT !.at = "publish", !.version = v]]
    /\ UNCHANGED <<rows, audited, serving, mixed>>

Publish(e) ==
    /\ edit[e].at = "publish"
    /\ rows' = [rows EXCEPT ![edit[e].version] = [body |-> @.body, published |-> TRUE]]
    /\ audited' = edit[e].version
    /\ mixed' = (mixed \/ rows[edit[e].version].published)
    /\ Finish(e)
    /\ UNCHANGED serving

\* ScriptStore.current: the newest published version, 0 when there is none.
CurrentVersion == Latest({v \in Stored : rows[v].published})

CurrentScript == IF CurrentVersion = 0 THEN FileScript ELSE rows[CurrentVersion].body
Cached(held, v, body) ==
    IF v = 0 THEN held
    ELSE [w \in DOMAIN held \cup {v} |-> IF w = v THEN body ELSE held[w]]

\* ScriptResolver.at: the cached engine of that version, or the stored one, or None.
At(held, v) ==
    IF v \in DOMAIN held THEN held[v] ELSE IF v \in Stored THEN rows[v].body ELSE None

\* Slip: every turn runs the tenant's current script.
CurrentForAll(st, held) == CurrentScript

\* The script this turn runs: a conversation in flight keeps the version it names.
ScriptFor(st, held) ==
    IF st.version # CurrentScript.version /\ At(held, st.version) # None
    THEN At(held, st.version) ELSE CurrentScript

\* A message is answered: resolve the script, load the state, advance it, save it.
\* A turn that raises commits nothing but what the resolver cached.
Turn(c, turn) ==
    LET st    == IF state[c] = None THEN StartState(CurrentScript) ELSE state[c]
        held  == Cached(cache, CurrentVersion, CurrentScript)
        ran   == ScriptFor(st, held)
        d     == Advance(ran, st, turn)
        asked == st.version # CurrentScript.version /\ st.version \in Stored
    IN  /\ cache' = IF asked THEN Cached(held, st.version, At(held, st.version)) ELSE held
        /\ IF d = Raised
              THEN /\ last' = [last EXCEPT ![c] = [NoTurn EXCEPT !.ran = ran, !.action = "raised"]]
                   /\ UNCHANGED <<state, began, unmet>>
              ELSE /\ state' = [state EXCEPT ![c] = d.state]
                   /\ last' = [last EXCEPT ![c] = [ran |-> ran, action |-> d.action,
                                                   node |-> d.node, missing |-> d.missing]]
                   /\ began' = [began EXCEPT ![c] = IF @ = None THEN ran ELSE @]
                   /\ unmet' = [unmet EXCEPT ![c] = IF d.action = "clarify" THEN @ + 1 ELSE 0]

\* The worker process is replaced, and its engines with it.
Restart == cache # <<>> /\ cache' = [v \in {} |-> None]
           /\ UNCHANGED <<rows, audited, edit, state, last, began, unmet, mixed>>

Edit(e) == \/ edit[e].at = "idle" /\ \E body \in Bodies : SaveReads(e, body)
           \/ SaveReplaces(e) \/ SaveNumbers(e) \/ SaveInserts(e)
           \/ PublishReads(e) \/ Publish(e)

Next == \/ \E e \in Edits : Edit(e)
        \/ /\ \E c \in Convs, turn \in Turns : Turn(c, turn)
           /\ UNCHANGED <<rows, audited, edit, mixed>>
        \/ Restart

Spec == Init /\ [][Next]_vars
-----------------------------------------------------------------------------
\* Every row's body names the version it is stored under, which nothing enforces.
ToldApart == \A v \in Stored : rows[v].body.version = v

\* A conversation started on a published version keeps that version's script, turn
\* after turn, whatever is drafted and published meanwhile: as long as the versions
\* are told apart and no two console requests have crossed.
KeepsItsVersion ==
    ToldApart /\ ~mixed =>
        \A c \in Convs : began[c] \notin {None, FileScript} => last[c].ran = began[c]

\* A draft is a version no customer has reached: what a turn ran is the platform's
\* script or a published one, under the same two conditions.
DraftIsUnreached ==
    ToldApart /\ ~mixed =>
        \A c \in Convs : last[c].ran \in
            {None, FileScript} \cup {rows[v].body : v \in {w \in Stored : rows[w].published}}

\* The audit answers "the bot got worse yesterday": its newest row names the version
\* customers now start on, unless two console requests have crossed.
AuditNamesTheCurrent == ~mixed => audited = CurrentVersion

\* Customers are served what was published, and the audit says which that is,
\* through drafts, publications, caches and restarts.
ServesWhatWasPublished == KeepsItsVersion /\ DraftIsUnreached /\ AuditNamesTheCurrent

\* Nobody is asked to explain themselves more often than a script allows before a
\* person takes over: the count survives clarifications of every kind, closed gates,
\* versions and restarts.
LoopIsBounded ==
    \A c \in Convs : \E s \in Bodies \cup {FileScript} : unmet[c] <= s.max

\* A customer who answers what the bot asked is at the node that asked (edu-0007), or
\* at the fallback of a gate found shut, or with a person; never back at the start.
QuestionIsResumed ==
    \A c \in Convs, turn \in Turns :
        LET d == Advance(last[c].ran, state[c], turn)
        IN  /\ last[c].action = "clarify" /\ last[c].missing \cap DOMAIN turn.slots # {}
            /\ turn.intent = None
            => d = Raised \/ d.node = last[c].node \/ d.gate
=============================================================================
