------------------------------ MODULE Knowledge ------------------------------
(***************************************************************************)
(* retrieval/knowledge.py and ingest.py over the two search stores of       *)
(* vectors.py and lexical.py, which every tenant shares, and the retriever  *)
(* of fusion.py that reads them.  Postgres is the source of truth; the      *)
(* stores follow it one call at a time, with no transaction around them.    *)
(***************************************************************************)
EXTENDS Chunker, Fusion, SequencesExt

CONSTANTS Tenants,
          Docs,        \* document ids, numbers in the order of their names
          Verticals,
          Texts,       \* what a tenant may upload: title and body
          Requests,    \* console requests that may be in flight together
          MaxWrites,   \* bound: transactions that change a document
          MaxFaults,   \* bound: store calls that fail and requests that die
          Scores       \* similarities the dense arm may report

ASSUME KnowledgeAssumption ==
    Docs \subseteq Nat /\ Scores \subseteq Int /\ MaxWrites \in Nat /\ MaxFaults \in Nat

\* split_sentences makes a list of what is left of each part when it is stripped.
ASSUME TextsAreSentences ==
    \A text \in Texts : /\ text \in Seq(Range(text))
                        /\ \A i \in DOMAIN text : text[i].chars \in Nat \ {0}

VARIABLES rows,      \* kb_documents and its kb_chunks, by tenant and doc_id
          outbox,    \* kb_outbox: <<chunk, target>> of the pending rows
          dense,     \* the collections: points [id, vertical, tenant, chunk, text]
          lexical,   \* the indexes: documents, the same
          at, job,   \* where each request is, and what it carries
          seek,      \* the search under way: its tenant, its vertical, the sparse arm
          found,     \* the passages the last one handed on
          writes, faults,
          wrote,     \* history: every <<tenant, chunk, text>> a tenant committed
          marred,    \* history: its last sync is not done, failed, died or met another
          strewn     \* history: it shrank, moved, was half removed, or met another

tables  == <<rows, outbox>>
stores  == <<dense, lexical>>
request == <<at, job>>
history == <<wrote, marred, strewn>>
search  == <<seek, found>>
bounds  == <<writes, faults>>
kbVars  == <<tables, stores, request, search, bounds, history>>

Keys   == Tenants \X Docs
NoDoc  == [hash |-> <<>>, vertical |-> "", chunks |-> <<>>]
Job(k, text, vertical, chunks, alone) ==
    [key |-> k, text |-> text, vertical |-> vertical, chunks |-> chunks, alone |-> alone]
NoJob  == Job(<<>>, <<>>, "", {}, FALSE)
NoSearch == [tenant |-> "", vertical |-> "", sparse |-> <<>>]
Stored(k)    == rows[k] # NoDoc
ChunkIds(k, chunks) == {<<k, i>> : i \in DOMAIN chunks}

\* point_id_for: over tenant and chunk together.
PointId(chunk) == chunk

\* A store's upsert: by id, within the vertical's collection or index.
Upserted(store, points) ==
    {p \in store : \A q \in points : ~(q.id = p.id /\ q.vertical = p.vertical)} \cup points

\* What a sync writes for its document: the same points to either store.
PointsOf(j) ==
    LET pieces == ChunkText(j.text)
    IN  {[id |-> PointId(<<j.key, i>>), vertical |-> j.vertical, tenant |-> j.key[1],
          chunk |-> <<j.key, i>>, text |-> pieces[i]] : i \in DOMAIN pieces}

KbInit ==
    /\ rows = [k \in Keys |-> NoDoc] /\ outbox = {}
    /\ dense = {} /\ lexical = {}
    /\ at = [r \in Requests |-> "idle"] /\ job = [r \in Requests |-> NoJob]
    /\ seek = NoSearch /\ found = <<>>
    /\ writes = 0 /\ faults = 0
    /\ wrote = {}
    /\ marred = [k \in Keys |-> FALSE] /\ strewn = [k \in Keys |-> FALSE]

Busy(k) == {r \in Requests : at[r] # "idle" /\ job[r].key = k}
Mar(k)  == marred' = [marred EXCEPT ![k] = TRUE] /\ strewn' = [strewn EXCEPT ![k] = TRUE]
StoreFault == faults < MaxFaults /\ faults' = faults + 1
Goto(r, stage) == at' = [at EXCEPT ![r] = stage]
Done(r) == Goto(r, "idle") /\ job' = [job EXCEPT ![r] = NoJob]

\* _is_unchanged: the stored hash, over title and body, is this text's.
IsUnchanged(k, text) == Stored(k) /\ rows[k].hash = text

Crossed(j) == Job(j.key, j.text, j.vertical, j.chunks, FALSE)
\* A request takes up its document; the stores of two at once may cross.
TakeUp(r, k, text, vertical, chunks, stage) ==
    /\ Goto(r, stage)
    /\ job' = [q \in Requests |->
          IF q = r THEN Job(k, text, vertical, chunks, Busy(k) = {})
          ELSE IF q \in Busy(k) THEN Crossed(job[q]) ELSE job[q]]
    /\ IF Busy(k) = {} THEN UNCHANGED <<marred, strewn>> ELSE Mar(k)

\* POST /knowledge/documents: chunk, hash, and ask whether it is already stored.
Upload(r, k, text, vertical) ==
    /\ at[r] = "idle"
    /\ IF IsUnchanged(k, text)
          THEN Done(r) /\ UNCHANGED <<marred, strewn>>
          ELSE TakeUp(r, k, text, vertical, {}, "write")
    /\ UNCHANGED <<tables, stores, search, bounds, wrote>>

\* ingest_document and the hash, committed together: the document, its chunks, the
\* tail a shorter text leaves deleted, and a pending row per chunk and store.
WriteRows(r) ==
    LET j == job[r]
        k == j.key
        chunks == ChunkText(j.text)
    IN  /\ at[r] = "write" /\ writes < MaxWrites
        /\ rows' = [rows EXCEPT ![k] = [hash |-> j.text, vertical |-> j.vertical,
                                        chunks |-> chunks]]
        /\ outbox' = outbox \cup (ChunkIds(k, chunks) \X {"qdrant", "meilisearch"})
        /\ writes' = writes + 1
        /\ wrote' = wrote \cup {<<k[1], <<k, i>>, chunks[i]>> : i \in DOMAIN chunks}
        /\ marred' = [marred EXCEPT ![k] = TRUE]
        /\ strewn' = [strewn EXCEPT ![k] = @ \/ (rows[k].chunks # <<>> /\
               (Len(chunks) < Len(rows[k].chunks) \/ j.vertical # rows[k].vertical))]
        /\ IF chunks = <<>> THEN Done(r) ELSE Goto(r, "embed") /\ UNCHANGED job
    /\ UNCHANGED <<stores, search, faults>>

\* _sync: the embedder answers, and what it cost is written to the ledger.
Embed(r) ==
    /\ at[r] = "embed" /\ Goto(r, "dense")
    /\ UNCHANGED <<tables, stores, job, search, bounds, history>>

SyncDense(r) ==
    /\ at[r] = "dense" /\ Goto(r, "lexical")
    /\ dense' = Upserted(dense, PointsOf(job[r]))
    /\ UNCHANGED <<tables, lexical, job, search, bounds, history>>

\* Slip: the documents of a re-upload are the ones already there.
SyncLexicalOnce(r) ==
    /\ at[r] = "lexical" /\ Done(r)
    /\ lexical' = lexical \cup {p \in PointsOf(job[r]) : \A q \in lexical : q.id # p.id}
    /\ marred' = [marred EXCEPT ![job[r].key] = @ /\ ~job[r].alone]
    /\ UNCHANGED <<tables, dense, search, bounds, wrote, strewn>>

\* The last store has it: a sync that met nobody leaves its document in order.
SyncLexical(r) ==
    /\ at[r] = "lexical" /\ Done(r)
    /\ lexical' = Upserted(lexical, PointsOf(job[r]))
    /\ marred' = [marred EXCEPT ![job[r].key] = @ /\ ~job[r].alone]
    /\ UNCHANGED <<tables, dense, search, bounds, wrote, strewn>>

\* A sync that raises is caught and reported; the call may have been applied.
SyncFails(r) ==
    /\ at[r] \in {"embed", "dense", "lexical"} /\ StoreFault
    /\ Done(r) /\ marred' = [marred EXCEPT ![job[r].key] = TRUE]
    /\ dense'   \in {dense, IF at[r] = "dense" THEN Upserted(dense, PointsOf(job[r])) ELSE dense}
    /\ lexical' \in {lexical,
                     IF at[r] = "lexical" THEN Upserted(lexical, PointsOf(job[r])) ELSE lexical}
    /\ UNCHANGED <<tables, search, writes, wrote, strewn>>

\* DELETE /knowledge/documents: the chunks to take from the stores are read first.
RemoveDocument(r, k) ==
    /\ at[r] = "idle"
    /\ TakeUp(r, k, <<>>, rows[k].vertical, ChunkIds(k, rows[k].chunks), "delete")
    /\ UNCHANGED <<tables, stores, search, bounds, wrote>>

\* The rows go, with their chunks, and the commit.
DeleteRows(r) ==
    LET k == job[r].key
    IN  /\ at[r] = "delete"
        /\ IF ~Stored(k) THEN Done(r) /\ UNCHANGED <<rows, writes>>
           ELSE /\ writes < MaxWrites /\ writes' = writes + 1
                /\ rows' = [rows EXCEPT ![k] = NoDoc]
                /\ IF job[r].chunks = {} THEN Done(r)
                   ELSE Goto(r, "undense") /\ UNCHANGED job
    /\ UNCHANGED <<outbox, stores, search, faults, history>>

\* The dense arm deletes by tenant and chunk id, the lexical one by point id.
Without(store, j) ==
    {p \in store : ~(p.vertical = j.vertical /\ p.chunk \in j.chunks /\ p.tenant = j.key[1])}
WithoutIds(store, j) ==
    {p \in store : ~(p.vertical = j.vertical /\ \E c \in j.chunks : p.id = PointId(c))}

DeleteDense(r) ==
    /\ at[r] = "undense" /\ Goto(r, "unlexical")
    /\ dense' = Without(dense, job[r])
    /\ UNCHANGED <<tables, lexical, job, search, bounds, history>>

DeleteLexical(r) ==
    /\ at[r] = "unlexical" /\ Done(r)
    /\ lexical' = WithoutIds(lexical, job[r])
    /\ UNCHANGED <<tables, dense, search, bounds, history>>

\* A delete that raises is a 500, and the store after it is not reached.
DeleteFails(r) ==
    /\ at[r] \in {"undense", "unlexical"} /\ StoreFault
    /\ Done(r) /\ strewn' = [strewn EXCEPT ![job[r].key] = TRUE]
    /\ dense'   \in {dense, IF at[r] = "undense" THEN Without(dense, job[r]) ELSE dense}
    /\ lexical' \in {lexical, IF at[r] = "unlexical" THEN WithoutIds(lexical, job[r]) ELSE lexical}
    /\ UNCHANGED <<tables, search, writes, wrote, marred>>

\* The process dies under a request; what it committed stays.
Dies(r) ==
    /\ at[r] # "idle" /\ StoreFault
    /\ Done(r)
    /\ strewn' = [strewn EXCEPT ![job[r].key] = @ \/ at[r] \in {"undense", "unlexical"}]
    /\ UNCHANGED <<tables, stores, search, writes, wrote, marred>>

\* Slip: the filter names the collection and not the tenant.
EveryonesIn(store, t, v) == {p \in store : p.vertical = v}

\* _TenantScope: a search sees its tenant's points in its vertical, and no others.
ScopedTo(store, t, v) == {p \in store : p.tenant = t /\ p.vertical = v}

\* What a store may return: some of the points, in an order of its own.
Rankings(points) == {hits \in SeqOf(points, PerArm) : IsInjective(hits)}

\* The lexical arm answers first; it ranks and does not score.
SearchLexical(t, v) ==
    /\ seek = NoSearch /\ found = <<>>
    /\ \E hits \in Rankings(ScopedTo(lexical, t, v)) :
          seek' = [tenant |-> t, vertical |-> v,
                   sparse |-> [i \in DOMAIN hits |->
                      [chunk |-> hits[i].chunk, text |-> hits[i].text, score |-> Unscored]]]
    /\ UNCHANGED <<tables, stores, request, found, bounds, history>>

\* Then the dense arm, if there is one: similarities from the top down, and points
\* that the sync wrote with no text.
SearchDense ==
    /\ seek # NoSearch /\ found = <<>>
    /\ \/ found' = Fuse(Missing, seek.sparse).hits
       \/ \E hits \in Rankings(ScopedTo(dense, seek.tenant, seek.vertical)), best \in Scores :
             found' = Fuse([i \in DOMAIN hits |->
                              [chunk |-> hits[i].chunk, text |-> NoText, score |-> best]],
                           seek.sparse).hits
    /\ seek' = IF found' = <<>> THEN NoSearch ELSE seek
    /\ UNCHANGED <<tables, stores, request, bounds, history>>

\* The turn has taken its passages.
Grounded ==
    /\ found # <<>> /\ found' = <<>> /\ seek' = NoSearch
    /\ UNCHANGED <<tables, stores, request, bounds, history>>

Console(r) ==
    \E k \in Keys :
        RemoveDocument(r, k) \/ \E text \in Texts, v \in Verticals : Upload(r, k, text, v)
Sync(r)   == Embed(r) \/ SyncDense(r) \/ SyncLexical(r) \/ SyncFails(r)
Unsync(r) == DeleteDense(r) \/ DeleteLexical(r) \/ DeleteFails(r)
Searching == SearchDense \/ Grounded \/ \E t \in Tenants, v \in Verticals : SearchLexical(t, v)

KbNext ==
    \/ Searching
    \/ \E r \in Requests :
          Console(r) \/ WriteRows(r) \/ DeleteRows(r) \/ Sync(r) \/ Unsync(r) \/ Dies(r)

KbSpec == KbInit /\ [][KbNext]_kbVars
-----------------------------------------------------------------------------
Arrived(store, k, v, i, text) ==
    \E p \in store : p.chunk = <<k, i>> /\ p.vertical = v /\ p.tenant = k[1] /\ p.text = text

\* Whether a document's chunks are what both arms would find of it.
Indexed(k) ==
    \A i \in DOMAIN rows[k].chunks :
        /\ Arrived(dense, k, rows[k].vertical, i, rows[k].chunks[i])
        /\ Arrived(lexical, k, rows[k].vertical, i, rows[k].chunks[i])

\* "Uploaded" is true: after the last sync of a document that met no failure and
\* no other request, both stores hold every chunk Postgres has, as it is there,
\* whatever other tenants do to documents of the same name.
SearchableOnceSynced == \A k \in Keys : Stored(k) /\ ~marred[k] => Indexed(k)

\* "Delete a document and everything derived from it": outside a removal under way
\* no store answers with a chunk whose row is gone, unless the document shrank or
\* moved, a removal of it failed half-way, or two requests met on it.
WithdrawnIsGone ==
    \A p \in dense \cup lexical :
        LET k == p.chunk[1]
        IN  ~strewn[k] /\ (\A r \in Busy(k) : at[r] \notin {"undense", "unlexical"})
                => p.chunk[2] \in DOMAIN rows[k].chunks /\ p.vertical = rows[k].vertical

\* The two search stores say what Postgres says of a document, both ways.
StoresFollowPostgres == SearchableOnceSynced /\ WithdrawnIsGone

\* A tenant is answered from its own words only: every passage a search hands on is
\* a text this tenant committed for that chunk, current or withdrawn.
AnsweredFromItsOwn ==
    \A i \in DOMAIN found :
        /\ found[i].chunk[1][1] = seek.tenant
        /\ found[i].text # NoText => <<seek.tenant, found[i].chunk, found[i].text>> \in wrote

\* Two arms that agree outrank one that is certain.
FoundInAgreement == AgreementOutranks(found)

\* What a search hands on, between whatever uploads and removals: its tenant's own
\* passages, the ones both arms found first.
SearchIsSound == AnsweredFromItsOwn /\ FoundInAgreement

\* The chunker keeps every sentence whole and in place, and warns of the long ones.
ChunksAreSound ==
    \A k \in Keys :
        Covers(rows[k].hash, rows[k].chunks) /\ WarnsOfSentences(rows[k].chunks)

=============================================================================
