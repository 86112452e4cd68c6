# A formal model of the chat backend

TLA+ modules for the backend under `src/src/moc/`: what happens to a customer's
message from the vendor's webhook to the reply on its way back, what a crash, a lost
reply, a retry or a second process does to it, and what the stores, scripts and
settings a turn depends on look like while they change. TLC checks the modules on small
instances; TLAPS proves the theorems of the `..._proofs` modules for every instance.
Paths below are relative to `src/src/moc/` unless they start with `src/`.

    cd tla
    tlc -workers 2 -config MCInboundTurn_mixed.cfg MCInboundTurn
    tlapm Consumers_proofs.tla

## The system

One FastAPI process receives webhooks and serves the agents' console. Two kinds of
worker processes consume Valkey streams: the inbound worker answers customers, the
outbound worker sends. Postgres holds conversations, handoffs, scripts, settings,
documents, units and the ledger; two search services hold a copy of the knowledge base.
Everything is `asyncio`: state shared within a process changes only between awaits,
state in Valkey or Postgres between any two calls.

| Component | State | Operations | Talks to | What is hard |
|---|---|---|---|---|
| Webhook intake, `api/webhooks.py` | idempotency keys and the inbound stream, in Valkey | POST per vendor: verify, claim, publish, release | vendors (who retry), Valkey | claim and publish are two calls; each can fail, or be applied and still raise; the process can die between; vendors redeliver |
| Channel adapters, `channels/*` | accounts; a registry of senders in each process | parse a vendor's post, send | intake, outbound worker | one post carries several tenants' events, echoes and machines' mail; threads are rebuilt from headers |
| Stream consumer, `workers/streams.py` | consumer group, pending entries list, dead-letter stream | `run_once`: read history, read new, handle, count, bury, ack | a handler, Valkey | crash at any await; `MAXLEN` trims pending entries; delivery counts as attempt counts; a name shared by replicas |
| Inbound worker, `workers/inbound.py` | conversation row and thread, in Postgres | one turn per entry in one transaction, then the reply job | conversation store, handoffs, orchestrator, outbound stream | state and handoff are read seconds before they are used; commit, enqueue and ack are three steps |
| Handoffs and inbox, `agent/handoff.py`, `api/inbox.py` | handoff rows, frozen cursor, agent's messages | open, claim, reply, return | same conversation as the worker | the human and the bot act on one thread |
| Conversation store, `agent/conversations.py` | `conversations` | load, find, save, touch | inbound worker | whole-state upsert without a version |
| Turn orchestration, `agent/orchestrator.py`, `extraction`, `composition`, `guards`, `figure_audit`, `provenance` | what one turn holds; usage rows of its transaction | redact, extract beside retrieve, advance, resume, compose, check, audit | router, retriever, script engine, ledger | any provider call may fail while another is under way; two gates of which one may be unable to run; two searches in a resumed turn |
| Script engine, `agent/script_engine.py`, `agent/state.py` | a value per conversation | start, advance, resume | orchestrator | clarification limits, gates, what a bare answer belongs to |
| Script versions, `agent/scripts.py` | drafts and published versions, engine cache per process | save draft, publish, resolve | console, inbound worker | a conversation is pinned to a version while versions are published |
| Knowledge base sync, `retrieval/knowledge.py`, `retrieval/ingest.py` | documents, chunks, outbox; dense and lexical stores | ingest, sync, remove | Postgres and two stores | three stores written one after the other |
| Retrieval, `retrieval/fusion.py` | none | search both arms, fuse, gate | search services, Postgres | an arm may be missing; tenants share the indexes |
| Inventory, `retrieval/inventory*.py` | `inventory_units` | import a sheet, search, look up, suggest | real-estate agent | a catalogue changes between two turns, and within one |
| Real-estate vertical, `verticals/realestate/*` | what a turn reads; leads | one inventory turn; a plan; a lead | inventory, script engine | which unit is meant; exact instalments; one team, no fallback |
| Outbound worker, `workers/outbound.py` | token bucket per tenant in Valkey | route, draw a token, send | vendors | bucket is read and written in two calls; a throttled job is a failed job; monotonic clock in shared storage |
| LLM router and clients, `llm/*` | a breaker per provider, in the process | `complete`, `embed`, retries | providers | calls overlap on one breaker; half-open; which errors are the provider's |
| Console: `tenancy/agent_auth.py`, `passwords.py`, `settings.py`, `branding.py` | agents, sessions, settings, audit, logos | sign in and out, put, logo | Postgres under row-level security | old value read before it is replaced; row locks; deadlocks |
| Metering, `tenancy/metering.py`, `pricing.py`, `analytics.py` | `usage_ledger` | price, record, report | every turn | a call without a price, a turn that ends early |
| Evaluation, `evals/*` | runs, verdicts, one `eval_runs` row | headroom, drive, grade, record | orchestrator, router | providers fail in the middle of a suite, the judge's included |
| Arabic text, composition root, migrations, scripts, the browser console | none, or schema | conversions, construction, tools | | little control; unit-tested |

What makes each correct: the intake never says "delivered" of a message that is not
queued, nor queues it twice; only people are answered, from an account of the tenant they
wrote to, inside the window, in their own thread; the consumer forgets an entry only
after its work, and settles all of them; a turn leaves state, thread, ledger and reply
in agreement and stays silent under a human; nothing but what the sources hold is said;
a conversation stays on the script it started and is not asked for ever; search finds
what Postgres holds and only a tenant's own; an offer is a unit that is on sale at the
price its plan adds up to; the sender keeps to the vendor's rate; the router opens a
circuit on a real outage and finds back; the audit is a setting's history; no model
grades itself.

## Modules

| Module | Models | State and actions against the code |
|---|---|---|
| `AtLeastOnce` | nothing: the promise of a queue | items are accepted, worked, reported, forgotten, or dropped by a backlog |
| `StreamConsumer` | `workers/streams.py`, the producers' `XADD`, process death | `tail`/`trimmed` are the stream, `owner`/`deliveries` the pending entries list, `pass`/`stage`/`hand` where each process is in `run_once`, `_drain`, `_process`, `_bury`. One action per await. The handler is `Work` (its effects become durable) and how it ends (`HandleOk`, `HandleTerminal`, `HandleError`) |
| `Intake` | `api/webhooks.py`, `ValkeyEventLog`, the inbound publisher | `claims` are the keys, `queued` the stream, `at` the place in the handler. `Claim`, `PublishMessage`, `Release` each end in "ok", "fail" (not applied) or "lost" (applied, and raised). `Verdict` stands for accounts, signatures and parsing |
| `Inbox` | `agent/handoff.py`, handlers of `api/inbox.py` | `handoff` is the latest row with its frozen cursor; replying is two actions, commit and publish |
| `InboundTurn` | `workers/inbound.py` and the conversation store; EXTENDS `StreamConsumer` and `Inbox` | the handler's steps: `Load` (or `RefuseVertical`), `CheckHandoff`, then `CommitSuspended` or, after the model call, `CommitTurn`, then `EnqueueReply`; `FailTurn` is any exception. `script` counts how often each message is taken into the state, which is what tells a lost or doubled turn from a good one |
| `OutboundSender` | `workers/outbound.py`; EXTENDS `StreamConsumer` | `bucket` is the hash (its `at` kept as an age, so that time is relative), `read`/`lag` what a process holds of it and of the clock; `ReadBucket`, then `TakeToken` or `Throttle`, `Send`. `Reboot` restarts the monotonic clock under a hash that survives |
| `Router` | `_Breaker`, `Router.complete`, the retry loop of `llm/http.py`, the status tables of both clients | `Primary` and `Failover` are the routing; a breaker is `failures`, `opened`, `age`; a call is `at`, `rest` (its candidates), `tries`; `Replies` are the kinds of answer a vendor gives, sorted as the code sorts them |
| `ScriptEngine` | `agent/script_engine.py`, `agent/state.py` | pure: `Advance(script, state, turn)` is the decision, state and all. Nodes, slots, narrower-than pairs and limits are data |
| `Scripts` | `agent/scripts.py`, the resolver, a conversation's pin; EXTENDS `ScriptEngine` | `rows` by version, `edit` the console's requests a statement at a time (`SaveReads` ... `Publish`), `cache` the process's engines, `Turn` a message taken on the script the resolver finds |
| `Reading` | `agent/extraction.py`, `slot_vocabulary` | pure: a model's document to an intent and slots, or `Refused` |
| `Grounding` | `agent/guards.py`, `figure_audit.py`, `provenance.py` | pure: redaction, the figure check, the audit's judgement, the sources of figures |
| `Ledger` | `tenancy/metering.py`, `pricing.py`, `analytics.py` | pure: the price of a use, its row, the report over rows |
| `Dialogue` | `agent/orchestrator.py`; EXTENDS `Reading`, `Ledger`, `Grounding` | a turn's stages, each provider call with all its outcomes: `Extract` and `Search` in either order, `Resume` and `Requery`, `Choose`, `Compose`, `AuditFigures`, and `SendComposed`, `Discard` or a `ScriptedReply` |
| `Chunker` | `retrieval/chunker.py`, `preview.py` | pure: sentences packed into chunks with overlap, and the warnings |
| `Fusion` | `retrieval/fusion.py` | pure: reciprocal-rank fusion over two arms, either of which may be missing |
| `Knowledge` | `retrieval/knowledge.py`, `ingest.py`, the stores; EXTENDS `Chunker`, `Fusion` | `rows` is Postgres, `dense`/`lexical` the stores, `at`/`job` each request's place; a store call may fail, a request may die anywhere; a search reads the sparse arm, then the dense one, with anything between them |
| `Inventory` | `retrieval/inventory_import.py`, `inventory.py` | pure: a sheet's rows to units, the upsert, search, lookup, alternatives |
| `RealEstate` | `verticals/realestate/*`; EXTENDS `Reading`, `Grounding`, `Inventory` | a turn reads the vocabulary (`Begin`), then answers (`Lookup`, `PaymentPlan`, ...), with sheets loaded in between; leads are opened from the conversation |
| `Adapters` | `channels/base.py`, the four adapters' parsers, `accounts.py` | pure: a vendor's body to messages of tenants |
| `Exchange` | what joins adapters, conversations, inbox and senders; EXTENDS `Adapters` | posts that arrive late, `last_inbound_at`, jobs with the time they were taken from, the senders' cache, what vendors took. `wrote` remembers when a customer last wrote to each address, `owned` every account a tenant has had, `served` those it has had since the sender's process began |
| `Console` | `tenancy/agent_auth.py`, `passwords.py`, `settings.py`, `branding.py`, `api/auth.py`, `api/tenant.py` | `req` is each request's place; a `put` reads, then upserts setting by setting under row locks, then commits value and audit together, or aborts; `since` in an audit row is where the audit ended when its `put` read |
| `Evaluation` | `evals/runner.py`, `judge.py`, `headroom.py`, `spend.py`, `repeatability.py` and the live test that drives them | an invocation's phases; `down` providers change between any two calls |
| `Consumers_proofs`, `Intake_proofs`, `Vendors_proofs`, `Console_proofs`, `Evaluation_proofs`, `Scripts_proofs`, `Answers_proofs`, `RealEstate_proofs` | the theorems | each EXTENDS its module; `Consumers_proofs` both workers and their consumer, `Vendors_proofs` `Exchange` and `Router`, `Answers_proofs` `Knowledge` and `Dialogue` |
| `MC...` | instances for TLC | |

How they compose: `InboundTurn` and `OutboundSender` are shown to implement
`StreamConsumer` (`ImplementsConsumer`, `SendImplementsConsumer`), and `StreamConsumer`
to implement `AtLeastOnce` (`KeepsTheQueuePromise`), so what is proved of the consumer holds of both workers.
`Dialogue` and `RealEstate` are the inside of the one step in which `InboundTurn` asks
the model; `Scripts` is where the script they run comes from; `Exchange` joins the ends
that `Intake` and `OutboundSender` model with their queues' faults.

Definitions whose comment starts with "Slip:" are wrong on purpose. Nothing in the model
uses them: each is a plausible mistake in the definition that follows it (a dropped
guard, a missing reset, a swapped order), and substituting it there must break the
property `PROJECT.json` pairs it with.

### What the models leave out of what they model

- A transaction's writes appear at its commit. They are made under READ COMMITTED, and
  the row locks they take are taken just before it, so nobody sees them earlier. Where
  that matters (`Scripts`, `Console`) each statement is an action of its own.
- All entries of `InboundTurn` are one customer's, all jobs of `OutboundSender` one
  tenant's: nothing else they touch is shared between customers or tenants.
- Text is data: a pattern's match is a span, a figure a number, a reply a key with the
  slots it speaks of, a query whatever it finds. What a regular expression, a tokenizer
  or a model makes of a text is any of the possible outcomes.
- Signatures are a verdict in `Intake` and a key in `Adapters`.
- Order of messages within one webhook batch: any order, as nothing depends on it.
- In `Dialogue`, retries and failover are `Router`'s: a provider call there answers, is
  unavailable, or is refused.
- In `RealEstate`, a lead is opened as `open_lead` would; nothing in the code calls it.

## Runs

All bounds are constants of the modules, marked "bound:" there. Every run passes.

| Run | What it asks | Instance, and why it is enough |
|---|---|---|
| `consumer_own` | does the loop lose, double or strand an entry? | two processes with a name each, two entries, two attempts, MAXLEN 1, one death. Entry 1 can be trimmed before or while it is pending; a batch has an entry in hand and one waiting; a death falls at every await, of either process; budgets of two tell first, last and one too many apart |
| `intake_faults` | which faults lose or double a message? | two requests at once, a batch of two messages, a delivery that is ignored or refused; two failed calls, one lost reply, one death, one expiry, one redelivery after a 200 |
| `turn_mixed` | do state, thread, replies and handoff agree? | one worker, two messages (the second answered without words), a handoff that is opened, claimed, answered and returned, one death, one failing attempt before the last |
| `send_rate` | is the limit kept, is nobody refused wrongly? | one sender, capacity of 1.5 tokens (so that fractions matter), a stall of one tick, one death, one reboot with up to two ticks of uptime recorded |
| `router_calls` | breakers and retries under overlap; recovery | two calls at once, two providers, a task with and one without a failover, threshold 2, one retry, any provider excluded by the caller |
| `dialogue_turns` | is a turn metered, grounded and polite about its questions whatever fails? | three turns, three messages (one with two adjoining redactions, one a bare answer, one that changes the subject), three retrievals (a hit, nothing, a constant only), five completions, four audits, one model without a price. A limit of two clarifications is met within three turns; prompts and prices put one call over the long-context threshold |
| `script_versions` | which script does a conversation run, and does it loop? | two console requests, two versions, one conversation, six readings of a message; two bodies, one without a fallback, one with a higher limit and a node less. Turns are not bounded: the count is, by the limit |
| `knowledge_stores` | do the search stores follow Postgres? | two tenants with a document of one name, two requests at once, two writes, one fault (failure or death) at any step, one search between; texts of two overlapping chunks, of one oversized sentence, and none at all |
| `realestate_turns` | is an offer real, about the unit meant, and its lead with the right team? | three turns, thirteen readings (one with an id and another place), two snapshots that reprice and sell a unit, two sheets (one without ids), a broker and a one-project developer |
| `exchange_replies` | who is answered, from where, when, in which thread? | five accounts of two tenants on all five channels' code paths but Instagram's own, one replacement account, echoes and edits and receipts, two mail clients (one drops references), posts up to one tick late, a window of one tick |
| `console_requests` | who may change what, and does the audit say so? | two agents of two tenants, two requests, one session, two commits, changes of two settings in one order and in the other, so that two of them do deadlock |
| `evaluation_suite` | who grades whom, what counts as passed, what does the row say? | `routing.yaml`'s real candidates, two cases, three outages that begin or end between any two calls, graded and ungraded. One run of the suite, where `repeat` refuses fewer than two: a second begins as the first did, but for the outages, and two are more states than a check has time for; the theorems are of any number |

`EachLossIsAFault`, `ClaimsAreHonoured`, `SpeaksOverOnce`, `ThreadAndQueuesAgree`,
`StoresFollowPostgres`, `ServesWhatWasPublished`, `AuditIsTheHistory` and `RateIsKept`
are accounts rather than absolutes. The code does not exclude what they are about, it
bounds it: a message is lost, doubled, answered over or unsent only through a named
fault; a store is wrong only after a sync that met trouble; a version is replaced under
a conversation only where two console requests crossed; an audit row starts at an old
value that is no longer the last only where the change in between was committed while
its `put` was in flight. History variables (`early`,
`over`, `allowance`, `streak`, `marred`, `strewn`, `mixed`, `since`, `owed`, `asked`)
keep those accounts; "Where the code departs from what it says" tells what lies outside.

The type invariants of `Intake`, `InboundTurn` (`TurnTypeOK`), `OutboundSender`
(`SendTypeOK`), `Router`, `Console`, `Evaluation`, `Scripts` and `Knowledge` are part of
the inductive invariants below, and what is known of `Dialogue`'s variables is. They hold
on the instances above, but no configuration lists them.

### Liveness and fairness

- Workers: `run.py` loops over `run_once` forever (lines 214-222, 253-258) and every
  service in the compose file has `restart: unless-stopped`. Hence weak fairness of a
  process's next step and of its restart. Deaths are bounded and never fair.
- Intake: a request that is being served runs on (weak fairness). A delivery that was not
  answered 200 is posted again (strong fairness, since its slots come and go): "Vendors
  retry for hours" (`channels/valkey.py:150`). Faults are bounded: with endless failures there
  is no promise to keep.
- Router: every provider call ends, at the latest in its timeout; time passes; turns keep
  coming. `RecoversToPrimary` assumes nothing of a provider but that from some time on
  it answers.
- Agents, customers and failing calls are not fair anywhere. The other modules state
  safety only: they end when their turns, edits or requests do.

`CHECK_DEADLOCK FALSE` is set where the system may stop: `Intake` (every delivery was
answered 200 and the redeliveries are used up), `Knowledge`, `Exchange`, `Console` and
`Evaluation` (the bounded writes, time, commits or cases are used up). Two console
requests that deadlock on row locks are not such a stop: Postgres aborts one (`Aborts`).

## What is proved

Every theorem is about every value of its module's constants: any number of processes,
calls, requests, tenants, messages and providers, any limit and any bound. What is
assumed of them is each module's ASSUME, which TLC evaluates on the instances: that the
processes, requests and messages of one moment are finitely many (they are counted);
that a `put`'s changes name a setting once, being a dict; that a model named by nobody is
none; and for `Exchange` what chat vendors post (only an event of kind "message" is a
person's; a Meta body's object is the product of the accounts its entries are for).
`Dialogue` assumes of its script that a node's action is one of the four of `Action`; of a
message that no pattern matches the empty text; of a retrieval that its sources are its
passages, one each, in their order (`fusion.py` says so of the field); of a use that it
has the fields `record_usage` is called with and names a model; and that the model values
for "none" and "no source" are none of the things they stand beside.
`RealEstate` and `Inventory` assume that the sales teams and a sheet's rows are lists; that
a loaded price is a natural number, as its column is a bigint that is not null, and so is
what a sheet writes as a number; that a plan's terms are natural numbers, none of which
the code checks, zero instalments included; that `near_price` is an integer slot, as
`search.yaml` has it; and that unit ids have an order.
Seven theorems need more, and say so with an ASSUME of their own: `OneWorker` and
`OneSender` (compose.yaml runs one of each), `IdsAreOwn` (a message's idempotency key is
no other's), `OneClientEach` (a customer's mails come from one client),
`FileIsTheFirst` (the platform's own script is version 1, as every file under
`src/config/scripts` is), `ListsAreShort` (an arm's list is no longer than the k of the
fusion plus one) and `OverlapIsAShare` (a chunk's overlap is no longer than its target,
and the preview's factor at least 2). The last two are what the configuration says and no
code asks. Without its assumption each theorem is false; "Where the code departs from
what it says" tells how. `TextsAreSentences` says what `split_sentences` returns: a list
of sentences, none of which is empty.

| Module | Theorem | Property |
|---|---|---|
| `Consumers_proofs` | `TypeCorrect`, `AcksAfterTheWork`, `NothingIsLost`, `RetriesStayBounded` | `TypeOK`, `AckedAfterWork`, `NothingLost`, `RetriesAreBounded` |
| | `ImplementsTheQueue` | `KeepsTheQueuePromise`: refinement of `AtLeastOnce` |
| | `TurnWorkerIsAConsumer` | `ImplementsConsumer`: refinement of `StreamConsumer` |
| | `SpeaksOverOncePerWorker` | `SpeaksOverOnce` |
| | `RepliesFollowTheThread` | three of `ThreadAndQueuesAgree`'s four parts, for any number of workers |
| | `ThreadAndQueuesNeverDisagree` | `ThreadAndQueuesAgree`, for one worker |
| | `SenderIsAConsumer` | `SendImplementsConsumer`: refinement of `StreamConsumer` |
| | `RateIsKeptByOneSender` | `RateIsKept`, a property of steps, for one sender |
| `Intake_proofs` | `EveryClaimIsHonoured`, `NoLossWithoutFault` | `ClaimsAreHonoured`, `EachLossIsAFault` |
| `Vendors_proofs` | `PeopleAreAnswered`, `TenantsAreKeptApart`, `WindowIsKept`, `ThreadsStayWhole` | `OnlyPeopleAreAnswered`, `AnsweredByWhomTheyWroteTo`, `FreeformInsideWindow`, `ThreadKeepsItsRoot` |
| | `OpensOnOutagesOnly`, `GivesUpOnOurFaultOnly` | `OpenAfterOutage`, `FailsOverWhatIsTheirs` |
| `Console_proofs` | `SettingsAreTheirOwn`, `AuditCanBeRead` | `OwnAgentsOnly`, `AuditIsTheHistory` |
| `Evaluation_proofs` | `NoSelfGrading`, `PassedMeansJudged`, `SubstitutionsAreNamed` | `NobodyGradesTheirOwn`, `PassedWasJudged`, `SubstitutionIsNamed` |
| `Scripts_proofs` | `PublishedIsServed`, `LoopStaysBounded`, `QuestionsAreResumed` | `ServesWhatWasPublished`, `LoopIsBounded`, `QuestionIsResumed` |
| `Answers_proofs` | `StoresFollow`, `SearchStaysSound`, `ChunksStaySound` | `StoresFollowPostgres`, `SearchIsSound`, `ChunksAreSound` |
| | `FiguresAreGrounded`, `QuestionsStayKept`, `MatchesAreCut` | `OnlyGroundedFigures`, `QuestionsAreKept`, `NoMatchIsSent` |
| | `EveryCallIsMetered` | `LedgerIsComplete` |
| `RealEstate_proofs` | `OffersStayReal`, `TheUnitMeantIsAnswered`, `LeadsFindTheirTeam` | `OffersAreReal`, `UnitIsTheOneMeant`, `LeadReachesItsTeam` |

None of these properties is inductive as it stands. What the inductive invariants add,
each checked by TLC before it was proved:

- The consumer (`Inv`): the `XACK` looks only at where the process is, so `AboutToAck`
  says that a process about to ack has worked or buried the entry it is on. That in turn
  needs a batch to be worked in order (`OldestIsUnique`) and reads to leave a process at
  "handle" (`ReceiveNeverAcks`). `NothingLost` needs to know that whatever is pending, in
  hand, worked or acked was delivered and lies behind the cursor (`PendingOK`, `HandOK`,
  `TouchedOK`), and that no read jumps the cursor over an entry, which is
  `FirstOfIsPrefix`: COUNT keeps the oldest ids. None of it mentions names, so it holds
  for replicas that share one. `RetryInv` does: with names of their own, what a process
  has in hand is pending with it alone, and the deaths so far pay for every attempt
  beyond the limit.
- `InboundTurn` (`TurnInv`): each step is the consumer's or a stutter, so `Inv` is there
  for nothing. The process's place in its turn says where its loop is; a reply still to
  be enqueued was committed and is counted among the answers (`JobsOK`); the workers in
  the model call when a handoff opened are an upper bound of the turns that will speak
  over it (`OverOK`). `StateOK`, for one worker: what it loaded is still what the row
  says, so the commit that overwrites the whole state loses nothing.
- `OutboundSender` (`SendInv`): between a perfect bucket and the hash there is at most
  one stall's refill (`NotOver`), and until a reboot turns the clock back the perfect one
  never has more (`NotUnder`), also as a process sees it that has read the hash and not
  yet written it. With two senders that last clause fails.
- `Intake` (`Inv`): the right to publish an id is held by its free claim or by one
  request between claim and queue. An expiry makes a right, nothing else does, and a
  right becomes an entry unless the publish was applied and raised. For losses (`LossOK`)
  each message that is told and not queued has its death, lost reply or pair of failures,
  paid for from the budgets.
- `Exchange` (`Inv`, `ThreadInv`): a message, a conversation's `last_inbound_at` and a
  job are no later than the customer's last writing to an address of the tenant's
  (`Opened`), the post's delay added; what is known of the customer only grows
  (`OldStays`), so a stale conversation or a job that waited is still known for what it
  was. Every mail of an exchange with a client that keeps references starts with the root.
- `Router` (`RouterInv`): a breaker counts no more failures than came in a row, though calls
  that overlap and half-open circuits reset it.
- `Console` (`Inv`): a request acts as the session it presented; whoever is active or has a
  session has a hash made at the floor or above (`HashesOK`); what a `put` has read is what the rows
  of the audit up to that moment left of each setting (`OldOK`), which rows appended later
  do not change (`PrefixLeaves`).
- `Evaluation` (`Inv`): an invocation's models are on the ledger it will be judged by, a
  turn is graded exactly when it is gradable, and a row names what the check noted or
  else whatever on the ledger is no primary. That a task has a first standing candidate
  is the well-ordering of the naturals (`LeastPlace`).
- `Scripts` (`Inv`): the versions are numbered without a gap, and as long as no two console
  requests crossed only the newest can be a draft (`RowsOK`); what a request has read is
  a row that is there, or a number that is free or next (`EditOK`). While versions are
  told apart, every engine in the cache is a published row's, and a conversation's state
  names the version it began on (`ServedOK`), which is what a restart needs. The engine's
  count is the customer's turns nobody was served in (`CountOK`); a state that has just
  asked is at the node that asks for what is missing (`AskedOK`).
- `Knowledge` (`KbInv`): a request has its document to itself, or has marked it
  (`JobOf`). To itself, what it has read of the row and written to the first store is
  still so (`HeldOf`), and a removal under way has still to take exactly what is left of
  the document (`DropOf`). A store's points are filed under their own chunk and its
  tenant (`Filed`), so an upsert or a delete of one document leaves all others alone.
  For searches (`FindInv`) everything in either store, and everything a sync still has to
  write, was committed by the tenant it is filed under; the sparse arm that was read
  before the dense one is of the tenant that asked. That what both arms found comes first
  is arithmetic: two shares of the last place are more than one of the first
  (`TwoAreMore`), as long as the lists are short.
- `Chunker` (`PackedSoFar`): after n sentences the closed chunks and the open one span
  them (`Spans`), and each is within twice the target or has a sentence that fills it
  (`Fine`). The packing is a recursive function; that it exists, and what holds after n
  sentences for every n, is an induction over a set of naturals, `FromZeroOn`, which comes
  from the well-ordering of the naturals and needs no operator for a parameter.
- `Dialogue` (`DlgInv`): the state's count is that of the questions just asked; a decision
  on its way to the customer has counted its own and names nothing it holds as missing,
  so every end of the turn saves one or the other; what was sent to a provider is
  redacted text; a turn that answers has searched. Which matches a redaction takes is a
  definition by what was taken before: that there is such a set, and that a match cut
  nowhere would have been taken, is the well-ordering of the naturals (`SomeAreTaken`,
  `SomethingIsCut`), and so is that a figure's source is the first passage with it.
  `BooksInv` weighs the ledger against what turns owe it, at each stage of a turn and for
  each set of uses: what is booked, what was called and not yet booked (an extraction
  until it is read, searches until the engine has decided), and what a rollback returns
  to. Of one use it says that it is there as often as it was made, of all together that
  nothing else is.
- `RealEstate` (`ShopInv`): what is in the catalogue can be put in order and its plans
  computed, whatever was loaded over it (`CatalogueOK`: a sheet's row without a price is
  refused, and the last record of a unit wins); a price a customer named is a number,
  since anything else is refused when the document is read (`NearOK`). That a search has
  a cheapest, and a price a nearest plan, is the well-ordering of the naturals again.

Counting rests on `FiniteSetTheorems`. Arithmetic that is not linear is met twice: a rate
times an elapsed time in `OutboundSender` (`Times`), and in `RealEstate` what the floored
instalments leave of a price (`WhatIsLeft`).

Only model-checked is all liveness (`EventuallySettled`, `EventuallyTold`,
`EventuallyAttended`, `RecoversToPrimary`): fairness and ENABLED are beyond the proof
system. Every safety invariant and action property that a run checks is proved. The
library's induction theorems take an operator as a parameter, which no installed prover
can instantiate; where a definition is recursive (`Chunker`) the induction is over a set,
and elsewhere, where the code loops for a first, a last or a cheapest of something, the
modules say which it is. There are no `RECURSIVE` operators.

## Where the code departs from what it says

Met while modelling. The properties say how far the code goes; what follows is where
they stop, and why.

The pipeline:

- `workers/run.py:179` passes no consumer name, so every replica is "inbound-1", against
  `channels/valkey.py:3-5`: replicas read each other's live entries as their own history,
  and one entry is worked by two at once. `RetriesAreBounded` is about names of their own;
  the theorems hold for shared ones.
- `workers/streams.py:92-94` says the backlog is drained before new entries; a pass
  reads one batch of it. All is settled in the end nevertheless.
- `channels/valkey.py:161`: the idempotency key names no account, so two accounts'
  messages with one provider id are one message, told and not queued. In `MCIntake` every
  message has its own id, and `NoLossWithoutFault` assumes it.
- `api/webhooks.py:145-149`: a death between claim and publish, a redelivery answered
  while the first request is about to fail, or a release that fails, leave a message told
  and not queued (`EachLossIsAFault` counts them). An `XADD` applied whose reply is lost
  is queued twice (`ClaimsAreHonoured`).
- `workers/inbound.py:187`: two workers' turns of one customer load the same state, and
  the later commit overwrites the earlier (`ThreadAndQueuesAgree` is run with one worker;
  all of it but `StateMatchesThread` is proved for any number).
- `workers/inbound.py:158-161` says a retry would bill twice if a turn half-committed;
  a death after the commit does it all the same (`effects` may exceed 1).
- `workers/inbound.py:214`: a handoff opened during the model call is answered over, once
  per worker (`SpeaksOverOnce`), and what that turn did to the state is rolled back when
  the conversation is returned.
- `workers/inbound.py:411-413`: the retry recovers an unsent reply unless it finds a
  human in the conversation (`CommittedReplyIsSent`).
- `agent/handoff.py:54` claims any handoff that is not returned, so a second agent's
  claim of a claimed one succeeds, against
  `src/migrations/versions/0008_handoffs.py:27-28`.
- `workers/outbound.py:6-9` and `:114`: the bucket is shared but not atomic; each
  overlap of two senders draws one token twice (`RateIsKept` is one sender's).
- `workers/outbound.py:99`: a throttled job is a failed one and is read again at once,
  so waiting for a token uses up its attempts and it is buried without having been tried.
- `workers/outbound.py:112`: with `time.monotonic`, elapsed time is negative after a
  reboot of the host, and the bucket refuses until the uptime is made up.
  What `RateIsKept` says of a refusal is therefore of the time before a reboot.
- `workers/outbound.py:11-13` speaks of widening intervals; the history is read again at
  once, and nothing reads the backoff section of `src/config/workers/queues.yaml`.
- `llm/router.py:64-68`: once the window is over every concurrent call is let through,
  and the failure count restarts, so that one failed probe does not open the circuit again.

Channels:

- `channels/base.py:108` and `workers/inbound.py:422` take a reply to a message just
  received to be inside the window always; it is compared with the clock when it is sent,
  and a job found outside is retried and then buried.
- `agent/conversations.py:58`: a retried older message moves `last_inbound_at` back, and
  an agent's reply is refused although the window is open. `FreeformInsideWindow` is the
  other direction.
- Twilio and email messages are dated when they are parsed, hence the vendor's delay
  in that property.
- `api/inbox.py:182` passes no thread: an agent's reply by email opens a new one.
- `channels/senders.py`: an adapter is cached until its process ends, so a channel's new
  account is not used before (`AnsweredByWhomTheyWroteTo` says: an account the tenant has
  had while that process ran); two accounts of one tenant on one channel make every send fail; conversations
  are keyed without the account.
- A Meta page is looked up under messenger first and instagram second, whatever the
  post's object says; the message is then on the object's channel. `Exchange` assumes
  that the two agree.
- A customer who answers one exchange from two mail clients, one of which drops
  references, splits it: `ThreadKeepsItsRoot` is about customers with one client
  (`OneClientEach`).

Turns:

- The head of `agent/orchestrator.py` has every failure path end in a scripted reply. An
  embedding outage raises `ProviderUnavailable`, which neither the gather nor the
  re-query catches: the turn is rolled back, redelivered and in the end buried
  (`KilledInGather`). A request a provider rejects kills the turn as well.
- A refused extraction's call, and the embedding of the half that went on beside it, are
  not metered: `LedgerIsComplete` is about turns that reached the engine.
- The audit passes on any fault or unreadable answer, and judges only the claims it is
  given; whether a figure is written in a quoted span is a substring test.
- `tenancy/pricing.py`: a missing cache rate is said to fall back to the input rate; the
  call is unpriced instead, and one unpriced row drops its model's whole cost from the
  report's total.
- `verticals/realestate/agent.py:629` says the current message beats the held context;
  `_resolve_unit` (`:662`) and `_delivery_date` (`:451`) take an id quoted earlier before
  a place named now. The plan nearest a price is chosen by the merged slots' price
  (`:696`), which an earlier message may have named, although the place is "the message's
  own". `UnitIsTheOneMeant` states the order the code has, not the docstring's.
- In the inventory path an extractor outage and a list of types with an alternative
  elsewhere raise out of the turn; nothing is redacted before extraction; a refused
  extraction bills a reply and no message; the snapshot's date is a constant (`:878`).
- `verticals/realestate/calculator.py:158` divides by an instalment count it compares only
  with years times frequency: a plan of zero years raises out of the turn (`Killed`).
- `retrieval/inventory_import.py`: units missing from a new sheet stay on sale, and a
  re-import erases every payment plan, which no sheet carries.

Scripts, knowledge, console, evaluation:

- `agent/scripts.py:69-75`: a draft is updated by id without asking whether it still is
  one, so a publish in between has its published text replaced; two saves can leave two
  drafts; the later of two publishes stamps and audits an older version. `mixed` marks it.
- `agent/scripts.py:191` looks a version up whether it is published or not, against
  `:263-264` ("a draft is by definition the version no customer has reached"). A
  conversation on a script whose body names a later version reaches the draft of that
  number, and runs it; so would one on a platform script that is not version 1
  (`FileIsTheFirst`). `ServesWhatWasPublished` is about versions that are told apart.
- A conversation is pinned to the version its script's body names, not to its row's:
  publishing a tenant's first version moves the conversations started on the platform's
  script onto it where both bodies name one version (`ToldApart`).
- `retrieval/knowledge.py:173`: the content hash is committed before the stores are
  written and nothing drains the outbox, so the same upload after a failed sync is
  answered "unchanged" and stays unfindable (`marred`). A shortened or moved document's
  old chunks, and those of a removal that failed half-way, stay in the stores
  (`strewn`). The hash does not cover the vertical.
- `retrieval/fusion.py:42-44` promises to degrade; an embedder's exception propagates.
  `chunk_ids_for` (`:463`) ignores its query. Points are written without the `content`
  that `fusion.py` says their payload carries.
- `retrieval/fusion.py` has agreement of the arms outrank one arm's certainty. That is
  so while `candidates_per_arm` is at most `rrf_k` + 1; `src/config/retrieval/lexical.yaml`
  has 20 and 60, and nothing compares them.
- Two sentences of the target's exact length overlap into a chunk that is reported as
  oversized; with an `overlap_ratio` over 1, which nothing refuses, short ones would.
- `tenancy/settings.py:128` reads the old values in a transaction of their own, so two
  overlapping changes of one setting record the same old value: `AuditChains` says of a
  row which committed value it starts at, not that the row before it ended there.
- An agent's status is asked before the password only: a suspension stops the next
  sign-in, not the one under way.
- `src/config/llm/routing.yaml` names one model as composition's failover and
  as judge. A graded run whose composition fails over after `check_primaries` asked
  leaves `substituted` empty, although `evals/spend.py` has it recorded:
  `SubstitutionIsNamed` excepts the judge's model in graded runs.
- A judge's outage, or a judge's request that is rejected, ends the whole invocation with
  its uncommitted ledger (`LoseInvocation`). `evals/report.py` counts errored cases as
  failed where the head of `runner.py` excludes them.

## Not modelled

- Arabic normalization and numerals, prompts, wording and layout: character-level
  conversions without control, which their unit tests reach.
- `api/main.py`, middleware, client construction and payload codecs: no state.
- Table definitions and migrations, beyond the keys, unique indexes and row-level
  security the models rely on; read-only endpoints and the other reports of
  `tenancy/analytics.py`; the browser console; `src/scripts/` but for the import.
- The evaluation scorers' text comparisons, case schema and report. They decide no
  sequence of steps; their outcomes are inputs of `Evaluation`.
- The embedding cache, a memo of a pure call; the counts of the import preview.
- Two senders on one bucket and two workers on one conversation are not run: what goes
  wrong there is listed above, and instances large enough for the rest of those modules'
  cases would not be.

## Plan

The modules above cover the parts of the backend with control of their own, and every
safety property the runs check is proved. What would come next:

1. two senders on one bucket, with a bound on the tokens their overlaps draw twice;
2. what a conversation does when two workers serve it, as a property of its own;
3. the embedding cache and the import preview's counts, should they gain state.
