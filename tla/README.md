# Verification of the audit RAG engine

The engine ingests audit documents, keeps them in MongoDB, Neo4j and S3, and
answers questions about them with an LLM. This directory holds TLA+ models of
its concurrent and failure-prone parts, the TLC configurations that check them
on small instances, and proofs, checked by TLAPS, for every value of the
constants. Paths below are relative to `src/` of the repository unless said
otherwise.

To check a run: `tlc -config <run>.cfg <module>.tla`; which module belongs to
which run is in the table of runs. To check the proofs: `tlapm <module>.tla` for
the eight modules whose names end in `_proofs`.

## 1. The system

    client --> API process --------- S3 (files)
               | ingest: _enqueue_document        | job record    MongoDB
               |                                  v
               +--> RabbitMQ: process -> extract -> postprocess --> dead letters
                      ^         |          |           |
                      |      worker processes, one consumer per queue
                      |         v          v           v
                      +-- MongoDB (documents, chunks, jobs), Neo4j (chunks, entities)
               | sync=true, connector syncs: run_ingestion_pipeline (no queue)
               |     the sources: SharePoint, Confluence, GRC, Jira, ServiceNow
               | retrieve, generate: queries on Neo4j; the LLM behind kill switch,
               |     token budget (both in Redis) and circuit breaker

Everything runs on asyncio: inside one process code between two awaits is
atomic, and every await lets other requests or handlers run. Several API and
worker processes share the stores.

### Components

| Component | State it keeps | Operations | Hard behaviour | What makes it correct |
|---|---|---|---|---|
| Task broker `ingestion/task_broker.py` | queues, unacknowledged messages, retry count in a header | `publish`, `consume` | retries by republication, redelivery, failing republication, dead letters | no task lost, bounded duplication, all retries granted, queues drain |
| Worker `worker.py` | three consumer tasks, shutdown event | `run_worker` | kill, cancellation in mid-handler, dead consumer tasks | each message has one owner; the services a handler needs are connected |
| Stage handlers `ingestion/stages.py` | none of their own | `process_`, `extract_`, `postprocess_handler` | repeated and concurrent runs of one upload, any call raising | complete means stored; content stored once; jobs agree with documents; every upload is resolved |
| Ingest API `api/routes/ingest.py` | none | `_enqueue_document`, status | three writes that may fail between, or be done and not answered | the message comes last; a failed request leaves one only if `publish()` raised after the broker took it, and then it is worked off like any other |
| Document, object and graph stores `stores/*.py` | documents, chunks, jobs; files; chunk, document and entity nodes | single calls | check-then-insert of the content hash; several stores without a transaction | one record per id; readers see only whole documents as complete |
| Circuit breaker `security/circuit_breaker.py` | state, counts, time of last failure | `is_allowed`, `record_success`, `record_failure` | outcomes recorded in another state than the one that admitted the call | opens exactly after the threshold, rests for the timeout, closes only when recovered |
| Synchronous pipeline `ingestion/pipeline.py` | none | `run_ingestion_pipeline` | an except branch that itself makes two calls | as for the stage handlers, and the answer agrees with the records |
| Sync manager `connectors/sync_manager.py`, `api/routes/connectors.py` | registry per process, one shared client per connector, sync state per engagement | `register`, `run_sync`, `test`, freshness report | edits during a sync, listings with gaps, failed documents, concurrent syncs on one client, crashes | the next sync makes up for what is missing, but for what a completed one left behind in four known ways; what is on record as running is under way |
| Connectors `connectors/{sharepoint,confluence,grc,ticketing}.py` | client, access token | connect, list by pages, fetch | documents that move between pages, truncated times, tokens that age | an untouched document is skipped only where an offset shifts or a total is missing (section 3), none is listed twice, listings end |
| Generation gateway `api/routes/generate.py` | none | answer a question | checks made before several awaits | no LLM call that a control in force forbids |
| Kill switch `security/kill_switch.py` | level in Redis, fallback level per process | get and set level | Redis comes and goes, several processes, lost answers | an order binds whoever arrives after it, wherever it can be known |
| Token budget `security/token_budget.py` | usage per engagement and day, in Redis or memory | check, record | check and charge around a long await, two places of record | every answered request is counted where its usage is kept, twice exactly where Redis carried it out and left without an answer |
| Entity graph `stores/neo4j_store.py`, `graph/*.py` | entities, relationships, mentions | upsert, link, deduplicate | merges by other documents between any two statements, deliveries repeated | linked mentions survive; at rest no two entities in use are duplicates |
| Retrieval `retrieval/*.py`, `api/routes/retrieve.py` | none | six modes, router, reranker, evidence search | limits before and after filters, ties, several hits on one chunk, entities stored before they are embedded | answers stay in scope, are rankings, and leave out only what has to give way or is not indexed yet |
| Redis queue `ingestion/queue.py` | stream with a consumer group | enqueue, consume, retry | pending entries of dead consumers | no message lost |
| Monitors `security/behavioral_monitor.py`, `observability/alerts.py`, `observability/drift_detection.py`, `evaluation/ab_testing.py` | bounded histories | record, check | limits | the window holds the latest entries |
| Guards, evaluation, observability, generation helpers, conversion, workflow reports, models, scripts | none, or counters | pure or read-only | numeric edge cases | reference definitions |

`PROJECT.json` lists all components with their files and whether they are
modelled, and all hazards with the line where each bites.

### Observations

The code differs from what its own text says in more places than the
violation run shows. Where a module has the statement as a definition, it can
be seen by adding that definition to the run's configuration, as an invariant
or, if it is written `[][...]_vars`, as a property.

| Statement | Definition | What the code does |
|---|---|---|
| `task_broker.py:118`: a message that raises "is retried or sent to dead-letter" | `TaskBroker!RaisedIsRetriedOrDeadLettered` | after the last retry (line 150) it is acknowledged and is in neither place, though the log says "sent to DLQ" |
| `worker.py:3`: the worker connects to S3 | `IngestPipeline!WorkerReachesS3`, with `ConnectedServices <- WorkerServices` | `object_store.connect()` is never called in the worker, so stage 1 can only raise at its download |
| `document_store.py:73`: dedup | `IngestPipeline!OneDocumentPerContent` | two workers look before either inserts, and the hash index (line 44) is not unique |
| `circuit_breaker.py:3`: opens after consecutive LLM failures | `CircuitBreaker!OpensInOutage` | `extractor.py:124` turns failures into successes; an outage seen by workers alone never opens it |
| `pipeline.py:102`: "Document already ingested" | `SyncPipeline!DuplicateIsIngested` | a record whose own call failed, died or is under way counts as ingested; no later upload of the file gets it stored |
| `routes/connectors.py:163`: the report shows overdue connectors | `SyncManager!OverdueIsReported` | the running state is saved without `last_sync_at` (`sync_manager.py:138`), and the report looks at that field only: a sync that begins or fails clears the mark |
| `workflow.py:137`: "kill switch (ASI09)" | `Gateway!DraftsFollowTheSwitch` | `get_level()` is not awaited (lines 140, 247), so both draft endpoints always answer 503 |
| `token_budget.py:3`: "enforces budgets" | `Gateway!BudgetIsEnforced` | `generate.py:215` gives no token counts, so each answer is charged zero tokens and no budget is ever reached; nor does the check see the requests under way |
| `neo4j_store.py:430`: union of vector and fulltext hits | `Retrieval!UnionOfHits` | no fulltext hit, no record at all (line 449); with `doc_types` the query does not compile |
| `stages.py:382`: "won't overwrite existing since MERGE uses id" | `EntityGraph!TypesAreKept` | the `SET` after the `MERGE` replaces every property: post-processing sets the type of each entity to "" |

Two more follow from the last row; `Retrieval` has both. `evidence.py:91` looks
for controls among entities of type "control", and a search with `entity_types`
(`neo4j_store.py:346`) for entities of those types. Entities come into the vector
index only with the statement that empties their type, so the second finds
nothing at all, and the first no control once its entity is embedded.

Others are plain to see without a model. `graph/dedupe.py:15` promises to merge
relationships, but the query deletes those of the duplicates. `workflow.py:202`
and `:311`, which cannot be reached, call `behavioral_monitor.record` with
arguments of the wrong kind.

## 2. Modules

| Module | Models | Uses |
|---|---|---|
| `TaskLifecycle` | abstract: the life of one task as its publisher sees it | |
| `TaskBroker` | `task_broker.py` and `worker.py` for an arbitrary handler | refines `TaskLifecycle` |
| `DocumentCatalog` | abstract: what readers of the stores may rely on | |
| `IngestPipeline` | `stages.py`, the enqueueing half of `ingest.py`, the store calls they make | EXTENDS `TaskBroker`; refines `TaskBroker` and `DocumentCatalog` |
| `EntityGraph` | the entity half of `stages.py`, `extractor.py`, the entity statements of `neo4j_store.py` | |
| `CircuitBreaker` | `circuit_breaker.py` with its callers | |
| `DocumentIntake` | abstract: what one synchronous ingestion promises its caller | |
| `SyncPipeline` | `pipeline.py` | refines `DocumentIntake` |
| `SyncManager` | `sync_manager.py`, the requests of `routes/connectors.py` | relies on what `DocumentIntake` promises |
| `ConnectorSession` | the five connectors, from connect to disconnect | details the listing of `SyncManager` |
| `Gateway` | `generate.py`, `kill_switch.py`, `token_budget.py` | |
| `Retrieval` | `retrieval/*.py`, `routes/retrieve.py` and the search queries of `neo4j_store.py` | |
| `MC...` | contents and symmetry for TLC | each EXTENDS the module it is named for |
| `TaskBroker_proofs`, `IngestPipeline_proofs`, `SyncPipeline_proofs`, `SyncManager_proofs`, `ConnectorSession_proofs`, `Gateway_proofs`, `EntityGraph_proofs`, `Retrieval_proofs` | theorems | each EXTENDS the module it is named for; `IngestPipeline_proofs` also `TaskBroker_proofs`, and `Gateway_proofs` also `CircuitBreaker`, the last of the guards the endpoint asks |

### TaskBroker

`log` is every message ever published; its `place` says where it is now.
`phase[<<w, q>>]` is what the consumer of queue `q` in process `w` is doing and
`held` its unacknowledged message. `Deliver`, `HandlerReturns`, `HandlerRaises`,
`Republish`, `AckRetried`, `DropExhausted` are the lines of `consume()` between
two awaits. `RepublishFails` is `publish()` raising in the except branch: before
or after the copy reached the queue; the original is rejected, the consumer task
ends, and `run_worker`, which waits for the shutdown event only, does not
replace it. `Crash` kills a process (the broker redelivers), `Shutdown` cancels
its consumers (`CancelledError` is no `Exception`, so a handled message is
rejected, not retried). RabbitMQ itself is modelled from its use: at-least-once
delivery with acknowledgements, any order.

### IngestPipeline

`pc[c]` names the next store call of the handler that consumer `c` runs; each
call is an action, with the computation before it. `Raise` may end a handler
at any call, which covers a call that failed and one whose answer was lost;
a raising `insert_many` may leave a part of the chunks. `jobs` and `docs` are
the records with the fields the code branches on or reports, `chunks[j]` whether
MongoDB holds nothing, a part, all, or a mixture of several runs of the content
of a document, `graph[j]` what Neo4j holds of it, `s3` the uploaded files. Job
id and document id are drawn together for an upload, so `Job` names both.
`LookUp` takes any document of the same content, as `get_document_by_hash` does.
`ConnectedServices` is what the process connected to before it consumes.
A request fails before a call took effect (`EnqueueFails`) or after its message
reached the broker (`EnqueueUnanswered`).

### EntityGraph

`IngestPipeline` knows only whether entities were written. Here `node`,
`mention` and `relation` are the entities of one engagement, their
`MENTIONED_IN` and their `RELATES_TO` relationships, and each action is one
statement of `extract_handler` or `postprocess_handler`. A task is one delivery
of a document. `Extract` takes any of the extractions the constant allows; each
delivery draws fresh entity ids, as the code does with `uuid4`, so a repeated
delivery makes duplicates of its own. `ExtractAgain` and `PostprocessAgain`
are handlers that raise or die at any statement, whose message comes again; the
first also covers a successor that was published before the death.
`DeduplicateEntities` is one Cypher statement over the whole engagement: any
member of a group may be its keeper, and a duplicate without any relationship
yields no row and stays. A document has one chunk: entities of different chunks
differ in nothing the statements look at. `linked` and `missed` are history.

### CircuitBreaker

The variables are the fields of the class; `age` is the time since the last
failure, cut off at the timeout. Methods are atomic because they do not await;
`Admit` and the outcome (`Succeed`, `Fail`, `GiveUp`) of one call are separate
steps, with other calls between. `ReadState` is the getter, which is what
actually turns an open breaker half open. `Extractor` callers go through
`graph/extractor.py`, which swallows a failed LLM call. `losses`, `wins` and
`outage` are history variables the properties are stated with.

### SyncPipeline

`pc[c]` names the next store call of call `c` of `run_ingestion_pipeline`, or
the `return` it is about to execute. A call draws its own job and document ids,
so both are named by the call. `Raise` stands for the `except` clause: from any
label inside the `try`, which covers a store call that failed (at its own label)
and one whose answer was lost (at the next label). `FailDocument` and `FailJob` are the two
calls of the clause, and `Escape` is a raise that nothing catches: in
`create_job`, before the `try`, or in the clause itself. `Die` is the death of the
process. `answer` is what the caller got. The model refines `DocumentIntake`,
where a content is known once a record of it exists and available once one document of it is in
all stores. It does not refine `DocumentCatalog`, which the asynchronous path
does: a raise after `CompleteDocument` turns a completed document "failed".

### SyncManager

`pc[s]` names the next await of `run_sync` for request `s` and `job[s]` its
local variables, with `since` and the `last_sync_at` it is going to save. A
version of a document is named by the time of its edit. The source is edited at
any moment. What `EndList` leaves out (`skipped`) depends on how the connector pages.
Where the pages are linked (`Linked`: SharePoint) it may be what was edited after
the first request. Where the next page is a count of documents (the other four) it
may be anything, since removals and moves shift the pages, and a listing without
a total may end after one. Which documents that can befall is the question of
`ConnectorSession`; removals show here only through it. The
ingestion of a fetched document is not repeated from `SyncPipeline`: `Intake` lets
it do whatever `DocumentIntake` allows, which `SyncPipeline` was shown to refine.
`client` is the one HTTP client of a connector object. It is closed by the
first sync or test to end; a sync that then uses it (`Usable`) can only raise,
which `Fail` and `FetchRaises` always may. Registries die with their
process (`Crash`), the state records stay. `missed`, `excused` and `cutoff`
are history: what a running sync skipped or could not ingest, what a saved `last_sync_at`
puts out of reach of later syncs, and which engagements had a sync that could
not save its end.

### ConnectorSession

One session of a connector of any `kind`, in full detail where `SyncManager`
has one step. `source` is the set of documents that match the filters there.
`Before` is the order in which they are answered: by time of modification,
latest first, where the query asks for it (Confluence, Jira), else by id.
`InOrder` lists a set in that order, each member at its rank, the number of those
ahead of it. `Edit`, `Leave` and `Join` change the source between two requests, so
that documents move over page boundaries. `Page` is a request by offset;
SharePoint follows links. `Trunc` is what the query text
keeps of a time (a day, a minute, a second). `totals` says whether the source
tells how many there are, and rightly. `life` is what is left of the access
token; SharePoint renews it five minutes early (`RenewedLife`), GRC and
ServiceNow never, so a long session of theirs ends in refused requests
(`ListDenied`, `denied`).

Sources are modelled from the requests the code sends. It is assumed that a
page is full unless it is the last, that links go on after the last document of
their page, that clocks agree, and that GRC and ServiceNow are configured for
oauth2. Left out are Jira's `custom_jql`, subfolders (SharePoint) and
attachments.

### Gateway

`request[r].at` is the next await of `generate_answer`; `order[o]` is one `POST
/health/kill-switch`, whose level and reason are two commands. `up` is whether
Redis answers. A command to it is two actions: Redis carries it out
(`WriteLevel`, `TakeUsage`), and its answer arrives (`LevelWritten`,
`UsageTaken`). `RedisLeaves` comes at any moment and loses the answers of any
set of the commands under way, of all requests and orders together; their
processes then keep the level, or count the usage, on their own (`KeepLevel`,
`KeepUsage`), whether the command was carried out or not. A usage command that
Redis did not carry out raises before Redis is back: a later raise would count
the request in the same memory, which is read while Redis is away or has no
count, and holds no tokens. `fallback` and `usage` are the fields each process
has for that purpose. What scan, retrieval, LLM, output guard and circuit
breaker answer is left open: every branch they can cause is taken. `RefuseDraft`
is all that the draft endpoints of `workflow.py` can do. `standing`, `bound` and
`counted` are history: the last order and where it is known, for each request
the level it had to find since it arrived, and the places (Redis, the process)
where its usage was counted; `unanswered` are the requests whose usage Redis
took and did not answer for.

### Retrieval

A node of the graph carries the score each index gives it for the one question
asked; `answer` is what the question was answered. Each query of
`neo4j_store.py` is the set of record sequences it may return: nearest nodes of all engagements first
and filters after (`VectorRecords`), or filters first and limit after
(`FulltextRecords`); ties, and the order of an aggregation after `LIMIT`, are
broken in every way. `ParseChunks` and `ParseEntities` stand for the loops of
`retrieval/*.py`, the second by what its set of seen ids amounts to: each chunk
once, where the first record with it stands. `Classify` and `Rerank` are the router and
the reranker, whose sort is stable and so has one result. `Ask`
composes them as the endpoints do, and `AskForEvidence` is `search_evidence`,
which reads more chunks than it keeps and filters in Python.

An entity is stored with an empty embedding (`AddEntity`, stage 2), which is not in
the vector index, and embedded later or never (`EmbedEntity`, stage 3, only with
`entity_embedding_enabled`), by a statement that writes the whole record with an
empty type. `Text` and `Name` say what texts and names there are: how they match the
question, and which filter terms they hold. A filter by control compares the
`control_id` with the ids of the chunk's entities that are still of type `Control`,
which are `uuid4`s, or looks for it in the text; so `control` is an entity or
"none", for a reference like CHG-01 that is the id of none. A filter by entity looks
among names and in the text, one by period in the text only; `Filters` says
which are given together. The decorations of a chunk (its
entities and relationships) are left out.

Some definitions are introduced by a comment as mutants (for instance
`DeliverUnacked`, `HandOffEarly`). They are not part of any specification: each
is a plausible bug in the definition it stands beside, and substituting it for
that definition makes the property named for it in `PROJECT.json` fail.

## 3. Runs

| Run | Module | Instance | Distinct states | Shows |
|---|---|---|---|---|
| `TaskBroker` | TaskBroker | 2 workers, 1 queue, 1 task, 2 retries, 2 faults | 34,586 | ownership, no task lost, duplication bounded by faults, no early drop, refinement of `TaskLifecycle`, queues drain |
| `Ingest` | MCIngestPipeline | 1 worker with its 3 consumers, 1 upload, extraction on, no retry, 2 faults | 408,164 | messages never overtake data, complete means stored, every upload is resolved |
| `IngestRetry` | MCIngestPipeline | 2 workers, 1 upload, extraction off, 1 retry, 2 faults | 205,480 | content stored once, ended jobs reopen only in a repetition |
| `IngestTwins` | MCIngestPipeline | 2 workers, 2 uploads of one content, extraction off, 1 retry, no fault | 502,707 | jobs agree with documents, refinement of `DocumentCatalog` |
| `EntityGraph` | MCEntityGraph | 2 documents, each extracted up to twice, 2 faults, 3 extractions | 1,385,022 | linked mentions survive merges and rewrites; who can lose a mention before it is linked; at rest no duplicates in use |
| `Breaker` | CircuitBreaker | 3 callers (one an extractor), threshold 3, timeout 2 ticks | 6,284 | the whole contract of the breaker, and that an open breaker is left |
| `SyncPipeline` | MCSyncPipeline | 3 calls of one content | 285,152 | answers agree with the records, somebody ingests, refinement of `DocumentIntake` |
| `SyncManager` | MCSyncManager | 1 process, 1 connector, 1 engagement, 1 document, 2 syncs or tests at once, 3 in all, 2 edits or ticks, pages not linked | 2,673,582 | the next sync covers what is missing, but for four named exceptions; a sync on record as running is under way |
| `ConnectorSession` | MCConnectorSession | all 5 connectors, 4 documents, 2 tables, 2 per page, 2 changes | 925,645 | an untouched document is skipped in two named cases only, none is listed twice, fetches are authorized, listings end |
| `Gateway` | MCGateway | 2 processes, 2 requests, 2 orders, 2 outages | 4,519,250 | orders are heeded wherever they can be known; in each place the count is that of the requests charged there, and who is charged twice |
| `Retrieval` | MCRetrieval | up to 4 nodes of 3 chunks and 2 entities, 2 engagements, 2 document types, limits of 1 and 2, 4 sets of filters | 3,467,711 | answers stay in scope, are rankings, and leave out only what has to give way or is not embedded |

`IngestSelfDuplicate` shows a statement of the repository's own text to be
violated by what the code does: `task_broker.py:118` promises a retry, but the
retry of stage 1 finds the record of its own first attempt and closes the job as a
duplicate of itself, and the document stays "processing".

All runs of the asynchronous pipeline assume that S3 is connected
(`ConnectedServices`): otherwise stage 1 never gets past its download and every
property about later steps would hold for want of a case.

What the proofs establish for all values of the constants is not always in a run
as well: the typing invariants of the broker, the two pipelines and the breaker, `SingleStorer`,
`StageReflectsWork`, `ImplementsBroker`, `HalfOpenIsRested` and
`CompleteIsStored` are theorems only.

### What the properties of the newer modules say

`EveryUploadIsResolved` excuses a failed request only if no message of it was
sent: one that failed after the broker took its message is resolved like an
accepted one.

`LaterSyncCovers` names the ways in which a version of a document may stay
uningested for good: a completed sync moved `last_sync_at` past it although
its listing skipped it, or it could not fetch or ingest it, or had filters that
leave it out, or had begun its listing before the edit. The code allows each of
the four; what the invariant excludes is a fifth one, in any interleaving with a
failed sync, a crash, or another sync that closes the client. In particular only
a sync that completes leaves anything behind: one that skips a document and then fails
does not date past it. A document that comes back to the source after a removal
is taken to be dated when it comes.

`UsageIsCounted` puts no number on double counts, since one outage may leave
every request in flight unanswered. It says which requests those are, the ones
whose pipeline Redis carried out and did not answer for, and that the counters
hold what was counted there and nothing else.

`UntouchedIsListed` is what the listing step of `SyncManager` relies on. The
exceptions it names are in the code: offsets skip a document when another leaves
an earlier page, and without a total Jira and GRC listings end after a page.

`OrdersAreHeeded` says for every request which orders it must have found, in
terms of where an order is known (in Redis, in the process that took it). It
says nothing of orders that overlap, and nothing of requests that had read the
level before the order.

`OnlyUsedAreMissed` bounds a loss that the code allows: between the upsert of
an entity and its link to the chunk another document's merge may delete it, and
the link then matches nothing, without an error.

`LeftOutForBetter` gives the exact reason for each absence from an answer; those
that are surprising (nodes of other engagements crowd the vector index; a merged
search without fulltext hits finds nothing; an entity that is not embedded leads
nowhere in `entity_vector` mode) are in it because the code has them. It speaks of
the chunks that pass the filters; that a filter by control compares ids is part of
`PassesFilter`, and that no answer holds a chunk which does not pass is
`AnswerStaysInScope`.

### Bounds and why they are enough

- `MaxPublished` bounds tasks published afresh. Tasks meet only at consumers
  and at the hash lookup: one task shows everything about retries and faults,
  two of one content everything about the lookup. In `Ingest` it is five so that
  redelivered stages can publish their successors again.
- `MaxFaults` bounds crashes, shutdowns and failed republications. Two faults
  make a redelivery of a redelivery, and a fault while another is being repaired.
- `MAX_RETRIES` is 3 in the code. Two in `TaskBroker` give a first, a middle
  and a last attempt; one in `IngestRetry` and `IngestTwins` gives attempts that meet each other;
  `Ingest` has none because its repetitions come from redelivery. The proofs
  cover all values.
- Threshold 3 (the code has 5) leaves counts that are neither first nor last.
  `MaxFailures` is twice the threshold: failures go on well after opening.
- `MAX_RETRIES` and faults together keep `log` finite; no state constraint is used.
- `SyncPipeline` has three calls of one content: with two, a call that finds two
  records to choose from does not occur. Calls of other contents
  never meet these. Raises and deaths are not bounded; a call makes finitely many steps.
- `EntityGraph` has two documents: a merge of one falls between any two
  statements of the other. Two attempts each make duplicates within a
  document. Three extractions give none, one entity, and two with a
  relationship; `MaxAttempts` and `MaxFaults` bound deliveries and deaths.
- `SyncManager` has one document, one engagement and one connector: documents,
  and engagements, meet only in the client and in the state record, and two syncs
  at once contend for both. `MaxRequests` 3 leaves one more sync to follow two
  that overlapped; `MaxTime` 2 gives an edit before and one after. `Linked` is
  FALSE, where a listing may do all that it may do with linked pages and more; the
  proofs cover both. `Interval` is 0 so that the report may call a state stale at all.
- `ConnectorSession` has four documents in pages of two, of which the first none to
  four are there at first (`Stock`): full pages, a boundary to move over, and, over two tables, a short page. `MaxTime` allows two
  changes during the listing; `Grain` 2 truncates a time, `TokenLife` and `Margin` let a token
  expire inside a session.
- `Gateway`: two processes tell apart what is shared from what is not; two
  orders overlap or follow each other; two outages make a level kept in the
  first meet the second (`MaxOutages`). `Budget` 1 is reached by one charge.
- `Retrieval`: `TopK` 2 of three chunks leaves one out; two scores of each kind
  give better, equal and worse; scores are tenths, so that eight tenths of a
  fulltext score falls between the two of the vector index. `Kept` 1 of
  `Fetched` 2 (10 of 30 in the code) shows both limits. `MaxNodes` bounds the
  nodes; every combination of engagement, type and score within it is met. In
  `Text`, a chunk that matches names the entity and the control, another the period.
  `Filters` has none, an entity, a control, and control and period together, as
  `detect_missing_evidence` gives them. There is one `EntityType`, that of
  controls: an embedded entity, whose type is empty, is the one of another type.
- Symmetry is used in `IngestTwins`, over workers and over the uploads of one
  content; in `SyncPipeline`, over calls; in `SyncManager`, over syncs; in
  `Gateway`, over processes, requests and orders; in `Retrieval`, over nodes,
  engagements and types; in `EntityGraph`, over documents. The properties there treat
  their members alike, and none of them is a liveness property.
- `CHECK_DEADLOCK FALSE` is set for all runs but the breaker's: their
  tasks, calls, sessions or requests are settled at some point, and then, with
  the faults, edits, outages or nodes used up, nothing is left to do.

### Fairness

`FairBrokerSpec` and `FairSpec` of the pipeline assume weak fairness of each
running consumer (`ConsumerStep`, `RunConsumer`): asyncio resumes a task whose
awaited call is done, and calls end or raise; of `Start`: an operator or
orchestrator starts workers again; and of each upload request. Crashes,
shutdowns and failing republications are never forced. A handler that always
raises is allowed, since `RunConsumer` includes `Raise`: `EveryUploadIsResolved`
does not say that documents get ingested, but that no upload is in flight for
ever. It excepts, as the code forces it to, uploads whose message ended
in the dead-letter queue or was dropped, whose jobs stay as they were,
and messages waiting at a queue all of whose consumer tasks have died. The
breaker assumes that time passes and that somebody reads its state (the health
endpoint or a request); `OpenIsLeft` fails without the reader, since the timeout is noticed on
reading only. `ConnectorSession` assumes weak fairness of `SessionStep`: a
request that was sent is answered or refused (`httpx` has a timeout), and the
coroutine goes on. `ListingEnds` then says that the page loops terminate.
The other modules have safety properties only.

## 4. Proofs

All theorems are for arbitrary finite or infinite sets of workers, queues,
payloads, uploads, callers, processes, requests, orders, documents, chunks and
entities, and all values of the bounds that satisfy the named assumptions
(`BrokerAssumption`, `PipelineAssumption`, `BreakerAssumption`, `SyncAssumption`,
`GatewayAssumption`, `EntityGraphAssumption`, `SyncManagerAssumption`,
`SessionAssumption`, `RetrievalAssumption`): types of the constants, the three queues, a positive
threshold, positive limits of answers and of attempts, a value for "none" that
is no connector, time or content; and in `EntityGraphAssumption` that the empty
string is no type and that an extraction is a sequence of typed names with
relations between names, whatever the names are.
`SessionAssumption` asks for finitely many documents, without which an answer would have
no last page, for tables that are listed once each, and for a renewal margin
shorter than the lifetime of a token (five minutes against about an hour).
`RetrievalAssumption` says that `Control` is a type and what kind of things `Text`,
`Name` and `Filters` hold, not which.

Every safety property that a run checks is a theorem. Every inductive invariant was first checked with TLC on
small instances.

**TaskBroker_proofs.** `BrokerTyping`, `BrokerOwnership`, `BrokerLosesNoTask`.
Types and `Ownership` are inductive together (`BrokerInv`): a step of one
consumer preserves the ownership of another because no two hold the same
message. `NoTaskLost` is proved on top: each action either leaves the current
copy of a task in place, appends one before it supersedes the old one (a copy
inherits its origin), or moves a copy to a final place. The other theorems look
at the log only: `NextOnLog` says what any step may do to it (`LogStep`: move
waiting messages, answer one, append one), and the rest is about `LogStep`.
`BrokerGrantsAllRetries` rests on `Descent`: a message stands on attempts
of the same task with every smaller retry count. `BrokerImplementsLifecycle`
maps each `LogStep` to a step or stutter of `TaskLifecycle`; that a verdict is
never taken back and that a task without one still has a message come from
`NoTaskLost` and from the verdict written as a function of the places of a task's messages in the log
(`VerdictIn`). `BrokerDuplicatesOnlyByFaults` bounds the cardinality of the set
of current copies (`CopiesBounded`): only a republication adds one, and unless
it fails, which is a fault, the copy it was made from has ceased to be current.

**IngestPipeline_proofs.** `PipelineImplementsBroker` first: every pipeline step
is a broker step or leaves the broker's variables alone, so `BrokerInv` holds of the pipeline. Then
`PipelineInv` = `BrokerInv`, `PipelineTypes` and `RecordsAgree`, from which follow
`PipelineTyping`, `PipelineNeverOvertakes`, `PipelineHasOneStorer`,
`PipelineStoresOnce`, `PipelineCompletesStored`, `PipelineJobsAgree`,
`PipelineStagesReflectWork` and the refinement `PipelineImplementsCatalog`.
The properties are not inductive by themselves. That a completed document is
stored depends on the message that leads to completion having been sent after
storing (`MessageReady`), by a handler that had stored (`HandlerKnows`, which
states what may be relied on at each value of `pc`), while no second attempt
was storing (`SingleStorer`), which holds because the insertion of the record
under its id lets only one attempt through (`DocumentAgrees` ties the status of
a document to its content and to the handlers at work on it). `JobAgrees` and
`RequestKnows` do the same for jobs and requests.
`PipelineReopensOnlyInRepeat` is about steps: a job that ended gets another
status only after a fault or a retry. It needs a second invariant, `Once`: as long as
there has been no fault and no message of the upload is a retry, at most one
message of it is live, and none once its job has ended, so that no handler is left
that could write. `Asked` gives its start: before the request has published there
is no message, and before it has stored the job no verdict.

**SyncPipeline_proofs.** `SyncTyping`, `SyncAnswersAgree`, `SyncCompletesStored`,
`SyncSomebodyIngests` and the refinement `SyncImplementsIntake`. The invariant
`SyncInv` says for each label what the call knows of its document, its content
and its job (`CallKnows`). A call writes its own records only (`StepIsLocal`), so a step
of one call leaves alone what the others know; the one thing a call relies on
that is not its own, the record of the duplicate it found, is never removed.
`SyncSomebodyIngests` then needs no history: a call answered
"duplicate" has no record, so the record it names belongs to a call that was not.

**Gateway_proofs.** `GatewayTyped`, `GatewayHeedsOrders`, `GatewayCountsUsage`.
`OrdersAreHeeded` speaks of history, so its induction goes through what the
history stands for: `Known` says that while the last order stands alone, the places it
has reached hold its level; `Found` that a request which has not read the level
is bound, if at all, by what it would read, and one which has by what it found; `Placed` says that
a request under way is in a process. `UsageIsCounted` equates counters with
cardinalities of sets of requests. It is inductive with the finiteness of those
sets (`FinitelyCounted`) and with what each stage of a request says of where it is
counted and whether it was left unanswered (`CountedWhere`).

The breaker has its theorems in the same module: `BreakerTyping`, `BreakerRests`,
`BreakerOpens`, `BreakerOpensOnly`, `BreakerRejects`, `BreakerClosesRecovered`. The
inductive invariant (`BreakerInv`) adds to the types and `HalfOpenIsRested` what relates the stored
counts to what was really reported: while closed, `failure_count` equals the run
of reported failures, which is below the threshold; in every state it is at least that run, so none
was forgotten; while half open fewer than two successes are counted, and no more
than were reported in a row. The action properties follow from it step by step.

**EntityGraph_proofs.** `GraphTyped`, `GraphKeepsMentions`, `GraphMissesOnlyUsed`,
`GraphMergedAtRest`. A node bears no trace of the mentions a merge has moved to it,
so `GraphInv` speaks of the extraction its id leads back to: every node is an
entity of an attempt that has stored it, under the name it was found with (`Named`), an attempt on a document begins when the one
before it is past publishing (`InTurn`), edges join what exists (`Edges`), and what is in use was named by a
document that has got that far (`InUse`). A merge leaves no two entities in use
of one name and type (`MergeSettles`), and after it only documents still under way can
bring another into use (`OthersAreUnderWay`); hence `MergedAtRest`.

**SyncManager_proofs.** `SyncManagerTyped`, `SyncsCover`, `SyncsRunningAreUnderWay`.
What a sync may put on record depends on what it has done with every document it was to
list, those the listing skipped among them; `SyncInv` follows each of them from the listing (`ListingCovers`) through
fetching and ingestion (`FetchCovers`, `Dealt`) to the saved time (`SavedInTime`). Other
syncs, edits and crashes only add to what is ingested, missed or excused (`Grows`),
which keeps these facts (`OthersGoOn`).

**ConnectorSession_proofs.** `SessionTyped`, `SessionListsUntouched`,
`SessionListsOnce`, `SessionStaysAuthorized`. A listing by offset is a cursor in an
order that moves under it. The induction goes by the rank of a document among
those that match: the order is total, so ranks are distinct and every place up to
their number is taken (`InOrderLists`, by counting), and a page has exactly the documents of some
successive ranks (`PageByRank`); a linked page has the next ones by id (`LinkedPage`).
While none leaves, the rank of a document left alone only grows (`RanksGrow`): what was ahead of it
stays ahead, whatever is edited or comes. So each document that is due is listed
or still ahead of the cursor or in a later table (`Covered`), and at the end it is listed. While
nothing changes at all, ranks stay, and what is listed lies behind the cursor (`Exact`), so
that the next page has none of it. The two parts are one invariant (`SessionInv`), kept
by any page whose documents were still to come (`PageKeepsListing`). A token that was looked
at has more than the margin left, and what is left plus what was waited since
stays above the margin (`TokenLasts`); waiting takes no longer than that.

**Retrieval_proofs.** `RetrievalTyped`, `RetrievalStaysInScope`, `RetrievalRanks`,
`RetrievalLeavesOutForBetter`. Here the induction is short: the graph is finite,
and an entity is linked within its engagement (`LinksWithin`, which embedding it keeps; without it a search
through entities would leave the engagement, since those queries filter entities, not chunks). The
work is in the lemmas about the operators: what the vector index leaves out is crowded
out (`NearestCrowds`, which counts), a ranking cut at its limit holds the best
(`BestOfRanked`), two sets of hits merge to one (`MergedHits`), entities expand to
distinct chunks (`ParsedEntities`), and a stable sort keeps what it sorts (`Reranked`).
`VectorAnswers` to `EntityVectorAnswers` put them together mode by mode.

**Only model-checked.** Liveness (`QueueDrains`, `EveryUploadIsResolved`,
`OpenIsLeft`, `ListingEnds`), which rests on fairness and so on ENABLED, which the
prover does not treat.

## 5. What is left out of the models

- A connection loss that the client repairs while a handler goes on
  (`connect_robust`): its message is redelivered beside the running handler. A
  crash in the model ends the handlers. This is the one known source of two
  handlers under one delivery, and the theorems do not cover it.
- The contents of files and chunks, and the descriptions of entities; conversion,
  embedding and LLM calls succeed, yield nothing or raise.
- TTL, message size, queue limits and broker restarts.
- Of the ingest API the dispatch to the synchronous pipeline, batches and the
  read-only endpoints; a synchronous and an asynchronous upload of one content at once.
- Of the connectors what is listed under `ConnectorSession`; of the graph store
  `delete_document_data`, which nothing calls, and the creation of indexes.
- Of the workflows the reports made from query results (`workflows/*.py`); the
  evidence search under them is in `Retrieval`.
- The Redis queue, the cache store, the batch indexer and the approval gate,
  which no code of the repository calls; the monitors, whose methods are
  sequential and local to a process.
- The other components marked `not_modelled` in `PROJECT.json`, with the reasons there.

## 6. Plan

The order is that of the damage a fault would do. Done: broker and workers,
the asynchronous pipeline on top of them, the breaker, the synchronous pipeline,
the sync manager and the connectors under it, the gateway with kill switch and
budget, the entity graph, and retrieval, each with its run; and the proofs of
all safety properties.

Left: `RedisQueue` as a second refinement of `TaskLifecycle`, and the bounded
histories of the monitors, if they come into use.

Runs are to stay few: a module gets one passing run.
