# TLA+ models of AuditTrace-AI

AuditTrace-AI is a memory server for language-model agents with an audit
trail.  This directory models the parts of it that are protocols: state shared
by several pods, queues, brokers, retries and caches.  The reference is the
code in `src/`; paths below are relative to `src/src/audittrace/` unless they
start with `src/`.

## 1. Inventory

The server runs as several replicas (three by default,
`src/charts/audittrace/values.yaml:88`), each an asyncio process with
background tasks.  The replicas share PostgreSQL, Redis, an S3 store, ChromaDB
and RabbitMQ; they do not talk to each other.

| Component | State | Operations | What is hard | What makes it correct |
|---|---|---|---|---|
| Upload (`routes/memory_upload/`) | quarantine object, `memory_items` row, pod's scan queue | PUT, INSERT, enqueue | crash or failure between the three | no envelope before its row |
| Scan-request publisher (`services/scan_request_publisher.py`) | scan queue, `published_at_ms` | publish, mark | not atomic: sent and unmarked, failed and unmarked | an unmarked row is found again, a marked one is in the broker |
| Scan janitor (`services/scan_request_janitor.py`) | same | re-enqueue orphans | reads rows other pods are moving | every pending upload gets a verdict |
| content-control (external) | object store | verdict, promotion, deletion | duplicates, failures | promoted before the verdict says clean |
| Verdict consumer (`services/scan_verdict_consumer.py`) | row status, key, `indexed_at_ms`; index queue | apply, enqueue, ack | redelivery, duplicates, late verdicts | only clean verdicts lead to the index |
| Index worker and janitor (`services/index_worker.py`, `index_janitor.py`) | index queue, `indexed_at_ms`, dead-letter columns, ChromaDB | index, mark, record failure, re-enqueue, replay | several pods on one row, stale reads | marked only after an accepted pass; dead-lettered only at the cap; the retry loop ends |
| Asynchronous persistence (`services/async_persist.py`, `routes/chat.py`) | Redis stream, consumer group, dead-letter stream, `interactions` | enqueue or fall back, read, claim, persist, ack, dead-letter | claims racing slow owners, lost replies, swallowed errors | an interaction is stored, or an operator can see it is not |
| Session summariser (`services/session_summarizer.py`) | `interactions`, `sessions` and its `summarized_at` | find, fetch, summarise, persist; clients save their own | turns arriving during the LLM call; every pod runs it and takes no lock; one session id of two users | every idle session is summarised up to its last turn, from its owner's turns alone |
| Layer listing cache (`services/layer_cache.py`, `episodic.py`, `procedural.py`) | objects per tier, Redis listing per tier | load, write, delete, invalidate, expire | a slow reader stores an old listing; Redis may fail at any call | a listing catches up with the bucket, and is of its user |
| Console ACL (`services/console_acl/`) | grants, resources, audit rows | grant, revoke, modify, bulk, delete by predicate | concurrent requests under READ COMMITTED, row locks, unique indexes, refusals half-way | append-only, what is expired stays so, all or nothing, every change audited |
| Memory files and manifest (`routes/memory.py`, `services/memory_manifest.py`, `memory_keys.py`, `memory_audit.py`) | private objects, `memory_items` under owner keys and the bare keys of before, audit rows | create, update, delete, hard delete, upload, promote | three stores written one after the other; copy-forward of legacy rows; check before write | one live row per user and file, nobody else's touched, every confirmed change audited |
| Tool loop and MCP broker (`routes/_memory_tool_loop.py`, `services/mcp_broker.py`) | pending audit rows | execute, record | exceptions between the call and its record | every executed tool leaves a record |
| Session memory and its collector | Redis/SQL sessions | add, expire | collector against a live session | no live session is collected |
| Scan-audit consumer (`services/scan_audit_consumer.py`) | `interactions` | insert | redelivery | one audit row per verdict |
| Token and JWKS caches (`identity.py`, `auth.py`) | Redis, process cache | get, put, refresh | single flight, expiry | one fetch per expiry |

Left aside: pod reaper (a sequential loop with a cooldown), console CRUD,
context building and embedding (data transformation), the web front ends,
charts, scripts and CI.  `PROJECT.json` lists every component with its status
and every hazard at its line.

Interactions: upload -> scan queue -> publisher -> RabbitMQ -> content-control
-> RabbitMQ -> verdict consumer -> index queue -> index worker -> ChromaDB,
with the two janitors feeding the queues from the table; chat -> Redis stream
-> persistence consumer -> `interactions` -> summariser -> `sessions`; memory
routes -> object store, manifest and audit, and through the object store to the
listing cache that every search reads.  The console ACL meets the rest only in
the owner's resources it looks up.

## 2. Plan

Done, in this order: `ScanPipeline` with its abstract `UploadGate`,
`AsyncPersist` with its abstract `Custody`, `SessionSummarizer`, `LayerCache`,
`ConsoleAcl`, `MemoryItems`;
each with its properties.  Every safety property that a run checks, state or
step, is also a theorem; one more, `DeadLetterEarned` of the upload pipeline,
is a theorem only (section 7).

Composition: `ScanPipeline` composes the tasks of a pod over shared stores,
`LayerCache` the loads and writes of two tiers over one Redis, `MemoryItems`
a request's three stores.  `SessionSummarizer` reads the table `AsyncPersist`
writes; only the arrival of a turn matters to it, so its `Chat` stands for the
other module's stored row.

Next, by what it would add:

1. an abstract specification of one user's file, with `MemoryItems` checked and
   proved to implement it;
2. session memory: expiry and its collector against promotion of one item;
3. the tool loop: execution, audit rows and the outcome of a turn;
4. the scan-audit consumer, an at-least-once insert of the shape of the
   verdict consumer; single flight of the JWKS refresh.

## 3. The modules

| Module | Role |
|---|---|
| `ScanPipeline` | upload to index: state, actions, `Spec` |
| `UploadGate` | abstract: what an upload may become, without queues or pods |
| `ScanPipelineProperties` | types, safety, inductive invariant, refinement mapping, fairness, liveness, disproved claims |
| `ScanPipelineProofs` | the theorems about it |
| `AsyncPersist` | Redis stream, consumers, dead letters: state, actions, `Spec` |
| `Custody` | abstract: who answers for an interaction, without consumers, claims or retries |
| `AsyncPersistProperties`, `AsyncPersistProofs` | its properties, the refinement mapping to `Custody`, and theorems |
| `SessionSummarizer` (+ `Properties`, `Proofs`) | chats, every pod's worker, clients' saves over the sessions table |
| `LayerCache` (+ `Properties`, `Proofs`) | loads, writes and deletes over object store and Redis |
| `ConsoleAcl` (+ `Properties`, `Proofs`) | transactions on the grants of one owner |
| `MemoryItems` (+ `Properties`, `Proofs`) | requests on one file: content, manifest, audit |
| `MCScanPipeline`, `MCAsyncPersist`, `MCSessionSummarizer`, `MCLayerCache`, `MCConsoleAcl`, `MCMemoryItems` | instances for TLC: symmetry, groups, programs, initial tables |

Definitions whose comment begins with "Mutant" are not part of a
specification: each is a plausible bug in the action after it, kept to show
which property would notice.

### ScanPipeline

State.  A document is an upload, named by its `scan_id`.  Its row in
`memory_items` is `status`, `key`, `published`, `indexed`, `attempts`,
`failed`, `warned` (one variable per column that a task reads or writes);
`shadow` is the second row that the indexer's metadata flush creates under the
bare key, because it looks the row up by (layer, key) and the scan row's key is
an s3 URI.  `object` is the set of prefixes that hold the bytes, `chunks` how
much of the document is in ChromaDB: none, some pages of an unfinished pass, a
pass that stopped early and was accepted (`cut`), or all of it.  `requests`,
`verdicts` and `dlx` are the broker.  A pod has a handler (`upload`), the two
in-memory queues `scanQ` and `indexQ`, and one task each that publishes,
consumes verdicts and indexes (`publisher`, `consumer`, `worker`: what the
task has in hand and what it does next).

Actions.  Between two awaits where another task can disturb it, a task's code
is one action; where a call can fail there is a second action for the failure.

| Code | Actions |
|---|---|
| `handle_pdf_upload` | `UploadStore`, `UploadInsert`, `UploadInsertFails`, `UploadEnqueue` |
| `ScanRequestPublisher._publish_one` | `Publish`, `PublishFails` (sent or not), `MarkPublished`, `MarkPublishedFails` |
| `ScanRequestJanitor._tick_once` | `ScanJanitorTick` |
| content-control (external) | `ScanClean`, `ScanRejected`, `ScanFailed`, `RequestDeadLettered` |
| `ScanVerdictConsumer._apply_verdict` | `VerdictApply`, `VerdictAck`, `VerdictRefused` |
| `IndexWorker.run`, `_index_one` | `TakeEnvelope`, `WritePages`, `IndexSucceeds`, `IndexCutShort`, `IndexFails` |
| `IndexWorker._mark_indexed`, `_record_failure` | `MarkIndexed`, `RecordRead`, `RecordWrite`, `WorkerWriteFails` |
| `IndexJanitor._tick_once` | `IndexJanitorTick` |
| `replay_dead_lettered_index.py` | `Replay` |
| pod restart | `Crash` |

Decisions.

* A queue is a bag.  The queues are FIFO in a pod, but pods, janitors and the
  broker reorder messages among them; a bag allows every order.
* The consumer keeps a verdict between the commit of its UPDATE and its
  acknowledgement; a crash there puts the message back into the broker.
* A janitor tick is atomic: it reads ids and keys in one query and only puts
  them on a queue.  The stale part, that an envelope carries the key of the
  time of the query, is in the envelope's URI.
* `_record_failure` reads the row in one session and writes it in another
  (`index_worker.py:247` and `:271`): two actions.
* Time is abstracted.  The grace windows count from `created_at`, so any row is
  eligible in the end, and a tick may come at any time after.
* The scanner is not in this repository.  It answers a request with any of the
  three verdicts and promotes before it says clean, as the code and ADR-048
  rely on.
* `attempts` stops counting at `IndexMaxAttempts`, where its value stops
  mattering.
* Rows are never removed, so the branches of the verdict consumer and of
  `_record_failure` for a row that is missing are not modelled.
* Soft deletion is not modelled: nothing soft-deletes a scan row before it is
  indexed.  The queues' capacity of 10000 is not modelled.

### UploadGate

What a client may rely on: an upload is quarantined, cleared once promoted,
searchable once cleared, and no stage is undone.  `ScanPipeline` implements it
with `stage` computed from `chunks`, `key` and `status`, and `promoted` from
`object`.

### AsyncPersist

State.  Per interaction: its `request`, its stream `entry` (queued, pending in
the group, acknowledged), `deliveries` and `idle` as Redis keeps them in the
pending list, the number of its `rows` and of the sets of its `tools` in
PostgreSQL, membership in the dead-letter stream `dlq`, and two pieces of
history: `logged` (a swallowed failure produced a log line) and `replayed` (the
operator's script said so).  Per pod: what the consumer's `loop` does next,
the `batch` it is about to claim or has still to handle, and the `item` in
hand with its next call.

| Code | Actions |
|---|---|
| `_persist_or_enqueue`, `AsyncPersistProducer.enqueue` | `Enqueue`, `EnqueueFails`, `StoreInRequest`, `RequestCut` |
| `_persist_interaction`, `_flush_pending_tool_calls` (in the request) | `SyncPersist`, `SyncFlush`, `SyncFails` |
| `run`, `_ensure_group` | `Start`, `StartFails`, `FetchFails` |
| `_reclaim_and_process_idle_pending` | `Look` (XPENDING), `Claim` (XCLAIM) |
| `run_once` | `Read` (XREADGROUP) |
| `_handle_one`, `_delivery_count` | `ParseFails`, `Check`, `CheckFails`, `Persist`, `PersistFails`, `FieldsRaise`, `Flush`, `FlushFails`, `Ack`, `AckFails` |
| `_move_to_dlq` | `DeadLetter`, `DeadLetterFails`, then `Ack` or `AckFails` |
| `scripts/audittrace-dlq replay` | `Replay` |
| time, pod restart | `GoesIdle`, `Crash` |

Decisions.

* A call that fails may have been executed: the reply was lost.  That holds of
  XADD (to either stream), XREADGROUP, XCLAIM, XACK and of both transactions.
* `GoesIdle` stands for `pending_idle_ms` passing: a slow owner and a dead one
  look alike, and an owner may go on after its entry was claimed.
* `Trouble` says which fields of an entry this build cannot take, as during a
  rolling update: fields that do not parse, a record with an argument
  `_persist_interaction` does not have, tool calls that cannot be rebuilt.
* A stream is a set of entries: no property depends on their order.  The
  dead-letter stream is a set of interactions.
* Redis keeps its data.

### Custody

What the chat route promises of one interaction: it is kept by the stream or by
the request, accounted for once it is stored, dead-lettered, logged or
reported as replayed, released by the stream only after that, and answered only
when the stream has it or it is accounted for.  No account and no release is
taken back.  `AsyncPersist` implements it with `chat` computed from `request`,
`stream` from `entry` and `accounted` from the tables, the dead letters and the
log.

### SessionSummarizer

State.  A group is what the eligibility query groups by: (session, user,
project).  `turns` has the stamps of a group's rows in `interactions`; `rows`
is the sessions table, keyed by session id alone: owner, who wrote the summary,
`summarized_at` (0 for NULL) and the turns the summary covers.  A worker has
the `queue` of its cycle and the group at hand with the turns it has read
(`work`).  `late` is history: turns stored while a worker held an older reading
of their group.  `clock` counts; no two turns share a stamp.

| Code | Actions |
|---|---|
| chat persistence | `Chat` |
| `save_session` of a client | `SaveSession` |
| `_find_eligible`, `run_once` | `StartCycle` (LIMIT, then staleness, then the cap) |
| `_foreign_owner_blocks`, `_fetch_interactions` | `TakeGroup` |
| `_call_llm`, `_parse_summary_json` | `CallLLMFails` |
| `_persist` up to the lookup of the row | `Persist`, with `LoadOwnRow` |
| `_fit_prompt_to_ctx`, `_persist_sentinel_overflow` up to the lookup | `PersistSentinelOverflow`, with `LoadOwnRow` |
| commit, `_handle_persist_pk_conflict` | `Commit`, `CommitFails` (lost reply or not) |
| time, pod restart | `Tick`, `Crash` |

Decisions.  The order of the groups of one cycle is left open.  A summary of a
transcript that had to be shortened covers all that was read, because it says
how many turns it left out; where not even the latest turn fits, a sentinel is
stored.  A failed call to `/tokenize` is replaced by an estimate of the length,
which may be too high, so that a sentinel is stored for any group, or too low,
so that the model is asked for a group that is too long and refuses.
`Unanswerable` groups never get a usable answer.

### LayerCache

State.  `store` is a listing (a content per file) for each user and for the
corpus; `cache` a listing for each of the same keys, or none.  A `load` has its
tier, what is `left` to fetch and the rows so far; a `write` its next call.
Two flags are history: `torn`, the tier changed or a call failed while the
listing was read; `settled`, no write of the user met this load.

| Code | Actions |
|---|---|
| `load`, `_merged_rows` | `StartLoad`, `Answer` |
| `RedisLayerCacheStore.get`, `set` | `Hit`, `Miss`, `GetFails`, `Fill`, `FillFails` |
| `list_layer_objects`, `_read_tier_rows` | `List`, `Fetch`, `FetchGone`, `ReadFails` |
| `write` | `StartWrite`, `Store`, `StoreFails` (carried out or not) |
| `delete` | `StartWrite`, `StatMisses`, `StatFinds`, `StatFails`, `Store`, `StoreFails` |
| `_invalidate_private` | `Invalidate`, `InvalidateFails` |
| seeding scripts, `/memory/index` | `ChangeCorpus`, `Reindex`, `ReindexFails` |
| TTL | `Expire` |
| pod restart | `Cut`, `InvalidateFails` |

Decisions.  The episodic and the procedural service are the same code; one is
modelled.  `search` and `as_context` rank what `load` returns and keep no
state; `read` goes past the cache.  A content is the tier and file it was
stored under and the number of the change, so that a row of another tier is
recognised wherever it turns up.

### ConsoleAcl

State.  `rows` is the table: key (principal, resource, tenant), bits, expiry; a
row is named by the request and the operation that inserted it.  `ResourceOf`
says which resource a key is about: the public index and row security look at
the resource alone.  A request has the time it began with (`now`), the
operation at hand, the rows its UPDATE `found` and has yet to reach, what modify has `seen`, and `mine`: the rows its open transaction has
written, which are locked until it ends.  `covered` is history.

| Code | Actions |
|---|---|
| `build_write_stamp` | `Begin` |
| `modify_permission_bits`: the SELECT | `Select` |
| `_expire_where`: snapshot, then row by row those still active, and its end | `Scan`, `Apply`, `EndUpdate` |
| the INSERT of grant, bulk and modify | `Insert` |
| audit rows and commit | `Commit` |
| `_write_denial` | `Refuse`, `Fails`, then `Denial` |
| pod death, lost denial | `Cut` |
| deletion of the resource | `RemoveResource` |

PostgreSQL is modelled as far as the code depends on it: READ COMMITTED (each
statement has its snapshot; an UPDATE takes its rows one after the other, in
any order, waits for the lock of each and evaluates its predicate again, so
that it may wait with half of its rows locked), unique indexes that make an
insert wait for an open one, deadlock detection, row security, and a commit
whose reply is lost.  Left out: a row that turns out to be expired after the
wait stays locked in PostgreSQL although the UPDATE skips it, which only makes
a third request with an earlier stamp wait a little longer.  Only the owner may
write, so the requests that meet are one owner's.

### MemoryItems

State.  One file name.  `rows` has the manifest row at each user's own key and
at the bare key, where rows from before migration 034 and corpus rows are;
`content` each user's private object; `audit` the audit rows of each request.
The corpus object is not part of it: no modelled request writes it.  A request
has its next step, and once its transaction has read, what it will do (`do`)
and to which key.  `Init` lets the bare key hold nothing, a corpus row, or a
private row of any user.

| Code | Actions |
|---|---|
| the routes of `routes/memory.py`, promotion | `Begin` |
| `authorize_write` | `Authorize` |
| `service.write`, `service.delete` | `Put`, `PutFails`, `Purge`, `PurgeFails` |
| `_legacy_copy_forward_source` | `Source` |
| `record_create`, `record_update`, `record_delete`: the SELECT | `ResolveCreate`, `ResolveUpdate`, `ResolveDelete` |
| their commit, `_commit_or_conflict` | `Commit`, `CommitConflicts`, `CommitFails` |
| `_emit_write_audits` | `Audit`, `AuditCopy`, `AuditFails` |
| the delete routes' own audit row | `AuditDelete`, `AuditFails` |
| a failed read, a stopped pod | `Cut` |

Decisions.  The ORM writes the columns that differ from what was read, to the
rows as they are at commit; `Applied` is written that way, because OneHome and
OnlyCreateRevives depend on it.  Promotion to the episodic layer performs the
steps of a create.

## 4. The runs

Passing runs.  The number of distinct states is for the configurations here.

| Run | Instance | States | Shows |
|---|---|---|---|
| `ScanSafety` | 1 upload, 2 pods, 1 fault, 1 crash | 280k | `EnvelopeHasRow`, `NoStrandedUpload`, `IndexedHasPass`, `IndexOnlyPromoted`, and `GateSpec`: the pipeline implements `UploadGate` |
| `ScanLive` | 1 unreadable upload, 1 pod, 2 attempts, 1 fault, 1 crash, 1 replay | 86k | `UploadResolved`, `CleanSettled` |
| `AsyncSafety` | 2 interactions (one with tool calls, one whose record is refused), 2 pods, 1 fault, 1 crash, 1 replay | 1.2M | `NoSilentLoss`, `DeadLetterEarned`, `ToolsHaveRow`, `CopiesAreDeliveries`, and `CustodySpec`: the whole implements `Custody` |
| `AsyncLive` | 2 interactions (tool calls that cannot be rebuilt; fields that do not parse), 2 pods, batches of 2, 1 fault | 124k | `AnsweredIsAccounted` |
| `Summaries` | 6 groups in 4 sessions: three summarised before, of which one goes on in a second project and one is never answered for again; one session id of two users (one's turns too long for the model); LIMIT 3, 1 per cycle; 2 pods, 2 turns, 1 fault, 1 crash, 1 save | 141k | `SummaryIsOwn`, `OwnerIsFinal`, `MissedIsLate`, `TurnsAreSummarised` |
| `Acl` | 2 requests out of nine programs (lasting, limited and public grants, revoke, modify, two bulks, a delete by two predicates, one by a predicate that matches two keys), 2 private keys and the public keys of two tenants, 2 resources, 2 initial tables, 1 incident | 222k | `ExpiredStaysExpired`, `AllOrNothing`, `ExpiryOnlyEarlier`, `RequestEnds` |
| `Cache` | 2 users and the corpus, 2 files, 1 load, 1 write or delete, 2 changes, 1 fault | 743k | `StaleHasCause`, `RowsAreOwn`, `SelfHeals` |
| `Items` | 3 requests of 2 users, one an admin, every initial bare row, 1 fault | 342k | `OneHome`, `LiveHasContent`, `ConfirmedIsAudited`, `Isolation`, `OnlyCreateRevives` |

Runs that end in a counterexample: what the repository says and the code does
not do.

| Run | The text | What happens |
|---|---|---|
| `ClaimAckedIsStored` | `async_persist.py:18`: transient errors leave the entry un-acked | the callable swallows the error and returns None; the consumer acknowledges |
| `ClaimResumedIsResummarised` | ADR-030: a session with new content "should be re-summarised"; `session_summarizer.py:361`: over-fetching so that fresh sessions "do not silently cap the cycle's useful work" | the query orders summarised groups by their last turn, oldest first, and its LIMIT of three times the cap comes before the staleness filter: a backlog of older, fresh sessions hides a resumed one for good |
| `ClaimModifyYields` | `console_acl/_postgres_write.py:952`: after a concurrent expiry `expired_ids == []`, "handled as the race branch" | a revoke with a later stamp commits between modify's SELECT and UPDATE; the row's expiry is after modify's own time, so the UPDATE matches, and the revoked bits are granted again |
| `ClaimLoadSeesWrites` | `episodic.py:97`: invalidation makes subsequent loads see the new content; `layer_cache.py:13`: it is "the primary correctness mechanism" | a load that listed before a write stores its listing after the write's invalidation, and later loads answer it until the TTL |

Seen in the models and not carried as runs.  The first ones are stated in the
`Properties` modules as disproved statements (`RejectedNotRetried`,
`DeadLetterIsTerminal`, `IndexedIsComplete`, `CorruptFailsAtOnce`,
`ReplayedIsStored`, `SummaryNeverShrinks`, `OneActiveGrant`); putting one into
a configuration reproduces its trace.

* Upload and index.  ADR-048 says a rejection is not retried: a publish that
  fails after it was sent leaves the outbox mark empty, and the janitor, which
  looks at the mark but not at the status, sends the rejected upload again.
  `db/models.py:372` calls the mark terminal: a worker that read the row
  earlier writes NULL over it; and one that recorded a failure from a read
  before the operator's replay writes mark and count over the replay's reset.
  The parse budget and a refused page end an indexing pass early
  (`routes/memory_pdf/pipeline.py:463`) and it counts as a success, so `IndexedHasPass` accepts such a pass (`IndexedIsComplete` does
  not hold).  `index_worker.py:226` has a permanent failure dead-lettered on its
  first attempt: its code is written to the row of the bare key
  (`pipeline.py:745`) while the worker reads the scan row, so it too takes the
  whole budget (`CorruptFailsAtOnce` does not hold, `DeadLetterAtCap` is what
  does).  A later duplicate verdict overwrites an earlier one of another kind;
  two workers can leave a row both dead-lettered and marked indexed; a row decided before its marker
  was written is sent again, with an episodic URI where the verdict was clean.
* Persistence.  `scripts/audittrace-dlq` creates the coroutine in a thread,
  never awaits it, and deletes the entry (line 180), so nothing is stored;
  `NoSilentLoss` counts its report as an account (`ReplayedIsStored` does not
  hold).  `async_persist.py:25` says an entry goes to exactly one consumer, while a slow owner shares it with
  the pod that claims it; ADR-046 step 6 dead-letters at `delivery_count >=
  max_deliveries`, the code above it.
* Summaries.  ADR-030 relies on no two workers picking the same row, and the
  query takes no lock: the slower of two workers replaces a summary by one of
  fewer turns.  Two projects of one session share a row, and the later summary
  hides the other's turns for good.  Sessions that fail in every cycle stay
  first and use up the cap, and fresh ones use up the LIMIT.  All three happen
  in `Summaries`: `TurnsAreSummarised` names them (`Shadowed`, `Crowded`) as
  what can keep a turn out for good, and the run shows that nothing else does;
  leaving one of them out of the property makes TLC find its trace.  A turn
  stored while a worker holds an older reading of its group is lost to the
  summary (`MissedIsLate` says that no other is).  A sentinel replaces a good
  summary once the latest turn is too long.
* ACL.  Two limited grants of one key can be active at once, although migration
  033 speaks of at most one active grant per key: the index covers rows without
  expiry only.  A revoked public grant can never be granted again (the index of
  migration 031 has no condition on the expiry), and grants of a deleted
  resource cannot be revoked.  A denial is lost with its pod.
* Memory files.  A delete that answered 200 may not stick: an update that read
  the live legacy row before it inserts the live copy (the one exception in
  `OnlyCreateRevives`, without which the run fails).  An update refused with
  409 has stored its content already, and so has the loser of a conflict,
  although `ConcurrentManifestWriteError` says nothing was written.
  `/memory/upload` of a Markdown file writes neither manifest nor audit.  A
  hard delete racing a create leaves a live row without content.  An admin's
  PUT where only a corpus row exists stamps the corpus row with the size of a
  private object.  The audit may report a copy that another request made.

### Bounds, and why they are enough

* One upload is enough in `ScanPipeline`: actions on different uploads touch
  different rows, objects and messages and meet only in a janitor's batch and
  in the worker, which handles one at a time.  Two pods give every pair of
  actors that can race on a row.
* `MaxScanInFlight` and `MaxIndexInFlight` bound the copies of one upload's
  messages; a task that would exceed one waits.  For the safety properties the
  bounds are immaterial: the theorems hold for all of them.
* `MaxFaults`, `MaxCrashes`, `MaxReplays`, `MaxSaves`, `MaxIncidents` bound
  failures and the rare requests.  One failure at any place, combined with one
  crash at any place, reaches the hazards to which `PROJECT.json` gives a
  property; the mutants show that each property notices a bug within
  these bounds.
* `MaxDeliveries` is 1 in `AsyncPersist`, so that two deliveries reach the
  dead-letter stream; a batch holds both entries, so that a failure in the
  middle of one drops the rest.
* `Summaries` stamps two turns after the start (`LastChat` 5) and then lets time
  go on (`MaxClock` 6), so that a session becomes idle, is summarised, is
  resumed, and becomes idle again; with two pods every pair of workers that can
  hold one session id occurs.  A cap of one makes the LIMIT three: with six
  groups both leave groups out, and the groups and times are such that each of
  the two can last.  The backlog of `ClaimResumedIsResummarised` needs four
  sessions with the same cap.
* `Acl` has two requests: waiting, deadlock and lost updates need two, and what
  a third would add is another pair.  Two bulks, a delete and the sweep come to
  the same rows in opposite orders, so that two requests deadlock on row locks,
  with one of them in the middle of its UPDATE, and on an index entry; the two
  public keys of one resource give the insert that only the public index
  refuses.  Two instants (`MaxClock` 2) give requests that begin earlier and
  commit later, and a grant that runs out.
* `Cache` has one load and one write at a time, each of any user and either
  kind, again and again until two changes are spent; the claim needs a second
  load that reads what the first one left.
* `Items` has three requests for the two races that need three: two that copy
  the same legacy row and one that deletes it; a purge among a create and an
  update.  One file name is enough, since no step reads two.
* The pods are interchangeable in the safety runs of the first two modules and
  the requests in `Items` (symmetry); no symmetry is used in runs with
  liveness properties.
* Deadlock is not an error: once the budgets are spent and the queues are empty
  the system has nothing left to do.

## 5. Fairness

Weak fairness only, and only of steps the code's loops take by themselves.
Each background task is a `while True` with an await on a queue, a timer or a
blocking read, restarted with its pod; asyncio runs a ready task eventually.
In `ScanPipeline`: publisher, both janitors, verdict consumer, index worker
(an indexing pass ends one way or another: the parse budget bounds it), and
the scanner, which answers what it is sent.  In `AsyncPersist`: the consumer's
steps, the two stores in the request, and the passing of time.  No fairness for
faults, crashes, client requests or the operator.  A task that has ended
(`StartFails`) takes no step, and `AnsweredIsAccounted` excuses the case where
all have.

In `SessionSummarizer`: each pod's worker as a whole (`run` ends only with its
process and survives every exception) and the clock; which of its groups a
cycle takes first is not promised.  In `ConsoleAcl`: a request that began takes
its next step if PostgreSQL lets it; a wait ends with the transaction waited
for or with the deadlock detector.  In `LayerCache`: Redis expires entries
(`memory_cache_ttl`, 3600 s); no load, write or reindex has to go on.
`MemoryItems` has no liveness property: a request is a straight line.

## 6. What is proved

All theorems are for every set of uploads, interactions, groups, users, files,
requests and pods and for every value of the bounds.  The assumptions are the named ones in the modules:
`None` is not an upload, an interaction, a row or an operation, the corrupt ones
are uploads, limits are naturals, attempts, deliveries and batch sizes positive.
Two sets are assumed finite, for proofs that count or take a maximum: the pods
in `AsyncPersist` (`PodsAssumption`; a deployment has a replica count) and the
requests and earlier rows in `ConsoleAcl` (`RequestsAssumption`; a table is
finite).

`ScanPipelineProofs`: `TypeCorrect`, `RowBeforeEnvelope`, `NeverStranded`,
`OnlyPromotedIndexed`, `MarkedAfterPass`, `DeadLetterAtCap` and
`PipelineIsGate`.  None of the safety properties is inductive: each speaks of
a row or a store, and is preserved because of what is in flight.  `IInv` says
what holds of messages and tasks:

* `RowFirst`: an upload without a row is in no queue, message or task except
  its own handler's.  Gives `EnvelopeHasRow`.
* `OneHandler`: an object waits for its row in one handler, so that no two
  handlers insert it.
* `InHand`: a request that is marked or about to be marked is with the
  scanner, answered or dead-lettered while no verdict has been applied.  The
  "about to be" is what `NoStrandedUpload` lacks.
* `PromotedFirst`: a clean verdict in the broker, in the consumer, in the row,
  in the index queue or in the vector store follows the promotion.
* `PassFirst`: the worker about to mark a row has seen a pass accepted.
* `CountFirst`: a worker about to write the dead-letter mark carries a full
  count, and writes both from the same read.  This is why the race that
  `DeadLetterIsTerminal` speaks of takes the mark away but cannot give it early.
  It is what `DeadLetterAtCap` needs: `DeadLetterEarned` holds for any number
  of pods, permanent failures included.

One lemma per part has a step per action; `Inductive` combines them.
`PipelineIsGate` shows that the initial state maps to the gate's and each step
to a step of the gate or a stutter (`GateStep`).

`AsyncPersistProofs`: `TypeCorrect`, `NothingLostSilently` and
`DeadLetterAboveLimit`.  The strengthening is `InHand`: an entry about to be
acknowledged is accounted for, one about to be dead-lettered has exceeded its
deliveries or does not parse.  The proof of the step needs `MaxDeliveries > 0`:
an entry that is no longer pending counts as delivered once.

`ToolsBehindRows` and `CopiesPaidByDeliveries` count across the pods: several
consumers can hold the same entry at the same time, so that neither "a row has
at most one flush to come" nor "a delivery becomes at most one row" can be said
of one of them.  The inductive parts are two balances per interaction.
`ToolsBalance`: the flushed sets of tool calls, the consumers about to flush and
the request about to flush are together no more than the rows.
`CopiesBalance`: the rows, the consumers that hold a delivery and the request's
own store are together no more than the deliveries, and one if the request
never put it on the stream.  A step moves one unit from one side or one term to
another, and `OneChanges` says what that does to the number of pods in a set
when one pod moves.  `OneAtATime` keeps an entry from being both in a
consumer's batch and in its hand, where it would be counted once and spent
twice.

`PersistenceIsCustody` is the refinement.  Deliveries and the steps between the
calls stutter; a consumer that stores, logs or dead-letters either accounts for
an entry the stream holds or, if another consumer has acknowledged the entry
meanwhile, adds nothing, because by `NoSilentLoss` that one was accounted for
before.  `InStream` (a consumer only has entries of the stream, and a request
that is open has not used it) and `ToolsBalance` (a request that flushes has a
row) are what else it needs.

`SessionSummarizerProofs`: `TypeCorrect`, `SummariesAreOwn`,
`OnlyLateTurnsMissed`, `OwnersAreFinal`.  The strengthening says of a worker
what its summary will need when it is written (`WorkIsCurrent`): it has read
turns of its group only, all of them but late ones, and plans an update only of
an own row.  The last part is stable because no action changes an owner, which
is `OwnersAreFinal`; and `StampsAreOrdered` (no stamp is ahead of the clock)
makes a turn that arrives after the write newer than it, which is why only
late turns can be older than a stamp that does not cover them.

`LayerCacheProofs`: `TypesHold`, `StalenessHasCause`, `AnswersAreOwn`.
`ReadIsCurrent` is the inductive part: the rows a load has read are the store's
unless it is torn, and what it has yet to fetch is still there.  Every change
of a tier tears the loads that read it and leaves an invalidation pending, so
both alternatives of `StaleHasCause` follow.  `AnswersAreOwn` needs that what
is stored under a tier is of that tier (`StoredInPlace`).

`MemoryItemsProofs`: `TypesHold`, `OneRowLives`, `ConfirmedAreAudited`.
`PlanHolds` says that what a transaction read still allows what it will do:
rows are never removed and the owner of the bare row never changes, so only a
conflict on the new key can stop it, and that one is detected.  From it a copy
deletes the legacy row it copies and an insert happens beside a dead one, which
is `OneHome`.  For the audit, `CopyAnnounced`: a request that will copy was
told so by the earlier read, because a live legacy row without an own row does
not come into being; and `AuditInOrder` for the two audit rows.

`LiveRowsHaveContent` rests on `ContentStands`: for a user that has purged
nothing, content stands since before the first row, so it has to cover the
writes between their `Put` and their commit and rows of any state, also
deleted ones that a create may revive without the other's content.
`OthersUntouched` and `RevivedOnPurpose` are action properties: the invariant
says what a transaction may still do, `CommitTouches` what its commit changes,
and `RowsChange` and `ContentChange` that no other step changes rows or content.
`ComesBack` does the same for a user's file, which is one row or another.

`ConsoleAclProofs`: `TypeCorrect`, `AppendOnly`, `ExpiredForGood`, `Atomic` and
`TransactionsSound`.  The properties speak of the table after a commit; the
invariant, `Transactions`, of the open transactions that will install their
rows there.  `Stage`: where a request is in its program.  `Writes`: what it has
written is a new row of its own, or a row still active in the table, ended at
its stamp, and then one its UPDATEs matched.  This is stable because of `Apart`:
no two transactions have written the same row, the row locks and the waiting of
`Apply`.  `Progress`: the operations that are through have their rows, and a
transaction that is to commit has come to its last.  `Coverage`: every row an UPDATE matched is still to be
looked at, or is inactive as the transaction sees it, whoever ended it.  It is
what `ExpiredForGood` says once the transaction is in the table, and stays true
after because of `AppendOnly`: an expiry only moves earlier.  `Progress` and `Coverage` make what a commit
installs whole (`InstalledWhole`), and `Writes` says that it touches nothing
else: `Atomic`.  The type of
the expiry that modify inherits is a maximum over the rows it has seen;
`FiniteHasMax` shows that there is one, because strict inclusion of finite sets
is well-founded.

## 7. What is only model-checked

Liveness (`UploadResolved`, `CleanSettled`, `AnsweredIsAccounted`,
`TurnsAreSummarised`, `RequestEnds`, `SelfHeals`): fairness is beyond the
prover.  The counterexamples of the disproved claims.  The other way round,
`DeadLetterEarned` of the upload pipeline is proved and not run: what could
break it is two pods that record failures of one upload, and an instance with
two pods, two attempts and a replay has several million states.  That the constants of a
run satisfy the assumptions of the theorems is evaluated by TLC on every run.

## 8. What is not modelled, and why

The components with status `not_modelled` in `PROJECT.json`.  Session memory,
the tool loop, the scan-audit consumer and the token and JWKS caches are next
(section 2).  The rest has no protocol of its own: console CRUD is one row per
request; the decision engine client, context building, embedding and semantic
search transform data; the front ends, charts, deployment and verification
scripts, which are the larger half of the repository's lines, present, deploy
or call what is modelled here.

Within the modelled components: extraction, chunking and signature checking
(`routes/memory_pdf/`), whose outcome is a choice; connection handling of the
AMQP and Redis clients; queue capacities; telemetry; row-level security, except
that a refused INSERT is one of the failures `_persist_interaction` swallows and
that the ACL's policy refuses writes to a deleted resource; the `drain` and
`inspect` commands of `audittrace-dlq`; fitting a transcript into the model's
context; the read path of the ACL, represented by what is active at a time, and
its group and role principals, which are keys like any other; semantic
collections, corpus-tier writes by the index route and listings of the memory
manifest; validation of names, bits and bodies, which refuses a request before
it has any effect.
