# Verification of wenshu_agent

wenshu_agent answers questions in natural language with SQL over a data
warehouse: a FastAPI service runs a LangGraph graph of nodes per question and
streams its progress as server-sent events. This directory holds TLA+ modules
of its core logic, TLC configurations that check them on small instances, and
proofs checked by the TLA+ proof system. File names below are relative to the
repository; `query_lifecycle.py` and `query_service.py` are in `app/service/`,
`checkpoint.py`, `graph.py` and `nodes/` in `app/agent/`.

## 1. The system

### A query, end to end

`QueryService.query` (query_service.py) is an async generator, one per HTTP
request:

1. it loads the checkpoint of the request's `execution_id` (if any) and, unless
   it resumes a RUNNING one, creates it;
2. it registers the request id (`request_dedup_registry.register`) and asks for
   a slot (`admission_controller.acquire`); a refusal is sent as an error;
3. it checks the prompt, looks into the cache, takes or waits for the cache's
   fill lease;
4. it starts the graph as a task, registers it for shutdown, and forwards what
   the graph emits through a bounded queue, against the total time-out
   and a task that watches for a disconnected client;
5. it records the outcome in the checkpoint, the dedup registry and the cache,
   and in its `finally` clause cancels the graph, releases the cache lease and
   the slot.

All workers share one Redis, where slots, dedup keys, checkpoints, cache
entries and cache leases live. A worker can die at any `await`.

### Components

| component | state | operations | what is hard | what makes it correct |
|---|---|---|---|---|
| in-process admission (`QueryAdmissionController`) | global and per-user counts, active keys, accepting flag, a condition, graph tasks | acquire, release, register_task, begin_shutdown, reset | waiters woken in any order, colliding keys, shutdown | limits; counts equal holders; no lost wake-up; freed slots reach the waiters |
| Redis admission (`RedisQueryAdmissionController`) | two sorted sets with expiring scores, a lease key with TTL per member, accepting flag | acquire (polls a script), release, begin_shutdown, reset | crashes, lost replies, expiry, a query outliving its lease | limits over all workers; the three places agree; a request runs once at a time |
| request dedup (in-process and Redis) | id -> status with TTL; bounded ordered map | register, complete, clear | TTL shorter than a query, non-atomic completion, eviction of active entries | a duplicate is refused while its original is remembered; every id is usable again |
| agent graph and guard (`graph.py`) | the graph state | 17 guarded nodes and `failed`, routing, correction loop | parallel nodes, retry, cancellation at any await | every SQL text passes every validator; the loop ends |
| checkpoints (`checkpoint.py`) | one Redis record per execution id | load, resume_state, seven mark_* | read-modify-write races, crash between any two calls, terminal states | a terminal record stays; nothing recorded is lost; the record says what the client was told |
| graph nodes | – | one function each | which errors are raised, which are returned | – |
| query service | per query: leases, tasks, queue, flags | query | everything above at once | every acquired thing is released on every path; one outcome |
| SSE queue (`LifecycleSSEQueue`) with its producer and its consumer | bounded queue, emitted flags, dropped count | put_graph_event, put_exception, the loop of `query` | full queue, put time-outs, cancellation of either end | success comes with its answer, failure is told once, the stream ends |
| query cache (`app/cache`) | exact and semantic entries, fill leases in Redis and Qdrant | lookup, write, acquire/release lease, wait_for_fill, invalidate | expired leases, entries that come back, requests that break off | a lease is held once and comes back; no old answer; none across scopes or meanings |
| LLM gateway (`app/llm`) | route, attempt, chunks | invoke, stream, retry, fallback | failure after part of a stream | the client's text is the answer's text |
| metadata sync and builder (`metadata_sync_service.py`, `meta_knowledge_service.py`) | two Qdrant collections, an Elasticsearch index, the metadata database | sync, build | no transaction over the stores, failure at any call, leftovers of other jobs | stores agree with the configuration after a successful sync; no metric without its columns |
| retrieval merge, table and metric ranking (`agent/ranking`, filter nodes) | – | merge, rank, greedy cover, rerank | model answers, ties, boundaries | the selection is within the candidates and the limit, and covers what it can |
| SQL checks (`sql_security`, `sql_access`, `sql_cost`) and the nodes around them | statement, limited statement, referenced tables, cost, permission | validate, correct, execute | fields of the state written by earlier tries | what runs, and what the audit says of it, is what was checked |
| governance (`app/governance`) | token, cost and quota counters, error budget | reserve, settle, release, check_and_consume, evaluate | called by tests only | – |
| multi-agent primitives, connections and searches of repositories, telemetry, configuration, API, evaluation, scripts | little or none | – | – | see "Not modelled" |

`PROJECT.json` lists the hazards of this code at their lines, with the
properties that guard against them.

## 2. Modules

| module | of | status |
|---|---|---|
| `SlotPool` | abstract specification of admission: a pool of slots with two limits | done |
| `LocalAdmission` (+ `MCLocalAdmission`) | in-process admission | done |
| `LocalAdmissionProofs` | theorems about it | done |
| `RedisAdmission` (+ `MCRedisAdmission`) | Redis admission and dedup | done |
| `RedisAdmissionProofs` | theorems about it | done |
| `CheckpointedGraph` (+ `MCCheckpointedGraph`) | graph, guard, checkpoints, outcome | done |
| `CheckpointedGraphProofs`, `CheckpointedGraphSafety` | theorems about it: the types and what each step does; the properties | done |
| `FillLease` | abstract specification of the fill lease: who may compute an identity, for how long | done |
| `QueryCache` (+ `MCQueryCache`) | exact and semantic cache, fill lease, and `query` around them | done |
| `QueryCacheProofs` | theorems about it | done |
| `OutcomeStream` | abstract specification of what a client of `query` is told | done |
| `AnswerStream` (+ `MCAnswerStream`) | gateway, answering node, producer, SSE queue, consumer | done |
| `AnswerStreamProofs` | theorems about it | done |
| `MetadataSync` (+ `MCMetadataSync`) | the two builders of the metadata stores | done |
| `MetadataSyncProofs` | theorems about it | done |
| `CandidateRanking` | merge, ranking, cover and rerank as operators | done |
| `SqlChecks` | the validators' decisions about a statement and its plan, as operators | done |
| `SqlPipeline` (+ `MCSqlPipeline`) | the graph's data from the recalled candidates to the audit, on top of the two | done |
| `SqlPipelineProofs` | theorems about it | done |

### LocalAdmission

One action per way through `acquire` and `release`. The body of
`async with self._condition` has no `await` but `Condition.wait`, so a call is
one step up to its wait (`Refuse`, `AcquireNow`, `WaitForSlot`), and each round
of the loop after it is another (`WakeAdmit`, `WakeSleep`). `notify_all` makes
the sleepers runnable; they run when scheduled, and others may run first.
`GiveUp` is the deadline, or the cancellation of the waiting call. `StartGraph`
and `GraphDone` are the life of the registered task, `Release` the `finally`
clause, `BeginShutdown` and `ResetAndExit` the lifespan's end.
`ReturnsUnreleased` leaves `query` before the `try` with that clause
(query_service.py:254-343): a cache hit (the semantic one needs no Redis), an
exception on the way to the graph, a client that closes the stream at a `yield`
in between. `leaked` is history, the calls that did; their slots stay counted
until the process ends, so `Charged`, who is counted, are the holders and they.
`clashed` is history as well: somebody was admitted with a key that was active
(the key is tested before the wait only); the counters are exact until then.

### RedisAdmission

Each Lua script is one step, with the pruning it begins with. What is left of a
score or of a time to live is a number of ticks; `Tick` lets time pass, Redis
drops expired keys, and members with an old score stay until a script prunes
them. `Register` and the accepting test of `acquire` are one step: nothing in
the worker runs between them. `ReturnsUnreleased` is the cache hit, which
returns before the `try` whose `finally` clause releases, and any exception up
to there. `CallFails`, `RegisterLost` and `AcquireLost` are calls that raise, after
or before the script has run. `Restart` is the end of a process, by a crash or
after its shutdown; what it had in Redis stays. `overran` is history: a query
outlived its lease. By configuration it does not
(`lease_ttl = query_total_timeout + admission_timeout`, and the time-out counts from
before admission), but a generator that is suspended at a `yield` is not timed
out, so the model lets it happen and the properties say "until then".

Assumed: the clocks of workers and Redis agree; the EXPIRE of the sorted sets
(twice the TTL, renewed by each acquire) removes expired members only.

### CheckpointedGraph

One `execution_id`, attempts one after the other. Every `await` on Redis in
`_with_budget_guard` is a step: `Skip`/`NotCompleted` (node_completed),
`SaveLoad` and `MarkRunning` (mark_node_running), the body, `CompletedLoad` and
`CommitCompleted` (mark_node_completed). Nodes of a superstep interleave freely;
their updates are applied together by `SuperstepEnds`, which also routes.
`QueryDone`, `TotalTimeout`, `CancelExpired`, `Disconnect`, `NodeCancelled` and
`Unwound` are how query() ends, and in which order the record is written.
An attempt is `Start` when it gets to the graph and `LeavesEarly` when it does not
(a duplicate, a refusal, a cache hit, an exception outside the `try`): it begins
in the same way (`Begin`) and leaves the record as it is, whatever the client is told.
`StreamClosed` is a generator that is closed at a `yield`: `GeneratorExit` gets to
the `finally` clause only, which cancels the graph and marks nothing;
`ReportCutShort` is the same at the `yield` of an error, before `mark_failed`.
`Crash` loses all but the record; `Expire` drops the record.

An SQL text is a version number. Of the rest of the state the model keeps which
data nodes' updates are present, the error's class, the retry count, and which
SQL the result and the summary come from. What a snapshot leaves out
(`sql`, `normalized_sql`, `result`, `validation_detail`, `retrieved_values`) is
left out in `Snapshot`; whether a node's update holds one of these keys, and is
therefore not recorded, is the third argument of `Return`. Verdicts are
nondeterministic. Not modelled: the truncation of long values in snapshots
(`_safe_json_value`), no Redis client, Redis errors, two attempts of one
execution at once, the values of the deadline.

### QueryCache

One job per client, one request of it at a time, through `lookup` (a GET, the
DEL of a bad entry, the SET that counts a hit, the vector search), the fill
lease (`Acquire`, SET NX with a TTL), `wait_for_fill` (`Poll`, `WaitIsOver`),
the graph (`RunGraph`), the writes (`Complete`, `SaveExact`, `SaveSemantic`)
and the `finally` clause (`Release`, the script that compares the owner).
`Break` is a request that never reaches its `finally` clause: a dead worker,
or a client that leaves between the lease and the `try`. `Tick` is the passing
of time for TTLs, for `expires_at` inside entries, and for the patience of a waiter.
`Held`, the leases that requests count on (not the keys of Redis: those of dead
requests stay behind), implements `FillLease`: one holder per identity, for
the TTL from the moment it was taken, and ended by nobody but the holder or time.

A question is an identity; `ScopeOf`, `MeaningOf` (numbers, dates, limits,
direction, negation: what `SemanticMatchGuard` compares) and `Near` (vectors
over the threshold) say how identities are related. An answer is the identity it
was computed for and which kinds of keys it has. `age` in an entry is history:
when it was really computed.

Three things the code does that one would not guess, all kept: `touch` sets the
entry with KEEPTTL, so that a key that has just expired or was invalidated
comes back without a TTL in Redis (`Forever`), and is then held back by
`expires_at` alone; `wait_for_fill` asks the lookup's outcome for `.hit`, which
is on `.result`, so that a waiter never sees the fill and runs the query itself
(`tests/unit/test_cache_lease.py` passes it the inner result, and does not see
this); and `query` always says `fallback_used=False`, so template answers are cached
too. `cache.enabled` also asks for `cache_safe_final_summary`, which is false
by default: the module is about a deployment that turned it on. Nothing but
tests calls `invalidate_scope`; the fault "invalidate" is its caller.

### AnswerStream

The life of one stream. `llmVars` are the gateway and the answering node: calls
that fail retryably or not are tried again (`TriesAgain`), then fall back once
(`FallsBack`); a stream that fails after chunks falls back as well, and the chunks
of both models go on in one answer, in the deltas and in the final payload alike.
`out` holds what the graph wrote and the producer has not yet read; `Produce` is one
`put_graph_event` with its flags, `PutGoesOn` and `PutTimesOut` its blocked
put, `WithException` is `put_exception`, which evicts the oldest item of a full
queue. `Read` is the consumer's loop, `TotalTimeout`, `Disconnect` and
`ReadCancelled` its other exits, `Close` and `Join` the `finally` clause. A
text is the sequence of its tokens, a token knows the model it is from.

With `StoreFails` a call of Redis may raise at the three places that follow the
answer: when the guard records `interpret_result` (`Endings`), when `query` marks the
checkpoint completed before it sends "done" (in `Read`), and when it completes the request
id after it (`CompleteFails`). Earlier ones are `NodeFails`.

`recorded` says that an earlier attempt of the execution has recorded
`interpret_result` as completed and then died before `query` marked the checkpoint
completed. The guard skips the node (graph.py:47-48), the graph ends without an
outcome, and the client gets "done" alone (the branch `recorded` of `Interpret`).

`OutcomeStream` is what the client is promised: events, then one outcome, then "done".
It sees of `sent` the kinds (`Kinds`), of the consumer whether it has left its loop, and
whether the answer had been recorded before (`given`): then "done" comes without one.
Its `FailLate` is the failure of Redis after "done", and enabled with `StoreFails` only.

Two limits of the code that the properties state as exceptions: after the
total time-out was reported the queue may still hold an error, so a client can
see two (`OneError`); and a producer task that is cancelled before its first
step (`prod = "unborn"`, a shutdown right after its start) leaves no item, so
that the stream ends only with the time-out or the client (`StreamEnds`). With a
queue of one place the failed node's exception would evict its own error event:
the run has two (the default is 100).

### MetadataSync

A job is a plan, a sequence of calls, each of which is an action that may also
`Fail`; only one job runs at a time. `StartSync` makes the plan of a sync
(`QdrantPlan`, `EsPlan`, with and without `recreate_collections`), `StartBuild`
that of `MetaKnowledgeService.build`. Qdrant points and Elasticsearch documents
are sets of items [id, of, says]: a put with an id replaces, one with another
id adds. The builder is referenced by nothing in the program any more; it is
modelled as the older program that may have filled the stores, with its random
point ids and with columns the sync would leave out.
`Change` lets the operator edit the configuration and the warehouse gain
values. `Clashes` is the primary key that makes a second build fail.

### CandidateRanking, SqlChecks, SqlPipeline

`CandidateRanking` and `SqlChecks` are operators without state. Names, terms and
columns are symbols: which terms a name or a description holds is given by
constants (`NameTerms`, `TextTerms`, `Aliases`), scores are in hundredths with the
weights of the code. A statement is a record of what sqlglot finds in it:
references, CTEs, columns with qualifiers, output aliases, star, limit. Grants are asked
for with the name as the statement has it, schema included (`Qualified`): a grant
for `orders` is none for `dw.orders`. A
plan is a list of tables with rows, access type and costs.

`SqlPipeline` is the graph with these data: `Recall`, `Merge`, `Filter...`, then
`Generate` or `Correct`, `Security`, `Validate`, `EvaluateCost`, `Execute`, each with
the fields of the state it writes, in the order and with the routing of
`graph.py`. `calls` and `audit` are what the warehouse and the nodes' audit log were given.
`Failed` is the node of that name, which writes an entry for a run that has none;
`BudgetEnds` is the guard of the next node that raises, or `effective_timeout` within
`execute_sql`, which is logged as a failed statement although none ran; `RunCancelled` is
a cancellation while the statement runs, which is not logged. An exception of a filter or
of a model ends the run without an entry. The entries that the service adds when it
ends a request (`_audit_terminal`) are of another kind and left out.
`CheckpointedGraph` has the same nodes with crashes, cancellation and resumption and no
data; the two share the routing and differ in what they abstract.

The tables an EXPLAIN names are aliases where the statement has them, so the
role of an aliased table is "unknown"; the cost of a nested loop without a cost of
its block is the first table's prefix cost; the model of a rerank may only pick from the
greedy cover, less than the top-k of the document; without requirement terms the
cover is one table. All this is as in the code. Unqualified columns are resolved in a
single scope; nested scopes are left out.

## 3. Runs

| run | instance | shows |
|---|---|---|
| `local_admission` | 4 calls, 2 users, 3 keys, limits 2 and 1; 133,371 states | `LimitRespected`, `CountersExact`, `NoLostWakeup`, `SlotsReachWaiters` (liveness), `PoolSpec` (implements `SlotPool`) |
| `redis_admission` | 4 calls on 2 workers, 3 users, 3 request ids, limits 2 and 1, TTLs 2 and 1; 677,055 states | `LimitRespected`, `OneQueryPerRequest`, `SlotsAgree`, `PoolSpec` |
| `graph_crash` | 1 correction, 2 attempts, crash and expiry anywhere; about 1,060,000 states | `DatabaseValidated`, `SequentialProgressKept` |
| `graph_faults` | 2 corrections, 2 attempts, raising nodes, time-out, disconnect, closed stream, requests that end before the graph; 191,458 states | `NewExecutionFullyChecked`, `AnswerOfNewExecution`, `OutcomeRecorded`, `FinishedExecutionDoesNothing`, `AttemptEnds` (liveness) |
| `query_cache` | 2 clients, 3 requests, 4 identities (asked, rephrased, other meaning, other scope), TTLs 1 and 2, breaks and invalidation; 169,587 states | `ServedFresh`, `ServedSound`, `FillSpec` (implements `FillLease`: a lease has one holder), `LeasesComeBack` and `RequestsEnd` (liveness) |
| `answer_stream` | queue of 2, 1 retry, a fallback, batches of 2, 3 tokens, 2 stages, failures of Redis, an answer recorded before; 74,200 states | `SuccessHasAnswer`, `DeltasAreTheAnswer`, `FailureReported`, `OneError`, `OutcomeSpec` (implements `OutcomeStream`), `StreamEnds` (liveness) |
| `metadata_sync` | 3 columns (one sensitive), 2 metrics, 3 raw values, 2 jobs, 1 change between or during; 824,899 states | `SyncedStores`, `MetaConsistent` |
| `sql_pipeline` | 4 tables, 6 columns, 2 metrics, 6 statements, 5 plans, 3 configurations, 1 correction, spent budgets and cancellation; 251,036 states | `SelectionBounded`, `SelectionCovers`, `RunsWhatWasChecked`, `AuditTruthful` |
| `redis_dedup_ttl` | as `redis_admission`, no faults | violated: a dedup key without a TTL |
| `graph_resume_checks` | 1 correction, 2 attempts, a crash | violated: SQL executed that a validator never saw |
| `graph_resume_updates` | the same | violated: a completed node is skipped, its result gone |
| `admission_leak` | as `local_admission` | violated: every call has left and a slot is still counted |

Bounds. Four calls give each limit a holder, a waiter and a competitor, and a
key collision; with `MaxPerUser = 1` a slot can be free for one user and not for
another, which is what a lost wake-up needs. In `redis_admission` t1 and t2
share a request id (on two workers, with two user ids), t1 and t3 a user, and
three users compete for two slots; a lease lasts two ticks and a dedup key one,
as 62 s and 30 s do. Only one worker is shut down there (`Stopping`), and the
constraint `NoOverrun` ends a behaviour where a query outlives its lease, after
which the properties claim nothing but the count in Redis. In
`CheckpointedGraph` two attempts are one crash and its resumption; one correction gives
two tries, enough for a completion key of one try to meet a node of the next;
`MaxSql` is never reached by a new attempt and bounds nothing else. All faults
at once, with one correction, were also checked (4.2 million states; too slow
to keep as a run).

`query_cache` needs two clients for a lease that is taken over while its first
holder still runs, three requests for a third one after both, and lives long
enough for an entry to expire between the read and the write of one hit; with
`LeaseTtl` 1 a graph outlives its lease, as 60 s and 30 s do. `Patience` is the
number of polls. In `answer_stream` two places fill up before a third event, three
tokens make one full batch and a rest, and a stream can fail after any of them. In
`metadata_sync` a second job meets whatever the first left, batches of two
split three documents, and `MaxValues` cuts off one raw value. In `sql_pipeline` a
table limit of 2 under a top of 3 under 4 candidates makes each cut bite, and
statements and plans have one case per way to pass or fail each validator; rows are
cut at `MaxRows` 2.

Deadlock is checked in `answer_stream` and `sql_pipeline`, whose only end is a stream
or a query that is over. In the others requests, attempts, jobs
and changes are finite in number and the system may stop after the last.

Fairness. `LocalAdmission`: a runnable coroutine is run (`Wake`), a graph ends
because `query_total_timeout_seconds` bounds it, and the holder of a lease starts its
graph or leaves `query`, with a release or without. No waiter's deadline is counted on:
`SlotsReachWaiters` says that the releases alone get a waiter out of its wait, as long as
the slots that calls left with do not use up a limit. No call need arrive and no shutdown
need begin. `CheckpointedGraph`: something that can run does (`Progress`: nodes, their Redis
calls, the end of query()); no attempt and no disturbance need happen.
`QueryCache`: each request's next step is taken (Redis and Qdrant answer or raise, a
graph ends or times out), and time passes; a request may still break off at any
step, and no request need arrive. `AnswerStream`: the nodes, the producer and
the consumer run when they can, each as one asyncio task; time-outs, a disconnect and
a shutdown need not happen. The safety runs have no fairness.

### Disagreements found

- A query that leaves before its `try` keeps its slot in the in-process controller for
  ever (`admission_leak`); `tests/integration/test_runtime_acceptance.py:167` asserts
  that nothing is active once the queries are over. With Redis the lease's TTL ends it.
- An execution that is resumed after its answer was recorded and before its checkpoint was
  completed gets "done" and no answer; the README says at line 158 that the final answer
  comes last ("最后输出最终答案"). `AnswerStream` has the path, and `answer_stream`
  states it as an exception; it has no run of its own.
- A validator that *rejects* an SQL text returns an update without any forbidden
  key, so it is recorded as completed for this retry. A resumed attempt that has
  not recorded the correction generates new SQL and skips that validator
  (`graph_resume_checks`). `database_validate_sql` escapes this only because its
  update always has `validation_detail`: `DatabaseValidated` holds.
- The snapshot of a parallel node lacks its siblings' updates while their names
  stay completed (`graph_resume_updates`); the updates stored in
  `completed_nodes` are never applied.
- `RedisRequestDedupRegistry.complete` can leave a key without TTL
  (`redis_dedup_ttl`).
- `query` completes the request id after it has sent "done", within the `try` whose handler
  reports errors: if Redis fails there, the client is told of an error and of "done" once
  more; `mark_failed` then raises, since a COMPLETED record takes no other status
  (checkpoint.py:34-35). `OutcomeStream` has to allow this
  (`FailLate`, which `answer_stream` reaches); `DoneOnce`, which
  `tests/unit/test_query_service_error_stream.py:138` asserts, holds without it
  (`DoneToldOnce`) and has no run of its own.
- The documents count metric support among the features of a table (and table support
  among those of a metric), but the code intersects column names with column ids,
  (table_ranker.py:95-96), which are never equal
  (docs/architecture/hybrid-candidate-ranking.md:37-44). `SupportsMetric` computes what
  the code does; it has no run of its own.

Two limits that no document speaks of are stated in the properties: once a query has
outlived its lease the places in Redis need not agree (`overran`), and a statement that
is cancelled while it runs has no audit entry.

## 4. Proofs

`LocalAdmissionProofs`, for any finite set of calls, any users, keys and limits:

- `TypeCorrect`: `Spec => []TypeOK`.
- `LimitsHold`: `Spec => []LimitRespected`. The limit is not inductive: it follows
  from `CountersCover`, that the counters are at least the number of holders,
  until the process exits. "At least" and not "equal", because a key collision
  makes a release a no-op and leaves a counter too high, never too low.
- `ImplementsPool`: `Spec => PoolSpec`, with the holders as the pool; an admission
  is an `Acquire` of the pool by `CountersCover`, everything else gives back or
  stutters.
- `NoWakeupIsLost`: `Spec => []NoLostWakeup`; it is inductive by itself, since
  every step that lowers a counter wakes everybody.
- `CountersAreExact`: `Spec => []CountersExact`, from equality of the counters with
  the number of `Charged`, injectivity of keys among them and the active keys being
  theirs, all as long as `clashed` is false. A call that left with its slot
  changes neither side.

Assumed: `Tasks` is finite, `UserOf` maps tasks to users, the limits are naturals,
`NoKey` is no key. `StepEffect` says what each action does to the holders,
`GainCounts` and `LossCounts` what this does to their number, so that the proofs of
the invariants do not look into actions again.

`RedisAdmissionProofs`, for any finite sets of calls and request ids, any workers
and users, any limits and times to live of at least one tick:

- `TypeCorrect`: `Spec => []TypeOK`.
- `PlacesAgree` and `RequestRunsOnce`: `Spec => []SlotsAgree`,
  `Spec => []OneQueryPerRequest`. Neither is inductive. `AgreementInv` adds that
  whoever runs a query owns its slot, and, as long as `overran` is false, that a
  member has the same score in the global set, in its lease key and in the set of
  exactly one user. An acquire finds no lease key, so by the agreement no score of
  its member anywhere and no owner with its request id; a release removes the
  member from all three, and no other owner had it.
- `LimitsHold`: `Spec => []LimitRespected`. `CountsBounded` (Redis never counts more
  members than the limits allow) is inductive whether or not a query outlives its
  lease; the owners are no more than that, since by the agreement each has a member
  of its own.
- `ImplementsPool`: `Spec => PoolSpec`. The script's test counts members, leaked ones
  included, and those cover the owners, so an acquire is one of the pool; when a
  query outlives its lease the pool gives everything back and claims nothing more.

The run `redis_admission` stops exploring where a query outlives its lease; the
theorems are about the whole specification.

`QueryCacheProofs`, for any clients, any non-empty set of identities with any relation
between them, any times to live:

- `TypeCorrect`: `Spec => []TypeOK`, together with `ContentsInv`, since what a request
  carries from one `await` to the next ends up in the cache.
- `FreshAnswers`, `SoundAnswers`: `Spec => []ServedFresh`, `Spec => []ServedSound`.
  Neither is inductive. `ContentsInv` says of every entry, in Redis, in Qdrant or in the
  hands of a request, that its age and the time left in `expires_at` add up to at most the
  time to live while any is left (`Young`), so that an entry that comes back without a
  TTL is still refused in time; and that it was computed without resumption and has
  only listed keys (`Clean`). An exact entry is of the identity it is stored under.
- `OneHolder`: `Spec => []LeaseExclusive`, by `LeaseInv`: a request that believes in its lease
  and has time left is the owner in Redis, for exactly that time. A late release finds
  another owner and does nothing. The run checks the refinement, which has it as a
  consequence.
- `ImplementsLease`: `Spec => FillSpec`. `HeldIs` turns `Held` into a function of the jobs
  alone; then a successful `Acquire` takes (SET NX found no key, and by `LeaseInv` every
  lease that is counted on has its key), `Release` and `Break` give up, `Tick` is the
  lease's own, all else stutters. `HoldInv` adds that a request holds a lease
  only between acquiring and releasing it, so that it never takes a second one.

`MetadataSyncProofs`, for any finite set of columns, any metrics, valid configurations,
warehouse, batch size and number of jobs and changes:

- `MetaHolds`: `Spec => []MetaConsistent`. When the metrics are committed, nothing in the
  state says that their columns are: it follows from `TablesFirst`, that in what is
  left of a job's plan the metrics come after the columns, or the columns are in the
  database already. `BuildInv` adds that plans are sequences of calls and
  that a call that writes items is no commit. Deletions do not exist.
- `TypeCorrect`: `Spec => []TypeOK`. That no store holds two items with one id needs
  that a call never writes into a store that is missing: `PlacesInv` says of what is left
  of a plan that a store is dropped before it is created and created before it is written
  (`Ordered`), and that a store whose creation is no longer to come is there. `TodoInv`:
  what a call is going to write has distinct ids.
- `StoresMatch`: `Spec => []SyncedStores`. The property speaks of a sync that has ended;
  `SoFar` says what an undisturbed one has done at each moment: its calls and items are its
  own (`OwnCalls`, `OwnItems`), a call is still to come or what it brought is in its store or
  being written, and will not be dropped (`Filled`), and a store that the options recreate
  is still to be dropped, is missing, or holds nothing that is not of this sync (`Emptied`).
  A batch replaces nothing of an earlier one: items that one sync writes into one store
  under the same id are the same item (`FittingFacts`, `PutKeeps`).

`CheckpointedGraphProofs` and `CheckpointedGraphSafety`, for any number of corrections,
attempts and SQL texts and any of the faults:

- `TypeCorrect`: `Spec => []TypeOK`, by `TypeInv`. The first module also classifies the
  steps (`StepKinds`): the guard of one node, the end of a superstep, a save, the end of the
  attempt; the lemmas of the second speak of kinds of steps and not of actions.
- `DatabaseAlwaysValidated`, `NewExecutionsAreChecked`: `Spec => []DatabaseValidated`,
  `Spec => []NewExecutionFullyChecked`. The update of `database_validate_sql` always has a
  forbidden key, so it is never recorded, nor about to be (`NeverRecorded`), and never
  skipped; in an execution that was not resumed, keys recorded for this retry belong to nodes
  that the graph has already passed (`KeysInv`). `PassedInv` says which
  validators have seen the newest SQL at each node.
- `AnswersAreOfTheNewestSql`: `Spec => []AnswerOfNewExecution`. From the first validator
  on, the state and every pending update are about the newest SQL (`TextInv`); in a new
  execution the result is of the SQL that ran, the summary of that result, the answer of
  that summary (`AnswerInv`).
- `ProgressKeptOnResume`: `Spec => []SequentialProgressKept`. The keys that a
  guard has loaded, and will write back, are of nodes whose updates are in the state it
  writes with them (`ProgressInv`).
- `OutcomeIsRecorded`, `FinishedDoesNothing`: the record agrees with the outcome, and is
  left RUNNING only by a request that ended early or whose stream was closed; a
  record that is final is refused by every save (`FinishedInv`, `OutcomeInv`), so that an
  attempt at it runs no node.

Assumed: the bounds are naturals and the list of faults is one of known faults.

`AnswerStreamProofs`, for any queue, retries, batches and texts:

- `TypeCorrect`, `ErrorsToldOnce`: `Spec => []TypeOK`, `Spec => []OneError`.
- `AnswerBeforeSuccess`, `OutcomeTold`: `Spec => []SuccessHasAnswer`,
  `Spec => []FailureReported`, assuming `QueueSize > 1`: with one place the exception
  of a failed node evicts its own error event. Where the answer was recorded before, there is
  none.
- `KeepsPromise`: `Spec => OutcomeSpec`, again with `QueueSize > 1`. What it needs beyond
  `StreamInv` is the order, `OrderInv`: while the consumer reads, no event follows the error or
  the answer in the queue, and none is left in it once that was sent.
- `AnswerIsWhatWasStreamed`: `Spec => []DeltasAreTheAnswer`, for a queue of any size. The
  texts sent, then those in the queue, then those in the graph's output form one line
  of text, which reading and putting do not change (`TextMoves`); with the batch that
  `interpret_result` still holds it is the tokens so far, and an answer on its way is what
  the line holds (`LineInv`), as long as no event was dropped. The other model's tokens
  continue the line where the first model failed: the answer has them both.
- `DoneToldOnce`: `Spec => []DoneOnce` when Redis does not fail after the answer
  (`~StoreFails`). With such a failure TLC finds two.

An error or an answer passes through five hands: the node, the graph's output, the producer,
the queue, the client. `StreamInv` follows it. `OutInv`: what the graph still has to say is
events, then its outcome, then the end, and its flags are consistent with that.
`OpenInv` and `OverInv` say, before and after the producer has seen the outcome, in whose
hands the error or the answer is; it is the last item of the queue until the end is put
behind it, so that a full queue of at least two places evicts something else. `ToldInv` holds once the consumer has read it.

`SqlPipelineProofs`, for any candidates, statements, plans, configurations, limits and
number of corrections:

- `OnlyCheckedStatementsRun`: `Spec => []RunsWhatWasChecked`. Not inductive: the property
  relates calls that lie in the past. `CallInv` says what holds on the way there: from
  `validate_sql` on the limited statement is the one that `security_validate_sql` passed, with
  its tables and its permission (`Checked`), then the last call validated it
  (`Validated`), then the last two validated and explained it, at the cost in the state
  (`Explained`). Once there is a statement, tables and grants do not change.
- `AuditTells`: `Spec => []AuditTruthful`. The entry that a run appends is at the place that
  the number of runs gives; earlier entries keep theirs. `Lengths` says how the number of
  entries and that of runs differ once a run has ended: one less when it was cancelled,
  at most one more, with an error, when it gave up (`FailedInv`: the failed node has one
  to log).
- `TypeCorrect`: `Spec => []TypeOK`; an attempt writes one entry at the most, at its end
  (`TryInv`).
- `SelectionIsBounded`, `SelectionIsCovering`: `Spec => []SelectionBounded`,
  `Spec => []SelectionCovers`, whatever a reranking model answers. `SelectionInv` adds that the
  filters read what was merged, and that nothing changes the selection after them; the rest is
  about what the operators of `CandidateRanking` compute. `Better` is a strict order of
  features with different names (`TablesComparable`, `MetricsComparable`), so a feature's
  rank, one more than the number of better ones, is its own (`Places`), and `Sorted` lists
  each feature once, the best first (`SortedFacts`). A fold over a list keeps what each
  step keeps (`OrderSteps`, `GreedySteps`), so the cover has a table for each term that any
  ranked table has, or as many tables as it may (`GreedyFacts`). Whatever
  a model answers, what is left of it are offered names, and the offer stands if
  that is nothing (`ConstrainedFacts`).

What a concatenation or a fold gives is an induction. The library's induction theorems cannot be
instantiated by the installed provers, so both modules prove the one they need,
`SetInduction`, about a set of numbers instead of a predicate, from the smallest number that
is not in it (`SmallestOf`); `MapThenFoldSet`, which `FoldLeft` is made of, is unfolded to a recursion with it.

Assumed: the row limit is positive; `max_retries` is a natural; a recalled column or metric
and what has a row in the meta database have a name; the LIMIT of a statement is
missing, no literal or a natural. For the selection also: there are finitely many names,
compared by a strict order, and keywords; a similarity is between 0 and 1
(`safe_similarity_score`); the limits are positive and at most the top-k; a model's
answer is two lists of names.

Only model-checked:

- liveness (`SlotsReachWaiters`, `AttemptEnds`, `LeasesComeBack`, `RequestsEnd`,
  `StreamEnds`), which the prover does not support. Every invariant and action property
  of a passing run, and every refinement, is a theorem.

## 5. Not modelled

- Governance: the managers of budgets, costs, quotas and error budgets are called by
  tests only. The service builds a budget context, which nothing charges. There is
  no sequence of calls that the program makes and that a model could follow.
- The in-process request registry (`RequestDedupRegistry`), used only without
  Redis; and two attempts of one execution at the same time.
- Values of deadlines; the time-outs of the modules may happen at any moment.
- sqlglot, tokenisation, embeddings and prompts; the text patterns of the prompt guard;
  bridge tables (`relationship_graph.py`), which no caller asks for.
- Multi-agent primitives (`app/agents`), called by nothing in the service.
- Telemetry, configuration classes, routers, evaluation and the demo scripts: no state
  that a property depends on.

## 6. Plan

The in-process registry in front of `LocalAdmission`, and two attempts of one execution at once.
