# Tracebed in TLA+

Tracebed is a sidecar that collects execution evidence from agents, archives it, learns
memories from it and gives those memories back to later runs. This directory holds TLA+ models
of its stateful parts, the TLC configurations that check them on small instances, and proofs
that TLAPS checks. Paths in this file are relative to the Python package `src/tracebed/`
unless they start with `migrations/`; `PROJECT.json` maps each definition to its lines.

## 1. The system and its parts

```
SDK buffer --POST--> API (grant check, run binding) --enqueue--> work_queue (PostgreSQL)
                                                                   | claim, lease
             +--------------------+--------------------------------+
             v                    v                                v
        trace writer        outcome intake                  proposal intake
             | object + trace_index row + learning job
             v
        trace-learning coordinator --> memory_item <-- lifecycle passes, operators
                                          |
        retrieval hot path <--------------+
        erasure request --> fences --> erasure executor --> keys, rows, external stores
```

| Part | Code | State it owns | Module |
|---|---|---|---|
| Durable queue | `stores/pg/queue.py`, c12 queue functions in `migrations/0012` | `work_queue`, `dead_letter` | `WorkQueue`, `WorkQueueProofs` |
| Sequence sets | `_SeqSet` of `ingest/trace_writer.py` | the coded ranges of `trace_index.path` | `SeqSet` |
| Trace writer, sweep, reader | `ingest/trace_writer.py`, `ingest/trace_archive.py`, upsert and snapshot of `stores/pg/repo.py` | `trace_index`, trace objects, `trace_learning_job` (insert) | `TraceArchive` |
| SDK delivery | `sdk/buffer.py`, `sdk/client.py` | the ring buffer, the pass under way | `SdkDelivery` |
| Memory lifecycle | `domain/state_machine.py`, `stores/pg/lifecycle.py`, the passes under `workers/` | `memory_item.status` and what guards it | `MemoryLifecycle` |
| Trace learning | `workers/trace_learning*.py`, `stores/pg/trace_learning.py` | `trace_learning_job`, memories and their bindings | `TraceLearning` |
| Erasure saga | `erasure/`, `stores/pg/erasure_executor.py`, `migrations/0012`, `0013` | `erasure_request`, checkpoints, work, receipts | `ErasureSaga` |
| Everything else | see section 8 | | not modelled yet |

How they interact. The queue hands rows to the trace writer at least once and in any order;
`TraceArchive` therefore lets every event come at any time and any number of times, which is
what `WorkQueue` shows a consumer may see. A closed run inserts its learning job in the same
statement; `TraceLearning` starts from such a job. A learned memory enters `MemoryLifecycle` as
a created row. An erasure request fences rows of all of them: each module has the fence as its
own code sees it (a queue row that no settlement matches, a snapshot that refuses, a guarded
write), and `ErasureSaga` has the request from its fence to its completion.

## 2. How each module corresponds to the code

**WorkQueue.** A row is its business columns (`entry`), its place (queued, dead, acked, erased),
`attempts`, `available_at` and `lease_expires_at`. Each SQL function is one transaction and one
action: `Enqueue` with its three depth limits, `Claim` of a batch (poisoned and malformed rows
dead-lettered on the way, fenced projects filtered before the limit), `Ack`, `Nack`, `Reject`
fenced on `(id, attempts, lease_expires_at)`, and what the saga does to queue rows. `held` is
what a worker process still believes it has claimed; it survives expiry, which is how a late
settlement arises. Timestamps are distances from now, and `Tick` brings them closer. Claims are
taken one after the other: two SKIP LOCKED claims that overlap and abort are not modelled. A row
is available from its insertion, because no route of the API passes an `available_at`; every row
is of authority version 1, because enqueue writes no other; an enqueue that only binds a late
subject tag writes no row and is left out.

**SeqSet.** The run-length coded set of sequence numbers beside the plain set it stands for: one
action adds a batch to both, and the properties compare them.

**TraceArchive.** One run. `Claim`, `Put`, `Commit`, `Settle` are the stages of
`_process_group`: the object is stored inside the transaction that later commits the row, and
items are settled after the commit. `Abort` is a crash or a failed transaction at any stage.
`FindMissingSentinel` and `MarkRunIncomplete` are the two halves of the sweep. `ReadComplete` is
`TraceArchiveReader.read_complete` as a verdict on a row and its objects, in the order of its
checks: index, references, store, headers, keys, events. Left out are outages of the database and
the store, the digest and end time a caller may expect, and envelope versions. Decryption is the
identity on sections bound to their header; payloads are told apart by a `Contents` value.

**SdkDelivery.** Appends, leases and settlements are the critical sections of the buffer lock;
a pass of `_do_flush` holds the flush lock and is interleaved with host threads that append,
mutate models they passed earlier, or call `flush()`. A post is accepted, refused, lost before
the server or lost after it.

**MemoryLifecycle.** `TRANSITIONS` with its guards, and every pass as select, judge, write:
corroboration, shadow validation, promotion, retirement, revalidation, invalidation, the TTL and
decay sweeps, merge, edit, containment, unpinning. The write matches the row by id and status
only, as `persist_status` does. A row is created on the status its writer's `apply()` gives;
`insert_memory_item` itself checks only that the status is one of creation, and by that check a
human verdict, which no writer makes today, enters quarantined. `indexed` are the runs that have
a `trace_index` row: an origin without one disqualifies no replay, as
`tests/phase3/test_shadow_validation.py:675` wants it, and `LateRuns` are the runs that may still
lack theirs. Containment leaves a row that is out of retrieval already as it is and files the
review. The table's edge from archived back to validated is taken by no code in the repository, so
it is in `Transitions` and no action takes it. Data choices: a memory's confirming runs are a set
(the cut at 256 is not reached); a pass holds the columns it reads; revalidation's two selects are one snapshot; `last_retrieved_at` has no
writer in the repository, so idleness counts from creation; promotion evidence is
nondeterministic because the deployed store cannot supply it; the failure-lesson relaxation is
absent because the store hard-codes the flag to false; duplicate review items collapse; rows are
taken in id order. Most of these passes are listed in `UNSCHEDULED_WORKERS` today and are
modelled as the worker code stands.

**TraceLearning.** Jobs with their attempts and leases (a lease is its holder and whether it is
live), the coordinator's stages (claim, gated read, plan, finalizing transaction with snapshot,
content locks and bindings), tags bound meanwhile, one erasure request at a time, and a gate
hold that may be lost with its connection. What the lanes plan from a run is a fixed set of
contents. A job row's subject union is its run's; `{}` stands for the project sentinel. A memory
carries the subjects of all its runs, so a request fences the runs that carry the subject and
those that share a memory with them; links between memories are left out. The advisory lock of a
content is on `hashtext` of its hash, a constant function here (`HashText`).

**ErasureSaga.** One request. The row of `erasure_request`, the closure, work items and
checkpoints, receipts, and for each executor a program counter through `_run`. A lease is its
holder and whether it lives, retry delays are not measured, one row group per run stands for the
tables of the primary purge and one object for what a store keeps of a target. A deletion, its
independent proof and its mark are separate steps, so an executor that lost its lease may still be
inside a store call; a deletion that reports success may leave a residue, which the proof finds
and an operator has to look at.

## 3. What the runs check

Each run answers one question. The first group passes.

| Run | Question | What it shows |
|---|---|---|
| `queue` | May a consumer trust a claim, and does the queue keep its promises to producers? | A live lease has one holder and its fence still finds the row (whether the settlement is then allowed is the erasure fence's decision); a row is delivered at most `max_attempts + 1` times and is called exhausted only after all of them; depth limits hold at every moment; rows of a fenced project are left alone; no row waits for ever, also behind a fenced project. |
| `seqset` | Is the coded sequence set the set it stands for? | After any batches, `contains`, `count_upto` and `has_above` answer as on the plain set, and the form is canonical, which the strict reader relies on. |
| `trace` | Does the reader accept what the writer closes? | Two writers, redelivery, crashes and contradicting sentinels: a terminal row reads back as one archive, its outcome is exact, its learning job exists once, acknowledged numbers are archived once, a terminal archive is frozen, nothing is written behind a fence. |
| `sdk` | Is every item the host handed over accounted for? | Each is pending, accepted or counted as dropped, exactly one of them; retries repeat the body first offered; order is kept; the buffer empties once failures stop. |
| `lifecycle` | Do passes that judge stale snapshots break the state machine? | Status moves along `TRANSITIONS` only, no proposal becomes retrievable, a distilled memory or a human verdict leaves quarantine only with two independent confirmations, fenced rows do not move, no sweep archives a row younger than its TTL. |
| `saga` | Is a completed request really erased? | Keys, rows and external objects of the final closure are gone and receipts prove it at the final revision; verified work is absent work, also after a deletion that left a residue; keys go first. A request ends completed, or waiting for an operator, or in one other state (`Unclosed`): every target verified and a store checkpoint not closed. |
| `learning` | Is a run learned from at most once, whole, and never after its erasure? | No duplicate candidates, atomic results, nothing left of an erased run, no false `archive_invalid` while the gate holds, no lock cycle, finished jobs are final, every job settles unless an erasure request stays open. |

The second group states what a comment of the code says and finds a behaviour that contradicts
it; `PROJECT.json` quotes the lines.

- `trace_shadow`: a `run_end` whose number an event of an *earlier* batch has taken is
  acknowledged and leaves no sentinel; the same-batch case is handled. The run stays pending
  until the sweep marks it incomplete.
- `lifecycle_merge`: "all-or-nothing" holds of the judgements of a merge; its writes are separate
  transactions, and a source moved meanwhile leaves the earlier ones superseded.
- `saga_stall`: the close of the first store already moves the phase to `external_purged`, because
  `bool_and` passes over checkpoints that have no `verified_revision` yet. A failure between the
  last mark of a later store and its close then leaves no pending work and an unclosed checkpoint.
  Later passes skip the stores, are refused with P0014 and retry for ever. One fault is enough and
  no late association is needed; a late association is another way into the same state.
- `learning_stale`: a tag bound between the claim of the last attempt and its snapshot ends the
  job as `max_attempts_exhausted`, the false dead letter the comment wants to avoid.

Two more divergences were seen while modelling `MemoryLifecycle`; the module has both
behaviours, no run is spent on them. Containment by forensics makes a validated row stale with no
strike, although `workers/revalidation.py:205` says every route into stale writes one; the next
failing check then raises and ends its batch (`CheckStale`). And because the write compares the
status alone, a row that leaves quarantine and comes back during a sweep is archived before its
new stay reached the TTL; `ArchivedOnlyAfterTtl` states what still holds, in terms of the age of
the memory, and does not see the return itself.

## 4. Bounds, and why they are enough

- `queue`: two workers, two rows, two projects, one topic, one row per claim, `MaxAttempts` 1
  (two deliveries), a lease of one unit (three ages: fresh, ending, over), no backoff, depth limits
  2/2/1. A late settlement needs two deliveries of one row, starvation needs a fenced row before
  another in a claim of one, the limits need one row more than they allow. Ids are not reused, so
  a behaviour has at most two rows. Everything but the capacity and liveness properties is proved
  for all values (section 6), in particular for larger batches.
- `seqset`: seven numbers, all 128 sets, every batch: ranges that touch, nest, bridge two others
  or stand alone.
- `trace`: two writers and sequence numbers 0 to 2. The posts are five sets of three events: a
  run whose start is repeated under another number, ends that disagree in number and status, in
  content, an end without a status beside a stranger's event, an event above the end. Every
  subset may be claimed in every batch, any number of times.
- `sdk`: capacity and batch of two, three appends, two failures, two ordinary bodies and one
  without JSON form, one host thread beside the flusher. The third append meets a full buffer in
  each of its three cases: all queued, all leased, and one of each.
- `lifecycle`: one memory, two workers with every pass, five runs (an origin that may not be
  indexed yet, a replay by its principal, one without a recorded input, two independent ones), two
  instants. Memories meet in
  a merge only, and `lifecycle_merge` has two.
- `saga`: two executors, two runs, the trace store and one other, two manifests, either scope,
  one late association, two faults of any kind, a residue among them. `saga_stall` has one manifest,
  one fault and no late association.
- `learning`: two workers, two runs that teach the same two contents, one subject, two attempts,
  one fault, one lost gate connection, one retirement; the archives are whole, or the second is
  corrupt or shredded. The two contents have different lock keys, in the opposite order of the
  contents.

Counters that would grow for ever are bounded in guards by a named constant (`MaxAppends`,
`MaxFailures`, `MaxFaults`, `MaxDrops`, `MaxRetires`, `MaxRevision`, `MaxTime`, `MaxId`).
Deadlock is checked for the queue, SDK and lifecycle; a trace run, a saga and a set of jobs end, so
there it is not.

## 5. Fairness

- `WorkQueue`: time passes; every topic is polled again (`run_forever` sleeps and repeats whatever
  a round did), strongly fair because a claim is enabled again and again between leases; a worker
  that holds a batch settles it or dies. No caller is made to enqueue and no erasure to come or end.
- `SdkDelivery`: the flusher thread wakes up (`_flusher_loop` waits with a timeout) and a thread
  inside a pass goes on. Failures are finite, which is the premise "once failures stop".
- `ErasureSaga`: the polling loop claims, an executor takes its next step (every call has a
  timeout), an abandoned lease expires. An operator is promised by nobody, hence the disjunct
  `operator_blocked`.
- `TraceLearning`: each coordinator goes on and an abandoned lease expires. Nothing makes an
  erasure request come or complete (`saga_stall` shows one that does not), and jobs are not claimed
  while one is open; hence `EventuallySettled` says that from some moment on either a request is
  open or every job is settled. A read that hangs while its
  heartbeat renews is outside this assumption; it is listed as a hazard.

## 6. What is proved

`WorkQueueProofs` proves, with TLAPS, for every set of workers, projects and topics, every number
of rows and every lease time, backoff, batch size and attempt limit. The only assumptions are
`ConstantsAssumption` of `WorkQueue`: the numbers are naturals (lease time and batch size
positive), entries have their type, `NULL` is none of the values it stands in for.

- `TypeCorrect`: `Spec => []TypeOK`.
- `LeaseSafety`: `Spec => [](LeaseExclusive /\ LiveClaimHonoured)`. Neither is inductive: nothing
  in them stops an expired claim of the same attempt from meeting a new one. `LeaseInv` adds that
  fences name inserted rows and no future attempt (`FencesKnown`), that two fences of one attempt
  are one claim (`FencesUnique`), and that a live fence is the row's current triple
  (`LiveFencesCurrent`). A claim raises `attempts` above every known fence, so it cannot coincide
  with one; a settlement that goes through removes the only fence that matches
  (`SettlementKeepsLeaseInv`); a tick ages row and fence alike.
- `DeliverySafety`: `Spec => []DeliveriesExact`. `DeliveryInv` adds that while a row is queued its
  attempts are its deliveries, and that an exhausted row is out of the queue for good.
- `FencedRowsSafety`: `Spec => FencedRowsFrozen`, from `LeaseInv` and the claim's filter.

## 7. What is only model-checked

Capacity (it needs cardinalities of filtered sets), every liveness property (outside the prover's
reach, as is anything with ENABLED), `SeqSet` (what a fold computes for every input needs
induction over data), and for now all of `TraceArchive`, `SdkDelivery`, `MemoryLifecycle`,
`ErasureSaga` and `TraceLearning`.

Abstractions that a reader should keep in mind: SQL functions are atomic, which their row and
advisory locks justify where modelled; concurrent SKIP LOCKED claims are serialised; encryption
is the identity on a section bound to its header and a destroyed key makes it unreadable;
digests, texts and timestamps are small sets of distinct values. `NoLockCycle` assumes that the
contents two finalizers lock have different `hashtext` keys. The keys have 32 bits: of contents
a < b < c where a and c collide, one finalizer may hold a's key and wait for b's while another holds
b's and waits for c's, which is the first one's. PostgreSQL would abort one of them and its attempt
would be retried.

## 8. Not modelled, and why

- Not yet, planned below: subject attribution and closure (`tracebed_bind_run_subject_tags`,
  `tracebed_bind_run_memory`, `tracebed_request_erasure`), the activity gate and worker runner,
  outcome intake and feedback, scorer and lift, retrieval hot path with budget and admission, key
  shredding, partitions and migration, edge sessions, authority grants, agent control and
  blackboard, prefetch, embedder spend, kill switch, bootstrap.
- Not by nature: numeric ranking and decay (reals), text extraction and parsers, HTTP routing and
  rendering, telemetry, CLI, dashboards, the S3 and file adapters beyond "an object is there or
  not", and the TLS and container deployment.

`PROJECT.json` lists each with its sources.

## 9. Plan

Next modules, in order:

1. `ErasureFence`: runs, subjects, memories, links and bindings; tag binding on the normal and the
   late path, memory binding with its recomputed union, request with closure, completion.
   Properties: nothing attributed to an erased subject is left, the closure is closed under links,
   fences only move forward, a late association never escapes its request. Bindings are split
   into read and write to see concurrent recomputation.
2. `ActivityGate` with `WorkerRunner`: shared and exclusive holds on their own connections, batches
   of the runner, lost connections, no starvation of an erasure request.
3. `OutcomeIntake` and feedback: outcome events, idempotence, scorer inputs, conflict with terminal
   freeze.
4. `Retrieval`: stages, deadlines, budget, admission, visibility under fences and the kill switch.
5. `Authority` and edge sessions: grant revisions, refresh, revocation between check and use.
6. Key shredding, partition maintenance, embedder spend.

Compositions: queue and trace writer (the settlement of `TraceArchive` against `WorkQueue`'s
fence), and `ErasureSaga` over `ErasureFence` in place of its free closure. Abstract
specifications: an at-least-once bag of deliveries that `WorkQueue` implements, and an erasure
contract (requested, then gone) that `ErasureSaga` implements.

Next theorems: `CapacityRespected`; `EdgesLegal`, `FencedRowsFrozen` and
`ProposalNeverRetrievable` of `MemoryLifecycle`; `CompleteMeansErased` of `ErasureSaga` (with
"verified at the current revision implies absent" as its invariant); `FinishedIsFinal` and
`ResultIsAtomic` of `TraceLearning`; the refinement of the delivery bag.
