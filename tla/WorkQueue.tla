----------------------------- MODULE WorkQueue -----------------------------
(***************************************************************************)
(* The durable work queue: the work_queue and dead_letter tables, the      *)
(* c12 SQL functions that enqueue, claim and settle rows, and the          *)
(* WorkerQueue class through which worker processes call them.             *)
(*                                                                         *)
(* Delivery is at least once.  A claim leases a row and counts an attempt; *)
(* the worker settles it later with ack, nack or reject, fenced on the     *)
(* triple (id, attempts, lease_expires_at) it was given.  Every SQL        *)
(* function is one transaction and therefore one action; between a claim   *)
(* and its settlement anything may happen: the lease may expire, another   *)
(* worker may be given the row, the worker may die, an erasure request may *)
(* fence the project.                                                      *)
(*                                                                         *)
(* Time.  A timestamp is kept as its distance from now(): available[i] is  *)
(* how long until available_at, lease[i] how long until lease_expires_at,  *)
(* and Tick brings every one of them a unit closer.  A timestamp in the    *)
(* past is kept at the floor, 0 for available_at (available_at <= now())   *)
(* and -1 for a lease (lease_expires_at < now()), where no condition of    *)
(* the code tells it from an older one.                                    *)
(***************************************************************************)
EXTENDS Integers, FiniteSets

CONSTANTS
    Workers,          \* worker processes
    Projects,         \* tenants
    Topics,           \* trace_event, outcome_event, memory_proposal
    MaxId,            \* bound: ids the sequence hands out are 1..MaxId
    Entries,          \* the business columns a caller may enqueue
    MaxAttempts,      \* max_attempts of every row
    BatchSize,        \* QueueConfig.batch_size, the largest LIMIT of a claim
    LeaseTime,        \* QueueConfig.lease_seconds
    MaxBackoff,       \* the longest backoff a nack asks for
    MaxGlobalDepth, MaxTopicDepth, MaxProjectDepth,
    NULL

Ids == 1..MaxId

Entry == [project : Projects, topic : Topics, priority : Nat, wellFormed : BOOLEAN]

\* last_error of a dead letter.
Reasons == {"max_attempts_exceeded", "malformed_authority", "rejected"}

ASSUME ConstantsAssumption ==
    /\ MaxId \in Nat
    /\ Entries \subseteq Entry
    /\ MaxAttempts \in Nat
    /\ BatchSize \in Nat \ {0}
    /\ LeaseTime \in Nat \ {0}
    /\ MaxBackoff \in Nat
    /\ MaxGlobalDepth \in Nat /\ MaxTopicDepth \in Nat /\ MaxProjectDepth \in Nat
    /\ NULL \notin Int /\ NULL \notin Entry /\ NULL \notin Reasons

Expired == -1

VARIABLES
    nextId,       \* the id sequence of work_queue
    entry,        \* the business columns of a row, NULL before it is inserted
    place,        \* where the row is: see Places
    attempts,     \* the attempts column
    available,    \* the available_at column
    lease,        \* the lease_expires_at column
    reason,       \* last_error of a dead letter
    erasure,      \* the erasure request of a project
    held,         \* the QueueItems each worker process still has in memory
    deliveries    \* history: how often a row was handed to a worker

rowVars == <<entry, place, attempts, available, lease, reason, deliveries>>
vars == <<nextId, rowVars, erasure, held>>

(***************************************************************************)
(* A row is in work_queue, in dead_letter, or in neither: never inserted,  *)
(* deleted by an ack, or deleted by the erasure of its project.            *)
(***************************************************************************)
Places == {"absent", "queued", "dead", "acked", "erased"}

\* erasure_request of a project: none, an unfinished one of either scope, or a
\* finished one.
ErasureStates == {"none", "subject", "project", "subject_complete", "project_complete"}

Leases == {NULL} \cup (Expired..LeaseTime)

\* The fence of a claimed QueueItem (WorkerQueue._fence).
Fences == [id : Ids, attempts : Nat, lease : Expired..LeaseTime]

\* The columns and fences keep their types; in particular every item a worker
\* holds carries a lease, without which WorkerQueue._fence refuses to settle it.
TypeOK ==
    /\ nextId \in 1..(MaxId + 1)
    /\ entry \in [Ids -> Entries \cup {NULL}]
    /\ place \in [Ids -> Places]
    /\ attempts \in [Ids -> Nat]
    /\ available \in [Ids -> 0..MaxBackoff]
    /\ lease \in [Ids -> Leases]
    /\ reason \in [Ids -> Reasons \cup {NULL}]
    /\ erasure \in [Projects -> ErasureStates]
    /\ held \in [Workers -> SUBSET Fences]
    /\ deliveries \in [Ids -> Nat]

Init ==
    /\ nextId = 1
    /\ entry = [i \in Ids |-> NULL]
    /\ place = [i \in Ids |-> "absent"]
    /\ attempts = [i \in Ids |-> 0]
    /\ available = [i \in Ids |-> 0]
    /\ lease = [i \in Ids |-> NULL]
    /\ reason = [i \in Ids |-> NULL]
    /\ erasure = [p \in Projects |-> "none"]
    /\ held = [w \in Workers |-> {}]
    /\ deliveries = [i \in Ids |-> 0]

-----------------------------------------------------------------------------
Queued == {i \in Ids : place[i] = "queued"}
QueuedFor(t) == {i \in Queued : entry[i].topic = t}
QueuedOf(p) == {i \in Queued : entry[i].project = p}

\* The request_row condition of claim and disposition: a project-scope request
\* blocks for ever, a subject-scope one until it is complete.  The test of
\* authority_version beside it is always true: enqueue writes no version but 1.
Fenced(p) == erasure[p] \in {"subject", "project", "project_complete"}

(***************************************************************************)
(* tracebed_enqueue_authorized, from the capacity check on: the caller's   *)
(* authority is proved and the run is writable.  A full queue raises P0006 *)
(* and changes nothing, so it is no step.  Nor is a refusal that binds a   *)
(* late subject tag to a fenced run: it writes no queue row.  The row is   *)
(* available at once, as the three routes that enqueue leave available_at  *)
(* out and it defaults to now().                                           *)
(***************************************************************************)
\* Mutant: the limit compared with <= instead of <.
HasRoomOffByOne(e) ==
    /\ Cardinality(Queued) <= MaxGlobalDepth
    /\ Cardinality(QueuedFor(e.topic)) <= MaxTopicDepth
    /\ Cardinality(QueuedOf(e.project)) <= MaxProjectDepth

HasRoom(e) ==
    /\ Cardinality(Queued) < MaxGlobalDepth
    /\ Cardinality(QueuedFor(e.topic)) < MaxTopicDepth
    /\ Cardinality(QueuedOf(e.project)) < MaxProjectDepth

Enqueue(e) ==
    /\ nextId \in Ids
    /\ ~Fenced(e.project)
    /\ HasRoom(e)
    /\ entry' = [entry EXCEPT ![nextId] = e]
    /\ place' = [place EXCEPT ![nextId] = "queued"]
    /\ nextId' = nextId + 1
    /\ UNCHANGED <<attempts, available, lease, reason, erasure, held, deliveries>>
-----------------------------------------------------------------------------
(***************************************************************************)
(* tracebed_worker_queue_claim.                                            *)
(***************************************************************************)
\* Mutant: a lease that ends now counts as over.
LeaseFreeEarly(i) == lease[i] = NULL \/ lease[i] \in {Expired, 0}

LeaseFree(i) == lease[i] = NULL \/ lease[i] = Expired

\* The WHERE clause: ready, not leased, and of a project no erasure fences.
Claimable(t) ==
    {i \in QueuedFor(t) :
        /\ available[i] = 0
        /\ LeaseFree(i)
        /\ ~Fenced(entry[i].project)}

\* ORDER BY priority, id.
Before(i, j) ==
    \/ entry[i].priority < entry[j].priority
    \/ entry[i].priority = entry[j].priority /\ i < j

\* S is what ORDER BY ... LIMIT n returns of the rows R.
IsBatch(S, R, n) ==
    /\ S \subseteq R
    /\ Cardinality(S) = (IF Cardinality(R) < n THEN Cardinality(R) ELSE n)
    /\ \A i \in S : \A j \in R \ S : Before(i, j)

\* Mutant: the erasure filter applied to the rows LIMIT has already cut off.
CandidatesFilteredAfterLimit(t, S) ==
    \E n \in 1..BatchSize, P \in SUBSET QueuedFor(t) :
        /\ IsBatch(P, {i \in QueuedFor(t) : available[i] = 0 /\ LeaseFree(i)}, n)
        /\ S = {i \in P : ~Fenced(entry[i].project)}

\* A consumer asks for any number of rows, and gets at most BatchSize.
Candidates(t, S) == \E n \in 1..BatchSize : IsBatch(S, Claimable(t), n)

\* Mutant: one attempt too few.
PoisonedEarly(i) == attempts[i] >= MaxAttempts

\* is_poisoned: the attempts are used up.
Poisoned(i) == attempts[i] > MaxAttempts

Malformed(i) == ~entry[i].wellFormed

\* Mutant: the claim returns the row as it was selected, not as it was updated.
FenceAsSelected(i) == [id |-> i, attempts |-> attempts[i], lease |-> lease[i]]

\* What UPDATE ... RETURNING gives of a claimed row to fence its settlement with.
Fence(i) == [id |-> i, attempts |-> attempts'[i], lease |-> lease'[i]]

(***************************************************************************)
(* WorkerQueue.claim, one transaction.  Of the rows selected the poisoned  *)
(* ones go to dead_letter; the others are leased and their attempt is      *)
(* counted; of those the ones whose authority envelope does not parse are  *)
(* rejected at once and never reach the consumer.  A consumer claims only  *)
(* when it has settled what it claimed before.                             *)
(***************************************************************************)
Claim(w, t, S) ==
    LET poisoned  == {i \in S : Poisoned(i)}
        malformed == {i \in S \ poisoned : Malformed(i)}
        leased    == S \ (poisoned \cup malformed)
    IN
    /\ held[w] = {}
    /\ S # {}
    /\ Candidates(t, S)
    /\ attempts' = [i \in Ids |-> IF i \in S \ poisoned THEN attempts[i] + 1 ELSE attempts[i]]
    /\ lease' = [i \in Ids |-> IF i \in S \ poisoned THEN LeaseTime ELSE lease[i]]
    /\ place' = [i \in Ids |-> IF i \in poisoned \cup malformed THEN "dead" ELSE place[i]]
    /\ reason' = [i \in Ids |-> IF i \in poisoned THEN "max_attempts_exceeded"
                                ELSE IF i \in malformed THEN "malformed_authority"
                                ELSE reason[i]]
    /\ deliveries' = [i \in Ids |-> IF i \in leased THEN deliveries[i] + 1 ELSE deliveries[i]]
    /\ held' = [held EXCEPT ![w] = {Fence(i) : i \in leased}]
    /\ UNCHANGED <<nextId, entry, available, erasure>>

-----------------------------------------------------------------------------
(***************************************************************************)
(* tracebed_worker_queue_disposition.  It finds the row only by the exact  *)
(* fence the worker was given, and leaves a fenced project's row as it is; *)
(* either way the worker forgets the item.                                 *)
(***************************************************************************)
\* Mutant: the row is found by its id alone, as the queue did before fencing.
MatchesById(c) == place[c.id] = "queued"

Matches(c) ==
    /\ place[c.id] = "queued"
    /\ attempts[c.id] = c.attempts
    /\ lease[c.id] = c.lease

\* Mutant: the settlement of a fenced project's row goes through.
SettlesUnfenced(c) == Matches(c)

Settles(c) == Matches(c) /\ ~Fenced(entry[c.id].project)

Forget(w, c) == held' = [held EXCEPT ![w] = @ \ {c}]

Ack(w, c) ==
    /\ Settles(c)
    /\ place' = [place EXCEPT ![c.id] = "acked"]
    /\ Forget(w, c)
    /\ UNCHANGED <<nextId, entry, attempts, available, lease, reason, erasure, deliveries>>

Nack(w, c, backoff) ==
    /\ Settles(c)
    /\ available' = [available EXCEPT ![c.id] = backoff]
    /\ lease' = [lease EXCEPT ![c.id] = NULL]
    /\ Forget(w, c)
    /\ UNCHANGED <<nextId, entry, place, attempts, reason, erasure, deliveries>>

Reject(w, c) ==
    /\ Settles(c)
    /\ place' = [place EXCEPT ![c.id] = "dead"]
    /\ reason' = [reason EXCEPT ![c.id] = "rejected"]
    /\ Forget(w, c)
    /\ UNCHANGED <<nextId, entry, attempts, available, lease, erasure, deliveries>>

\* Any of the three that returned false.
SettleRefused(w, c) ==
    /\ ~Settles(c)
    /\ Forget(w, c)
    /\ UNCHANGED <<nextId, rowVars, erasure>>

Settle(w, c) ==
    \/ Ack(w, c)
    \/ \E backoff \in 0..MaxBackoff : Nack(w, c, backoff)
    \/ Reject(w, c)
    \/ SettleRefused(w, c)

\* The worker process dies, or leaves a batch that outran its lease unsettled.
Crash(w) ==
    /\ held[w] # {}
    /\ held' = [held EXCEPT ![w] = {}]
    /\ UNCHANGED <<nextId, rowVars, erasure>>

-----------------------------------------------------------------------------
(***************************************************************************)
(* What the erasure saga does to the queue: tracebed_request_erasure       *)
(* fences the project, tracebed_erasure_primary_batch deletes the rows in  *)
(* scope from both tables, and tracebed_erasure_verify_and_complete ends   *)
(* it when none remains.  Which rows a subject's closure holds is left     *)
(* open: any of the project's.                                             *)
(***************************************************************************)
RowsOf(p) == {i \in Ids : place[i] \in {"queued", "dead"} /\ entry[i].project = p}

RequestErasure(p, scope) ==
    /\ erasure[p] \in {"none", "subject_complete"}
    /\ erasure' = [erasure EXCEPT ![p] = scope]
    /\ UNCHANGED <<nextId, rowVars, held>>

PurgeRows(p, S) ==
    /\ erasure[p] \in {"subject", "project"}
    /\ S # {}
    /\ place' = [i \in Ids |-> IF i \in S THEN "erased" ELSE place[i]]
    /\ UNCHANGED <<nextId, entry, attempts, available, lease, reason, erasure, held, deliveries>>

CompleteErasure(p) ==
    /\ \/ /\ erasure[p] = "subject"
          /\ erasure' = [erasure EXCEPT ![p] = "subject_complete"]
       \/ /\ erasure[p] = "project"
          /\ RowsOf(p) = {}
          /\ erasure' = [erasure EXCEPT ![p] = "project_complete"]
    /\ UNCHANGED <<nextId, rowVars, held>>

-----------------------------------------------------------------------------
\* A timestamp one unit of time later, and no further than floor.
Elapse(t, floor) == IF t > floor THEN t - 1 ELSE floor

LaterLease(l) == IF l = NULL THEN NULL ELSE Elapse(l, Expired)

LaterFence(c) == [id |-> c.id, attempts |-> c.attempts, lease |-> Elapse(c.lease, Expired)]

Tick ==
    /\ available' = [i \in Ids |-> Elapse(available[i], 0)]
    /\ lease' = [i \in Ids |-> LaterLease(lease[i])]
    /\ held' = [w \in Workers |-> {LaterFence(c) : c \in held[w]}]
    /\ UNCHANGED <<nextId, entry, place, attempts, reason, erasure, deliveries>>

Next ==
    \/ \E e \in Entries : Enqueue(e)
    \/ \E w \in Workers, t \in Topics : \E S \in SUBSET Claimable(t) : Claim(w, t, S)
    \/ \E w \in Workers : \E c \in held[w] : Settle(w, c)
    \/ \E w \in Workers : Crash(w)
    \/ \E p \in Projects, scope \in {"subject", "project"} : RequestErasure(p, scope)
    \/ \E p \in Projects : \E S \in SUBSET RowsOf(p) : PurgeRows(p, S)
    \/ \E p \in Projects : CompleteErasure(p)
    \/ Tick

(***************************************************************************)
(* Time passes; a consumer loop polls each topic again whatever the last   *)
(* round did (run_forever); and a worker settles a claimed batch or dies.  *)
(* Nothing makes a caller enqueue, or an erasure request come or finish.   *)
(***************************************************************************)
Fairness ==
    /\ WF_vars(Tick)
    /\ \A t \in Topics :
           SF_vars(\E w \in Workers : \E S \in SUBSET Claimable(t) : Claim(w, t, S))
    /\ \A w \in Workers : WF_vars((\E c \in held[w] : Settle(w, c)) \/ Crash(w))

Spec == Init /\ [][Next]_vars
FairSpec == Spec /\ Fairness

-----------------------------------------------------------------------------
(***************************************************************************)
(* A worker whose lease has not run out is the row's only holder: the      *)
(* claim that could redeliver the row waits for lease_expires_at < now(),  *)
(* and no settlement by an earlier, slower holder of the same row can free *)
(* it sooner.                                                              *)
(***************************************************************************)
LeaseExclusive ==
    \A w, v \in Workers : \A c \in held[w], d \in held[v] :
        (c.id = d.id /\ c.lease # Expired /\ d.lease # Expired) => (w = v /\ c = d)

(***************************************************************************)
(* The fence of a worker whose lease has not run out still finds its row,  *)
(* unless the erasure of the project deleted it: no late ack, nack or      *)
(* reject, and no dead-letter sweep, takes it away.  Finding the row is    *)
(* not yet settling it: while an erasure fences the project, disposition   *)
(* refuses even the live holder, and leaves the row as it is.              *)
(***************************************************************************)
LiveClaimHonoured ==
    \A w \in Workers : \A c \in held[w] :
        c.lease # Expired => Matches(c) \/ place[c.id] = "erased"

(***************************************************************************)
(* "A row is never delivered more than max_attempts + 1 times", however    *)
(* leases expire, workers die and settlements arrive late; and a row is    *)
(* dead-lettered as exhausted only when a worker was really given it that  *)
(* often: no attempt is counted without a delivery.                        *)
(***************************************************************************)
DeliveriesExact ==
    \A i \in Ids :
        /\ deliveries[i] <= MaxAttempts + 1
        /\ reason[i] = "max_attempts_exceeded" => deliveries[i] = MaxAttempts + 1

(***************************************************************************)
(* The depth limits that enqueue checks hold of the table at every moment: *)
(* nothing but an enqueue puts a row back among the queued ones.           *)
(***************************************************************************)
CapacityRespected ==
    /\ Cardinality(Queued) <= MaxGlobalDepth
    /\ \A t \in Topics : Cardinality(QueuedFor(t)) <= MaxTopicDepth
    /\ \A p \in Projects : Cardinality(QueuedOf(p)) <= MaxProjectDepth

(***************************************************************************)
(* While an erasure fences a project, no worker, however old its claim,    *)
(* consumes one of its rows or is given one: a queued row stays as it was  *)
(* until the purge deletes it or the request is complete.                  *)
(***************************************************************************)
FencedRowsFrozen ==
    [][\A i \in Ids :
          (place[i] = "queued" /\ Fenced(entry[i].project)) =>
              /\ place'[i] \in {"queued", "erased"}
              /\ attempts'[i] = attempts[i]
              /\ deliveries'[i] = deliveries[i]]_vars

(***************************************************************************)
(* No row waits for ever: it is acked, dead-lettered or erased, unless its *)
(* project keeps being fenced.  In particular the rows of a fenced project *)
(* that come first in claim order do not starve the project behind them.   *)
(***************************************************************************)
NoRowStarves ==
    \A i \in Ids :
        []<>(place[i] # "queued" \/ Fenced(entry[i].project))
=============================================================================
