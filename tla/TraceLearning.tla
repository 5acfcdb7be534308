--------------------------- MODULE TraceLearning ---------------------------
(***************************************************************************)
(* The Tier-A trace-learning jobs of one project, one per finished run:    *)
(* the coordinators of workers/trace_learning_coordinator.py that claim a  *)
(* job, read the run's archive and finish the job, the store and finalizer *)
(* of stores/pg/trace_learning.py, and the erasure request, late subject   *)
(* binding and retirement of memories that go on meanwhile.                *)
(*                                                                         *)
(* Abstractions.  A lease is its holder and whether it has expired: a      *)
(* claim makes a new token, and a worker handles one job at a time.  The   *)
(* retry delay is not measured.  The empty set of subjects is the project  *)
(* sentinel.  The job row's own union is that of the run, because the      *)
(* binder writes both in one transaction.  What the lane extracts from an  *)
(* archive is a set of contents, the same on every read.  The links        *)
(* between memories, which only enlarge an erasure, are left out.          *)
(***************************************************************************)
EXTENDS Naturals, Sequences, FiniteSets

CONSTANTS
    Workers,       \* trace-learning worker processes
    Runs,          \* finished runs, each with its job
    Subjects,      \* subject digests
    Plan,          \* contents (their hashes, as numbers) the lane extracts per run
    HashText,      \* PostgreSQL's hashtext of a content hash, the key of its lock
    Archives,      \* the conditions the archives of the runs may be in
    MaxAttempts,   \* max_attempts of a job
    MaxFaults,     \* bound on crashes, lapses and unreadable archives
    MaxDrops,      \* bound on lost connections of the activity gate
    MaxRetires,    \* bound on memories that leave the reusable statuses
    NONE

ASSUME LearningAssumption ==
    /\ NONE \notin Workers /\ NONE \notin Runs /\ NONE \notin Subjects
    /\ Plan \in [Runs -> SUBSET Nat]
    /\ HashText \in [UNION {Plan[r] : r \in Runs} -> Nat]
    /\ Archives \subseteq [Runs -> {"whole", "corrupt", "shredded"}]
    /\ MaxAttempts \in Nat \ {0}
    /\ MaxFaults \in Nat /\ MaxDrops \in Nat /\ MaxRetires \in Nat

VARIABLES
    archive,       \* whether a run's archive verifies, and has all its subject keys
    job,           \* trace_learning_job
    memory,        \* memory_item and run_memory_binding, in insertion order
    bound,         \* trace_subject: the subjects of each run
    fence,         \* run_fence.state
    subject,       \* subject_fence.state; an erased subject's key is destroyed
    request,       \* the subject of the request that is not scope_complete
    worker,        \* what each coordinator holds
    staled,        \* runs whose last attempt ended on a stale snapshot (history)
    faults, drops, retires

erasure == <<bound, fence, subject, request>>
bounds == <<faults, drops, retires>>
vars == <<archive, job, memory, erasure, worker, staled, bounds>>

Terminal == {"succeeded", "skipped", "dead"}

JobStates == {"pending", "running", "retry", "purged"} \cup Terminal

Codes == {"none", "lease_expired", "trace_unavailable", "max_attempts_exhausted",
          "archive_invalid", "config_invalid", "extractor_failure", "privacy_tombstoned"}

\* The dispositions of read_complete, of the configuration and of the lane.
Results == {"none", "ok", "trace_unavailable", "privacy_tombstoned", "archive_invalid",
            "config_invalid", "extractor_failure"}

FenceStates == {"live", "fenced", "erased"}

Contents == UNION {Plan[r] : r \in Runs}

\* A revived row has left the reusable statuses and come back (stale -> validated).
MemoryStates == {"active", "retired", "revived", "erased"}
Reusable == {"active", "revived"}

Idle == [pc |-> "idle", run |-> NONE, subjects |-> {}, result |-> "none", lost |-> FALSE,
         gate |-> FALSE, todo |-> {}, found |-> {}]

TypeOK ==
    /\ archive \in Archives
    /\ job \in [Runs -> [state : JobStates, attempts : 0..MaxAttempts,
                         holder : Workers \cup {NONE}, live : BOOLEAN, code : Codes]]
    /\ memory \in Seq([content : Contents, state : MemoryStates, runs : SUBSET Runs])
    /\ bound \in [Runs -> SUBSET Subjects]
    /\ fence \in [Runs -> FenceStates]
    /\ subject \in [Subjects -> FenceStates]
    /\ request \in Subjects \cup {NONE}
    /\ worker \in [Workers -> [pc : {"idle", "assert", "read", "final", "finish", "tx"},
                               run : Runs \cup {NONE}, subjects : SUBSET Subjects,
                               result : Results, lost : BOOLEAN, gate : BOOLEAN,
                               todo : SUBSET Contents, found : SUBSET (Contents \X Nat)]]
    /\ staled \subseteq Runs
    /\ faults \in 0..MaxFaults
    /\ drops \in 0..MaxDrops
    /\ retires \in 0..MaxRetires

\* Every terminal trace has scheduled its job; runs may be tagged already.
Init ==
    /\ archive \in Archives
    /\ job = [r \in Runs |-> [state |-> "pending", attempts |-> 0, holder |-> NONE,
                              live |-> FALSE, code |-> "none"]]
    /\ memory = <<>>
    /\ bound \in [Runs -> SUBSET Subjects]
    /\ fence = [r \in Runs |-> "live"]
    /\ subject = [s \in Subjects |-> "live"]
    /\ request = NONE
    /\ worker = [w \in Workers |-> Idle]
    /\ staled = {}
    /\ faults = 0
    /\ drops = 0
    /\ retires = 0

-----------------------------------------------------------------------------
(***************************************************************************)
(* What the statements read.                                               *)
(***************************************************************************)

\* The scoped rows of the project: hidden while a request is in progress.
RowsVisible == request = NONE

\* tracebed_runtime_run_visible.
RunVisible(r) ==
    /\ request = NONE
    /\ fence[r] = "live"
    /\ \A s \in bound[r] : subject[s] = "live"

\* A transaction of w holds the locks of its run, its job row and its contents.
InTx(w) == worker[w].pc = "tx"

\* tracebed_lock_run_subject_snapshot with the union the lease carries.
SnapshotOk(w) ==
    /\ RunVisible(worker[w].run)
    /\ worker[w].subjects = bound[worker[w].run]

\* Mutant: any running row of the run will do.
HoldsAny(w) ==
    /\ RowsVisible
    /\ job[worker[w].run].state \in {"running", "succeeded"}

\* The fence of renew, retry and the finalizer: token, owner and expiry.
Holds(w) ==
    LET row == job[worker[w].run]
    IN  /\ RowsVisible
        /\ row.state = "running"
        /\ row.holder = w
        /\ row.live

\* The advisory locks of w's transaction.
HeldKeys(w) == {HashText[f[1]] : f \in worker[w].found}

RowLocked(i) == \E w \in Workers : InTx(w) /\ \E f \in worker[w].found : f[2] = i

KeyDestroyed(r) == archive[r] = "shredded" \/ \E s \in bound[r] : subject[s] = "erased"

Free(row, state, code) ==
    [row EXCEPT !.state = state, !.holder = NONE, !.live = FALSE, !.code = code]

Leave(w) == worker' = [worker EXCEPT ![w] = Idle]

-----------------------------------------------------------------------------
(***************************************************************************)
(* TraceLearningJobStore: claim, renew, retry.                             *)
(***************************************************************************)

Expired ==
    {r \in Runs : /\ job[r].state = "running"
                  /\ ~job[r].live
                  /\ \A w \in Workers : ~(InTx(w) /\ worker[w].run = r)}

\* Mutants: an expired row always waits for another attempt; and counts one more.
ExpireToRetry(row) == Free(row, "retry", "lease_expired")
ExpireCounted(row) == [Free(row, "retry", "lease_expired") EXCEPT !.attempts = @ + 1]

Expire(row) ==
    IF row.attempts >= MaxAttempts
    THEN Free(row, "dead", "max_attempts_exhausted")
    ELSE Free(row, "retry", "lease_expired")

Ready(rows) ==
    {r \in Runs : /\ rows[r].state \in {"pending", "retry"}
                  /\ rows[r].attempts < MaxAttempts
                  /\ RunVisible(r)}

\* claim(limit 1) under the shared activity gate: at most one expired row is
\* recovered, then at most one ready row is leased.
Claim(w) ==
    /\ worker[w].pc = "idle"
    /\ RowsVisible
    /\ \E x \in IF Expired = {} THEN {NONE} ELSE Expired :
          LET rows == IF x = NONE THEN job ELSE [job EXCEPT ![x] = Expire(@)]
          IN  \/ /\ Ready(rows) = {}
                 /\ x # NONE
                 /\ job' = rows
                 /\ UNCHANGED <<worker, staled>>
              \/ \E r \in Ready(rows) :
                    /\ job' = [rows EXCEPT ![r] =
                                 [@ EXCEPT !.state = "running", !.attempts = @ + 1,
                                           !.holder = w, !.live = TRUE, !.code = "none"]]
                    /\ worker' = [worker EXCEPT ![w] =
                                    [Idle EXCEPT !.pc = "assert", !.run = r,
                                                 !.subjects = bound[r], !.gate = TRUE]]
                    /\ staled' = staled \ {r}
    /\ UNCHANGED <<archive, memory, erasure, bounds>>

\* renew by the heartbeat thread, which reports a lost lease once.
Heartbeat(w) ==
    /\ worker[w].pc \in {"read", "final"}
    /\ ~worker[w].lost
    /\ worker' = [worker EXCEPT ![w] =
                    IF Holds(w) THEN [@ EXCEPT !.subjects = bound[worker[w].run]]
                                ELSE [@ EXCEPT !.lost = TRUE]]
    /\ UNCHANGED <<archive, job, memory, erasure, staled, bounds>>

\* retry(trace_unavailable).
Retry(w) ==
    LET r == worker[w].run
    IN  /\ worker[w].pc = "finish"
        /\ worker[w].result = "trace_unavailable"
        /\ job' = IF ~Holds(w) THEN job
                  ELSE [job EXCEPT ![r] =
                          IF @.attempts >= MaxAttempts
                          THEN Free(@, "dead", "max_attempts_exhausted")
                          ELSE Free(@, "retry", "trace_unavailable")]
        /\ Leave(w)
        /\ UNCHANGED <<archive, memory, erasure, staled, bounds>>

\* Time passes the expiry of a lease that was not renewed.
Lapse(r) ==
    /\ job[r].live
    /\ faults < MaxFaults
    /\ faults' = faults + 1
    /\ job' = [job EXCEPT ![r].live = FALSE]
    /\ UNCHANGED <<archive, memory, erasure, worker, staled, drops, retires>>

\* The lease of a job that no coordinator processes any more expires.
LapseAbandoned(r) ==
    /\ job[r].live
    /\ worker[job[r].holder].run # r
    /\ job' = [job EXCEPT ![r].live = FALSE]
    /\ UNCHANGED <<archive, memory, erasure, worker, staled, bounds>>

-----------------------------------------------------------------------------
(***************************************************************************)
(* TraceLearningCoordinator: one claimed job, from snapshot to final lease.*)
(***************************************************************************)

\* ErasureFenced or ErasureSnapshotStale: the row is left running.
Refused(w) ==
    /\ ~SnapshotOk(w)
    /\ staled' = IF RunVisible(worker[w].run) THEN staled \cup {worker[w].run} ELSE staled
    /\ Leave(w)
    /\ UNCHANGED <<job, memory>>

AssertSnapshot(w) ==
    /\ worker[w].pc = "assert"
    /\ \/ Refused(w)
       \/ /\ SnapshotOk(w)
          /\ worker' = [worker EXCEPT ![w].pc = "read"]
          /\ UNCHANGED <<job, memory, staled>>
    /\ UNCHANGED <<archive, erasure, bounds>>

\* What reading the archive can yield: its index row is hidden with the rest.
ReadResults(r) ==
    IF ~RowsVisible \/ archive[r] = "corrupt" THEN {"archive_invalid"}
    ELSE IF KeyDestroyed(r) THEN {"privacy_tombstoned"}
    ELSE {"ok"}

\* Faults of the store, of the configuration and of an extractor.
ReadFaults == {"trace_unavailable", "config_invalid", "extractor_failure"}

\* read_complete, the effective configuration, the lane and the preparation.
Read(w) ==
    /\ worker[w].pc = "read"
    /\ \/ /\ \E res \in ReadResults(worker[w].run) :
                worker' = [worker EXCEPT ![w].pc = "final", ![w].result = res]
          /\ UNCHANGED faults
       \/ /\ faults < MaxFaults
          /\ faults' = faults + 1
          /\ \E res \in ReadFaults :
                worker' = [worker EXCEPT ![w].pc = "final", ![w].result = res]
    /\ UNCHANGED <<archive, job, memory, erasure, staled, drops, retires>>

\* _final_lease: stop the heartbeat, then one foreground renew.
FinalLease(w) ==
    /\ worker[w].pc = "final"
    /\ \/ /\ ~worker[w].lost /\ Holds(w)
          /\ worker' = [worker EXCEPT ![w].pc = "finish",
                                      ![w].subjects = bound[worker[w].run]]
       \/ /\ worker[w].lost \/ ~Holds(w)
          /\ Leave(w)
    /\ UNCHANGED <<archive, job, memory, erasure, staled, bounds>>

-----------------------------------------------------------------------------
(***************************************************************************)
(* TraceLearningFinalizer: one transaction each.                           *)
(***************************************************************************)

\* finalize_skip and finalize_dead.
FinalizeOther(w) ==
    LET r == worker[w].run
        code == worker[w].result
    IN  /\ worker[w].pc = "finish"
        /\ code \notin {"ok", "trace_unavailable"}
        /\ \/ Refused(w)
           \/ /\ SnapshotOk(w)
              /\ job' = IF ~Holds(w) THEN job
                        ELSE [job EXCEPT ![r] =
                                Free(@, IF code = "privacy_tombstoned" THEN "skipped" ELSE "dead",
                                     code)]
              /\ Leave(w)
              /\ UNCHANGED <<memory, staled>>
        /\ UNCHANGED <<archive, erasure, bounds>>

\* finalize_success up to the first candidate: snapshot, job row, subject keys.
\* A ValueError of these checks (another digest or end time, a changed key set)
\* rolls back and leaves the row running, which is what Crash does.
FinalizeBegin(w) ==
    LET r == worker[w].run
    IN  /\ worker[w].pc = "finish"
        /\ worker[w].result = "ok"
        /\ \/ Refused(w)
           \/ /\ SnapshotOk(w)
              /\ ~Holds(w)
              /\ Leave(w)
              /\ UNCHANGED <<job, memory, staled>>
           \/ /\ SnapshotOk(w)
              /\ Holds(w)
              /\ IF KeyDestroyed(r)
                 THEN /\ job' = [job EXCEPT ![r] = Free(@, "skipped", "privacy_tombstoned")]
                      /\ Leave(w)
                 ELSE /\ worker' = [worker EXCEPT ![w].pc = "tx", ![w].todo = Plan[r]]
                      /\ UNCHANGED job
              /\ UNCHANGED <<memory, staled>>
        /\ UNCHANGED <<archive, erasure, bounds>>

\* Mutant: the candidates are taken in the order of the plan.
InPlanOrder(todo) == todo

\* sorted(prepared.candidates, key=content_hash).
NextContents(todo) == {c \in todo : \A d \in todo : c <= d}

\* Mutant: nobody takes the advisory lock of the content.
SemanticLockSkipped(w, c) == c \in worker[w].todo

\* pg_advisory_xact_lock(hashtext(content_hash)) is granted: no other
\* transaction holds the key, this one may hold it already.
SemanticLockFree(w, c) ==
    \A v \in Workers \ {w} : InTx(v) => HashText[c] \notin HeldKeys(v)

ReusableRows(c) == {i \in DOMAIN memory : memory[i].content = c /\ memory[i].state \in Reusable}

\* Lock the next content and look for a reusable row, the oldest first; 0 is none.
FinalizeCandidate(w) ==
    /\ InTx(w)
    /\ \E c \in NextContents(worker[w].todo) :
          LET rows == ReusableRows(c)
              hit == IF rows = {} THEN 0 ELSE CHOOSE i \in rows : \A j \in rows : i <= j
          IN  /\ SemanticLockFree(w, c)
              /\ worker' = [worker EXCEPT ![w].todo = @ \ {c},
                                          ![w].found = @ \cup {<<c, hit>>}]
    /\ UNCHANGED <<archive, job, memory, erasure, staled, bounds>>

\* The candidates that a transaction inserts, as a sequence in hash order.
Inserted(w) ==
    LET new == {f[1] : f \in {g \in worker[w].found : g[2] = 0}}
        Nth(n) == CHOOSE c \in new : Cardinality({d \in new : d <= c}) = n
    IN  [n \in 1..Cardinality(new) |->
            [content |-> Nth(n), state |-> "active", runs |-> {worker[w].run}]]

\* Mutant: a reused row is not bound to the run.
ReusedUnbound(w) == memory

Reused(w) ==
    [i \in DOMAIN memory |->
        IF \E f \in worker[w].found : f[2] = i
        THEN [memory[i] EXCEPT !.runs = @ \cup {worker[w].run}]
        ELSE memory[i]]

\* Commit of the memories, their bindings and the succeeded job, or of nothing
\* when the lease has expired meanwhile.
FinalizeCommit(w) ==
    LET r == worker[w].run
    IN  /\ InTx(w)
        /\ worker[w].todo = {}
        /\ \/ /\ job[r].live
              /\ job' = [job EXCEPT ![r] = Free(@, "succeeded", "none")]
              /\ memory' = Reused(w) \o Inserted(w)
           \/ /\ ~job[r].live
              /\ UNCHANGED <<job, memory>>
        /\ Leave(w)
        /\ UNCHANGED <<archive, erasure, staled, bounds>>

-----------------------------------------------------------------------------
(***************************************************************************)
(* Faults of a worker, and the rest of the system.                         *)
(***************************************************************************)

\* The process ends: its transaction rolls back, its gate and locks are free.
Crash(w) ==
    /\ worker[w].pc # "idle"
    /\ faults < MaxFaults
    /\ faults' = faults + 1
    /\ Leave(w)
    /\ UNCHANGED <<archive, job, memory, erasure, staled, drops, retires>>

\* The gate's own connection is lost; the coordinator does not notice.
GateDrop(w) ==
    /\ worker[w].gate
    /\ drops < MaxDrops
    /\ drops' = drops + 1
    /\ worker' = [worker EXCEPT ![w].gate = FALSE]
    /\ UNCHANGED <<archive, job, memory, erasure, staled, faults, retires>>

\* Mutant: the request does not wait for the workers in flight.
GateIgnored == TRUE

\* The exclusive gate is granted, and no transaction holds the project lock.
GateFree == \A w \in Workers : ~worker[w].gate

\* memory_item.subject_digests: the binder and bind_run_memory keep it equal to
\* the union over the runs of the memory.
MemorySubjects(i) == UNION {bound[r] : r \in memory[i].runs}

\* The runs of a request: those that carry the subject, and those bound to a
\* memory that carries it.
RunClosure(s) ==
    {r \in Runs :
        \/ s \in bound[r]
        \/ \E i \in DOMAIN memory :
              memory[i].state # "erased" /\ r \in memory[i].runs /\ s \in MemorySubjects(i)}

\* tracebed_request_erasure: the subject and the runs of its closure are fenced.
RequestErasure(s) ==
    /\ request = NONE
    /\ subject[s] = "live"
    /\ GateFree
    /\ \A w \in Workers : ~InTx(w)
    /\ request' = s
    /\ subject' = [subject EXCEPT ![s] = "fenced"]
    /\ \A r \in RunClosure(s) : fence[r] = "live"
    /\ fence' = [r \in Runs |-> IF r \in RunClosure(s) THEN "fenced" ELSE fence[r]]
    /\ UNCHANGED <<archive, job, memory, bound, worker, staled, bounds>>

\* Mutant: a memory that another run teaches too is kept.
MemoryClosureExclusive == {i \in DOMAIN memory : \A r \in memory[i].runs : fence[r] = "fenced"}

\* erase_mem_set: every memory bound to a run of the closure.
MemoryClosure == {i \in DOMAIN memory : \E r \in memory[i].runs : fence[r] = "fenced"}

\* The saga completes (module ErasureSaga): rows of the closure are gone.
CompleteErasure ==
    /\ request # NONE
    /\ request' = NONE
    /\ subject' = [subject EXCEPT ![request] = "erased"]
    /\ fence' = [r \in Runs |-> IF fence[r] = "fenced" THEN "erased" ELSE fence[r]]
    /\ job' = [r \in Runs |-> IF fence[r] = "fenced" THEN Free(job[r], "purged", "none")
                                                    ELSE job[r]]
    /\ memory' = [i \in DOMAIN memory |->
                    IF i \in MemoryClosure
                    THEN [memory[i] EXCEPT !.state = "erased"] ELSE memory[i]]
    /\ bound' = [r \in Runs |-> IF fence[r] = "fenced" THEN {} ELSE bound[r]]
    /\ UNCHANGED <<archive, worker, staled, bounds>>

\* tracebed_bind_run_subject_tags: a tag that arrives after the run was read.
\* During a request for it only this run joins the closure, with its memories.
Bind(r, s) ==
    /\ s \notin bound[r]
    /\ fence[r] = "live"
    /\ \A w \in Workers : ~(InTx(w) /\ worker[w].run = r)
    /\ \/ /\ request = NONE
          /\ subject[s] = "live"
          /\ UNCHANGED fence
       \/ /\ request = s
          /\ fence' = [fence EXCEPT ![r] = "fenced"]
    /\ bound' = [bound EXCEPT ![r] = @ \cup {s}]
    /\ UNCHANGED <<archive, job, memory, subject, request, worker, staled, bounds>>

\* A status change of the memory lifecycle (module MemoryLifecycle).
Retire(i) ==
    /\ memory[i].state \in Reusable
    /\ ~RowLocked(i)
    /\ RowsVisible
    /\ retires < MaxRetires
    /\ retires' = retires + 1
    /\ memory' = [memory EXCEPT ![i].state = "retired"]
    /\ UNCHANGED <<archive, job, erasure, worker, staled, faults, drops>>

Revive(i) ==
    /\ memory[i].state = "retired"
    /\ RowsVisible
    /\ memory' = [memory EXCEPT ![i].state = "revived"]
    /\ UNCHANGED <<archive, job, erasure, worker, staled, bounds>>

WorkerStep(w) ==
    \/ Claim(w) \/ AssertSnapshot(w) \/ Read(w) \/ FinalLease(w) \/ Retry(w)
    \/ FinalizeOther(w) \/ FinalizeBegin(w) \/ FinalizeCandidate(w) \/ FinalizeCommit(w)

Environment ==
    \/ \E w \in Workers : Heartbeat(w) \/ Crash(w) \/ GateDrop(w)
    \/ \E r \in Runs : Lapse(r) \/ LapseAbandoned(r)
    \/ \E s \in Subjects : RequestErasure(s)
    \/ CompleteErasure
    \/ \E r \in Runs, s \in Subjects : Bind(r, s)
    \/ \E i \in DOMAIN memory : Retire(i) \/ Revive(i)

Next == (\E w \in Workers : WorkerStep(w)) \/ Environment

Spec == Init /\ [][Next]_vars

\* The loops of the coordinators go on, and an abandoned lease expires.  No
\* fairness for CompleteErasure: a request may stay open (module ErasureSaga).
FairSpec ==
    /\ Spec
    /\ \A w \in Workers : WF_vars(WorkerStep(w))
    /\ \A r \in Runs : WF_vars(LapseAbandoned(r))

-----------------------------------------------------------------------------
(***************************************************************************)
(* Properties.                                                             *)
(***************************************************************************)

\* Two workers never both insert a candidate of the same content: the second
\* finds the first one's row and reuses it, unless that row has left the
\* reusable statuses (_persist_prepared_locked, _SEMANTIC_LOCK_SQL).
NoDuplicateCandidate ==
    \A i, j \in DOMAIN memory :
        i # j /\ memory[i].content = memory[j].content
            => "active" \notin {memory[i].state} \cap {memory[j].state}

\* A memory is bound to a run exactly when that run's job has succeeded: no
\* crash, lost lease or refused snapshot leaves a part of a result behind
\* (finalize_success is one transaction with the job row).
ResultIsAtomic ==
    \A r \in Runs :
        /\ job[r].state = "succeeded" =>
              \A c \in Plan[r] : \E i \in DOMAIN memory :
                  memory[i].content = c /\ r \in memory[i].runs
        /\ job[r].state \notin {"succeeded", "purged"} =>
              \A i \in DOMAIN memory : r \notin memory[i].runs

\* Once a run has been erased, because it carried the subject, shared a memory
\* with a run that did or was tagged during the request, nothing learned from it
\* is left or comes back, even when the activity gate was lost while a worker
\* went on: the finalizer repeats the durable snapshot in its own transaction.
ErasedRunsLeaveNothing ==
    \A r \in Runs, i \in DOMAIN memory :
        fence[r] = "erased" /\ r \in memory[i].runs => memory[i].state = "erased"

\* While the activity gate holds, an erasure request makes no other run's job
\* end as a corrupt archive: the request waits for the reads in flight, whose
\* index row it would hide (run_project_once holds the gate throughout).
HealthyNeverInvalid ==
    \A r \in Runs :
        job[r].code = "archive_invalid" => archive[r] = "corrupt" \/ drops > 0

\* As long as hashtext tells the contents apart, transactions that learn
\* overlapping sets of contents never wait for each other in a cycle: they take
\* the locks in the order of the content hashes, whatever the order of the keys
\* (_persist_prepared_locked sorts the candidates).
NoLockCycle ==
    (\A c, d \in Contents : HashText[c] = HashText[d] => c = d) =>
        \A v, w \in Workers :
            v # w /\ InTx(v) /\ InTx(w) =>
                ~ /\ worker[v].todo # {} /\ worker[w].todo # {}
                  /\ \A c \in NextContents(worker[v].todo) : HashText[c] \in HeldKeys(w)
                  /\ \A c \in NextContents(worker[w].todo) : HashText[c] \in HeldKeys(v)

\* A finished job is final: a worker whose lease lapsed cannot overwrite what
\* another worker recorded; only the erasure purge removes the row.
FinishedIsFinal ==
    [][\A r \in Runs : job[r].state \in Terminal => job'[r] = job[r] \/ job'[r].state = "purged"]_vars

\* Every job is finished or erased at last, whatever crashes, lapses, stale
\* snapshots and completed requests it meets, unless an erasure request stays
\* open for ever: it hides every job of the project (tracebed_erasure_read_allowed).
EventuallySettled ==
    <>[](request # NONE \/ \A r \in Runs : job[r].state \in Terminal \cup {"purged"})

\* A job whose last attempt was refused as stale is reclaimed by a worker and
\* not turned into a dead letter (comment in _run_project_once).
StalenessNeverDeadLetters ==
    \A r \in staled : job[r].state # "dead"
=============================================================================
