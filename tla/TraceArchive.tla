---------------------------- MODULE TraceArchive ----------------------------
(***************************************************************************)
(* The trace archive of one run: the trace writer that turns queued trace  *)
(* events into encrypted objects and a trace_index row, the sweep that     *)
(* gives up on runs without an end, and the strict reader through which    *)
(* trace learning sees a finished run.  Runs share nothing: the advisory   *)
(* lock, the row and the object keys are all per (project, run).           *)
(*                                                                         *)
(* The queue delivers at least once and in any order, and clients repost:  *)
(* any event may come at any time and any number of times, and two workers *)
(* may hold the same one.  A writer's transaction locks the run, puts one  *)
(* object, then commits the row; it settles its items only after the       *)
(* commit.  It may die, or its transaction may fail, between any two of    *)
(* these.                                                                  *)
(***************************************************************************)
EXTENDS Integers, Sequences, FiniteSets, Functions

CONSTANTS
    Workers,       \* trace writer processes
    MaxSeq,        \* bound: sequence numbers are 0..MaxSeq
    Statuses,      \* RUN_END_STATUSES: ok, error, cancelled
    Contents,      \* what distinguishes payloads: timestamps, features
    Authors,       \* principals that may post into the run
    Owner,         \* the run's owner, persisted when the run was opened
    Posts,         \* the sets of trace events the clients of a run may post
    NONE

Seqs == 0..MaxSeq

\* A _TraceQueueEnvelope; status is that of a run_end, NONE if it has no usable one.
Envelope ==
    [seq : Seqs, type : {"run_start", "event", "run_end"}, status : Statuses \cup {NONE},
     content : Contents, author : Authors]

ASSUME ConstantsAssumption ==
    /\ MaxSeq \in Nat
    /\ Posts \subseteq SUBSET Envelope
    /\ Owner \in Authors
    /\ Statuses \cap {"pending", "incomplete"} = {}
    /\ NONE \notin Seqs /\ NONE \notin Statuses /\ NONE \notin Contents

VARIABLES
    posted,       \* the trace events the clients of this run post
    row,          \* the run's trace_index row, NONE before the first batch
    objects,      \* the trace store: the events of the object put under first_seq
    job,          \* how many trace_learning_job rows were scheduled
    phase,        \* where each worker is in _process_group
    batch,        \* the envelopes it has claimed; after the commit, those to ACK
    fresh,        \* the envelopes in the object it has put and not committed
    found,        \* the sweep has read the run as lacking a sentinel
    fenced,       \* an erasure request covers the run
    acked         \* history: the envelopes acknowledged

vars == <<posted, row, objects, job, phase, batch, fresh, found, fenced, acked>>

\* trace_index; seen, endSeq, endStatus and refs are the keys of path.
Rows ==
    [outcome : Statuses \cup {"pending", "incomplete"}, seen : SUBSET Seqs,
     endSeq : Seqs \cup {NONE}, endStatus : Statuses \cup {NONE},
     endedAt : Contents \cup {NONE}, signature : Contents \cup {NONE},
     refs : Seq(Seqs), payloadRef : Seqs]

TypeOK ==
    /\ posted \in Posts
    /\ row = NONE \/ row \in Rows
    /\ objects \in [Seqs -> {NONE} \cup SUBSET posted]
    /\ job \in 0..1
    /\ phase \in [Workers -> {"idle", "claimed", "writing", "settling"}]
    /\ batch \in [Workers -> SUBSET posted]
    /\ fresh \in [Workers -> SUBSET posted]
    /\ found \in BOOLEAN
    /\ fenced \in BOOLEAN
    /\ acked \subseteq posted

Init ==
    /\ posted \in Posts
    /\ row = NONE
    /\ objects = [s \in Seqs |-> NONE]
    /\ job = 0
    /\ phase = [w \in Workers |-> "idle"]
    /\ batch = [w \in Workers |-> {}]
    /\ fresh = [w \in Workers |-> {}]
    /\ found = FALSE
    /\ fenced = FALSE
    /\ acked = {}

-----------------------------------------------------------------------------
Terminal(r) == r # NONE /\ r.outcome \in Statuses
Seen(r) == IF r = NONE THEN {} ELSE r.seen
EndSeq(r) == IF r = NONE THEN NONE ELSE r.endSeq

Ends(E) == {e \in E : e.type = "run_end"}
SeqsOf(E) == {e.seq : e \in E}
Least(S) == CHOOSE s \in S : \A t \in S : s <= t

\* _process_group's owner check; v1 rows carry the owner they were enqueued with.
Accepted(B) == {e \in B : e.author = Owner}

(***************************************************************************)
(* _admit_nonterminal_events: the envelopes a batch may record.            *)
(***************************************************************************)
\* Mutant: the first end in the batch is taken although another one disagrees.
AdmitAnyEnd(r, A) ==
    IF Ends(A) = {} THEN A
    ELSE LET end == CHOOSE e \in Ends(A) : TRUE
         IN  {e \in A : e.seq < end.seq} \cup {end}

Admit(r, A) ==
    IF EndSeq(r) # NONE
    THEN {e \in A : /\ e.seq <= r.endSeq
                    /\ e.type = "run_end" => e.seq = r.endSeq /\ e.status = r.endStatus}
    ELSE IF Ends(A) = {} THEN A
    ELSE IF Cardinality(Ends(A)) > 1 THEN A \ Ends(A)
    ELSE LET end == CHOOSE e \in Ends(A) : TRUE
         IN  IF \E s \in Seen(r) : s > end.seq
             THEN {e \in A \ Ends(A) : e.seq <= end.seq}
             ELSE {e \in A : e.seq < end.seq} \cup {end}

\* What _process_group ACKs: everything seen once the archive is terminal.
Allowed(r, B) ==
    IF Terminal(r)
    THEN {e \in Accepted(B) : e.seq \in r.seen}
    ELSE Admit(r, Accepted(B))

\* _write_batch: of several envelopes with one seq the first one delivered wins.
OnePerSeq(E) == {N \in SUBSET E : \A s \in SeqsOf(E) : Cardinality({e \in N : e.seq = s}) = 1}

New(r, B) == IF Terminal(r) THEN {} ELSE {e \in Allowed(r, B) : e.seq \notin Seen(r)}

(***************************************************************************)
(* _resolve_completeness, over the cumulative set of sequence numbers.     *)
(***************************************************************************)
\* Mutant: the gap test is off by one.
CompleteOffByOne(seen, end) == Cardinality({s \in seen : s <= end}) >= end

Complete(seen, end) == Cardinality({s \in seen : s <= end}) = end + 1

Outcome(seen, endSeq, endStatus) ==
    IF endSeq = NONE THEN "pending"
    ELSE IF endStatus = NONE \/ ~Complete(seen, endSeq) THEN "incomplete"
    ELSE endStatus

\* The row _write_batch submits for the new envelopes N.
Submitted(r, N) ==
    LET ends   == IF EndSeq(r) = NONE THEN Ends(N) ELSE {}
        starts == {e \in N : e.type = "run_start"}
        start  == CHOOSE e \in starts : e.seq = Least(SeqsOf(starts))
        end    == CHOOSE e \in ends : TRUE
        seen   == Seen(r) \cup SeqsOf(N)
        endSeq == IF ends # {} THEN end.seq ELSE EndSeq(r)
        endStatus == IF ends # {} THEN end.status
                     ELSE IF r = NONE THEN NONE ELSE r.endStatus
    IN  [outcome    |-> Outcome(seen, endSeq, endStatus),
         seen       |-> seen,
         endSeq     |-> endSeq,
         endStatus  |-> endStatus,
         endedAt    |-> IF ends # {} THEN end.content ELSE NONE,
         signature  |-> IF starts # {} THEN start.content
                        ELSE IF r = NONE THEN NONE ELSE r.signature,
         refs       |-> (IF r = NONE THEN <<>> ELSE r.refs) \o <<Least(SeqsOf(N))>>,
         payloadRef |-> Least(SeqsOf(N))]

\* The outcome_status rule of the upsert: pending never undoes what is known.
MergedOutcome(r, new) == IF new.outcome = "pending" THEN r.outcome ELSE new.outcome

\* The absent signature is replaced once, a real one never.
MergedSignature(r, new) == IF r.signature = NONE THEN new.signature ELSE r.signature

\* _TRACE_INDEX_UPSERT_TEMPLATE: the INSERT and the ON CONFLICT merge.
Merged(r, new) ==
    IF r = NONE THEN new
    ELSE [new EXCEPT !.outcome    = MergedOutcome(r, new),
                     !.endedAt    = IF new.endedAt = NONE THEN r.endedAt ELSE new.endedAt,
                     !.signature  = MergedSignature(r, new),
                     !.payloadRef = r.payloadRef]

-----------------------------------------------------------------------------
\* run_once: the queue hands a worker some of the run's rows.
Claim(w, B) ==
    /\ phase[w] = "idle"
    /\ ~fenced
    /\ B # {}
    /\ phase' = [phase EXCEPT ![w] = "claimed"]
    /\ batch' = [batch EXCEPT ![w] = B]
    /\ UNCHANGED <<posted, row, objects, job, fresh, found, fenced, acked>>

\* Mutant: the run is not locked.
LockedNever == FALSE

\* get_trace_index(for_update=True): the run's advisory lock, held to the commit.
Locked == \E v \in Workers : phase[v] = "writing"

\* Mutant: the erasure fence is not asked.
SnapshotUnchecked == TRUE

\* lock_erasure_snapshot: no erasure fences the run, and none can until the commit.
SnapshotLocked == ~fenced

(***************************************************************************)
(* _process_group up to and including TraceStorePort.put: one object,      *)
(* under a key made of the lowest sequence number in it.                   *)
(***************************************************************************)
Put(w) ==
    /\ phase[w] = "claimed"
    /\ ~Locked
    /\ SnapshotLocked
    /\ \E N \in OnePerSeq(New(row, batch[w])) :
           /\ fresh' = [fresh EXCEPT ![w] = N]
           /\ objects' = IF N = {} THEN objects
                         ELSE [objects EXCEPT ![Least(SeqsOf(N))] = N]
    /\ phase' = [phase EXCEPT ![w] = "writing"]
    /\ UNCHANGED <<posted, row, job, batch, found, fenced, acked>>

\* Mutant: the learning job is scheduled on every batch that ends a run.
SchedulesAnyEnd(r, new) == new.endSeq # NONE

\* The outbox condition of _write_batch.
Schedules(r, new) == Terminal(new) /\ ~Terminal(r)

(***************************************************************************)
(* The rest of _write_batch and the commit: the row and, with it, the      *)
(* learning job of a run that has just become terminal.                    *)
(***************************************************************************)
Commit(w) ==
    LET new == Merged(row, Submitted(row, fresh[w])) IN
    /\ phase[w] = "writing"
    /\ IF fresh[w] = {}
       THEN UNCHANGED <<row, job>>
       ELSE row' = new /\ job' = (IF Schedules(row, new) THEN job + 1 ELSE job)
    /\ phase' = [phase EXCEPT ![w] = "settling"]
    /\ batch' = [batch EXCEPT ![w] = Allowed(row, @)]
    /\ fresh' = [fresh EXCEPT ![w] = {}]
    /\ UNCHANGED <<posted, objects, found, fenced, acked>>

(***************************************************************************)
(* The settlements after the commit: what was allowed is ACKed, the rest   *)
(* rejected.  Only those whose claim is still current go through, none     *)
(* once an erasure fences the run, and the worker may die before it has    *)
(* made them all: D are the ACKs that go through.                          *)
(***************************************************************************)
Settle(w, D) ==
    /\ phase[w] = "settling"
    /\ fenced => D = {}
    /\ acked' = acked \cup D
    /\ phase' = [phase EXCEPT ![w] = "idle"]
    /\ batch' = [batch EXCEPT ![w] = {}]
    /\ UNCHANGED <<posted, row, objects, job, fresh, found, fenced>>

\* The worker dies, or the transaction fails and the items are NACKed.
Abort(w) ==
    /\ phase[w] \in {"claimed", "writing"}
    /\ phase' = [phase EXCEPT ![w] = "idle"]
    /\ batch' = [batch EXCEPT ![w] = {}]
    /\ fresh' = [fresh EXCEPT ![w] = {}]
    /\ UNCHANGED <<posted, row, objects, job, found, fenced, acked>>

-----------------------------------------------------------------------------
(***************************************************************************)
(* sweep_incomplete: it reads the runs that lack a sentinel and are old    *)
(* enough (how old is left open) in one transaction and marks each of them *)
(* in another.                                                             *)
(***************************************************************************)
FindMissingSentinel ==
    /\ row # NONE /\ row.outcome = "pending"
    /\ ~found
    /\ found' = TRUE
    /\ UNCHANGED <<posted, row, objects, job, phase, batch, fresh, fenced, acked>>

\* Mutant: the mark trusts what the sweep read earlier.
MarkableAsFound == row # NONE

\* The outcome_status predicate of mark_run_incomplete's UPDATE.
Markable == row # NONE /\ row.outcome = "pending"

MarkRunIncomplete ==
    /\ found
    /\ ~Locked
    /\ found' = FALSE
    /\ row' = IF Markable THEN [row EXCEPT !.outcome = "incomplete"] ELSE row
    /\ UNCHANGED <<posted, objects, job, phase, batch, fresh, fenced, acked>>

\* tracebed_request_erasure: it waits for the writer's transaction.
Fence ==
    /\ ~fenced
    /\ ~Locked
    /\ fenced' = TRUE
    /\ UNCHANGED <<posted, row, objects, job, phase, batch, fresh, found, acked>>

Next ==
    \/ \E w \in Workers : \E B \in SUBSET posted : Claim(w, B)
    \/ \E w \in Workers : Put(w) \/ Commit(w) \/ Abort(w)
    \/ \E w \in Workers : \E D \in SUBSET batch[w] : Settle(w, D)
    \/ FindMissingSentinel
    \/ MarkRunIncomplete
    \/ Fence

Spec == Init /\ [][Next]_vars

-----------------------------------------------------------------------------
(***************************************************************************)
(* TraceArchiveReader.read_complete.                                       *)
(***************************************************************************)
\* _strict_index_path: one closed range from 0, distinct refs, the first one primary.
StrictIndexPath(r) ==
    /\ r.endSeq # NONE /\ r.endStatus # NONE
    /\ r.seen = 0..r.endSeq
    /\ r.refs # <<>> /\ IsInjective(r.refs)
    /\ r.payloadRef = r.refs[1]

\* _read_objects before it asks the store: no more refs than numbers, none above the end.
RefsBound(r) == Len(r.refs) <= r.endSeq + 1 /\ \A f \in Range(r.refs) : f <= r.endSeq

\* The store has every object.
ObjectsFound(r) == \A f \in Range(r.refs) : objects[f] # NONE

\* _validate_header: every object starts at its ref.
HeadersBound(r) == \A f \in Range(r.refs) : Least(SeqsOf(objects[f])) = f

\* The events of all objects; a sequence number in two of them is refused.
Decoded(r) == UNION {objects[f] : f \in Range(r.refs)}

NoSeqTwice(r) ==
    \A f, g \in Range(r.refs) : \A e \in objects[f], d \in objects[g] :
        e.seq = d.seq => e = d /\ f = g

\* What is checked once every section is decrypted.
EventsComplete(r) ==
    /\ SeqsOf(Decoded(r)) = 0..r.endSeq
    /\ \E end \in Decoded(r) :
           /\ Ends(Decoded(r)) = {end}
           /\ end.seq = r.endSeq
           /\ end.status = r.endStatus /\ r.endStatus = r.outcome
           /\ end.content = r.endedAt

(***************************************************************************)
(* The disposition: archived, or a TraceArchiveReadError; tombstoned: the  *)
(* key of a subject of the run is destroyed.  The database and the object  *)
(* store answer, so the retries of an outage are left out; so are the      *)
(* values a caller may expect (a digest, an ended_at), and the ciphers and *)
(* envelope versions, of which the objects here have one.                  *)
(***************************************************************************)
ReadComplete(r, tombstoned) ==
    IF ~(Terminal(r) /\ r.endedAt # NONE /\ StrictIndexPath(r) /\ RefsBound(r)) THEN "dead"
    ELSE IF ~ObjectsFound(r) THEN "retry"
    ELSE IF ~(HeadersBound(r) /\ NoSeqTwice(r)) THEN "dead"
    ELSE IF tombstoned THEN "privacy_skip"
    ELSE IF ~EventsComplete(r) THEN "dead"
    ELSE "archived"

-----------------------------------------------------------------------------
(***************************************************************************)
(* What the writer closes the reader accepts: however batches were cut,    *)
(* repeated, reordered and interrupted, a run whose row says ok, error or  *)
(* cancelled reads back as one valid archive or, when a key of it has been *)
(* destroyed, as a privacy skip: never as a defect.                        *)
(***************************************************************************)
TerminalArchiveReadable ==
    Terminal(row) =>
        /\ ReadComplete(row, FALSE) = "archived"
        /\ ReadComplete(row, TRUE) = "privacy_skip"

(***************************************************************************)
(* "A truncated trace must never look like a clean ok", and a hole that is *)
(* filled promotes the run: the outcome is the sentinel's status exactly   *)
(* when the sentinel and everything below it are recorded, whatever the    *)
(* sweep did in between; and the outbox holds one learning job for a       *)
(* terminal run and none for any other.                                    *)
(***************************************************************************)
OutcomeExact ==
    /\ row # NONE =>
           (Terminal(row) <=> /\ row.endSeq # NONE /\ row.endStatus # NONE
                              /\ row.seen = 0..row.endSeq)
    /\ job = (IF Terminal(row) THEN 1 ELSE 0)

(***************************************************************************)
(* Nothing acknowledged is lost: the sequence number of every ACKed event  *)
(* is in an object the row refers to; and the objects referred to hold     *)
(* exactly the numbers the row counts, each once, although an interrupted  *)
(* batch may have left an object under the same key before.                *)
(***************************************************************************)
AckedIsArchived ==
    /\ acked # {} => row # NONE /\ SeqsOf(acked) \subseteq row.seen
    /\ row # NONE =>
           /\ ObjectsFound(row)
           /\ SeqsOf(Decoded(row)) = row.seen
           /\ NoSeqTwice(row)

\* A terminal archive is frozen: no redelivery changes its row or its objects.
TerminalFrozen ==
    [][Terminal(row) =>
          row' = row /\ \A f \in Range(row.refs) : objects'[f] = objects[f]]_vars

\* Once an erasure fences the run, no worker puts an object or records an event.
NothingWrittenBehindFence ==
    [][fenced => objects' = objects /\ Seen(row') = Seen(row)]_vars

\* "A non-end that arrived first at the same sequence as a run_end must not
\* shadow the sentinel and leave a silently pending run": an acknowledged
\* run_end left a sentinel.
AckedEndLeavesSentinel == Ends(acked) # {} => EndSeq(row) # NONE
=============================================================================
