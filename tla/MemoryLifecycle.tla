-------------------------- MODULE MemoryLifecycle --------------------------
(***************************************************************************)
(* The life of a memory: the table of transitions and the guards on them,  *)
(* and the passes that drive rows along it.  A pass selects rows, judges   *)
(* the snapshot it took with apply(), and persists what apply() answered   *)
(* with an UPDATE that matches the row only while it is still on the       *)
(* status the snapshot showed.  Between the select and the UPDATE other    *)
(* passes and operators write the same rows: periodic passes overlap and   *)
(* the ActivityGate they hold is shared.  A pass whose UPDATE matches no   *)
(* row raises, which abandons the rest of its rows.                        *)
(***************************************************************************)
EXTENDS Integers, FiniteSets, FiniteSetsExt

CONSTANTS
    Memories,          \* memory ids, ordered as ORDER BY id orders them
    Origins,           \* [Memories -> the runs its provenance names]
    Runs,              \* run ids
    LateRuns,          \* the runs whose trace_index row may not be there yet
    Principal,         \* [Runs -> trace_index.submitter_principal]
    Cluster,           \* [Runs -> input-signature cluster, Absent when none was recorded]
    Absent,
    Passes,            \* [Workers -> the kinds of pass it runs]
    Workers,           \* threads and processes that run passes concurrently
    QuarantineTtl,     \* lifecycle.quarantine_ttl_days
    CandidateTtl,      \* lifecycle.candidate_ttl_days
    RevalidationAge,   \* lifecycle.revalidation_age_days
    FloorAge,          \* idle time after which the decay curve is at archive_floor
    MaxConfirmations,  \* MAX_CONFIRMATIONS_CONSIDERED
    MaxTime            \* bound: the clock stops here

Statuses == {"quarantined", "candidate", "validated", "stale", "superseded",
             "archived", "retired", "pinned", "tombstoned"}
Retrievable == {"validated", "candidate", "pinned"}
Classes == {"parser", "distiller", "human_verdict", "proposal", "operator"}
Sweeps == {"quarantine_ttl", "candidate_ttl", "decay"}
Kinds == Sweeps \cup {"corroborate", "shadow", "promote", "retire", "revalidate",
                      "invalidate", "merge", "edit", "contain", "unpin"}

ASSUME ConstantsAssumption ==
    /\ Memories \subseteq Nat /\ IsFiniteSet(Memories)
    /\ Origins \in [Memories -> SUBSET Runs] /\ LateRuns \subseteq Runs
    /\ Passes \in [Workers -> SUBSET Kinds]
    /\ {QuarantineTtl, CandidateTtl, RevalidationAge, FloorAge} \subseteq Nat \ {0}
    /\ MaxConfirmations \in Nat /\ MaxTime \in Nat

VARIABLES
    memory,            \* memory_item: the rows, by id; "none" before the insert
    fenced,            \* ids an erasure request has fenced
    review,            \* ids with an open review_queue item
    indexed,           \* runs with a trace_index row
    clock,             \* Clock.now()
    job                \* the pass each worker is in

vars == <<memory, fenced, review, indexed, clock, job>>

\* The rows before any is inserted.
NoRow == [status |-> "none", class |-> "none", changedAt |-> 0, createdAt |-> 0,
          strikes |-> 0, confirms |-> {}]

Rows == [status : Statuses \cup {"none"}, class : Classes \cup {"none"},
         changedAt : 0..MaxTime, createdAt : 0..MaxTime, strikes : 0..2, confirms : SUBSET Runs]

\* No pass under way.
Idle == [kind |-> "idle", snap |-> <<>>, left |-> {}, at |-> 0]

TypeOK ==
    /\ memory \in [Memories -> Rows]
    /\ fenced \subseteq Memories /\ review \subseteq Memories /\ indexed \subseteq Runs
    /\ clock \in 0..MaxTime
    /\ \A w \in Workers :
        /\ job[w].kind \in Passes[w] \cup {"idle"} \cup (IF Passes[w] \cap Sweeps = {} THEN {} ELSE Sweeps)
        /\ job[w].left \subseteq DOMAIN job[w].snap
        /\ DOMAIN job[w].snap \subseteq Memories
        /\ \A m \in DOMAIN job[w].snap : job[w].snap[m] \in Rows
        /\ job[w].at \in 0..clock

Init ==
    /\ memory = [m \in Memories |-> NoRow]
    /\ fenced = {} /\ review = {} /\ indexed = Runs \ LateRuns /\ clock = 0
    /\ job = [w \in Workers |-> Idle]

-----------------------------------------------------------------------------
(* The state machine. *)

\* TRANSITIONS: the edges.  The guard of each is applied by the pass that takes it.
Transitions ==
    {<<"none", "candidate">>, <<"none", "quarantined">>, <<"none", "pinned">>,
     <<"quarantined", "candidate">>, <<"quarantined", "archived">>,
     <<"candidate", "validated">>, <<"candidate", "quarantined">>, <<"candidate", "archived">>,
     <<"validated", "superseded">>, <<"validated", "stale">>,
     <<"validated", "archived">>, <<"validated", "retired">>,
     <<"stale", "validated">>, <<"stale", "retired">>, <<"archived", "validated">>}
    \cup {<<s, "tombstoned">> : s \in Statuses \ {"tombstoned"}}

\* independent_of: two observations that cannot be one.
Independent(r, s) ==
    /\ r # s
    /\ Principal[r] # Principal[s]
    /\ Cluster[r] # Cluster[s]


\* _resolve_confirmations: the recorded runs that count, none of them an origin
\* of the memory nor correlated with one.  A run without an index row confirms
\* nothing, and an origin without one disqualifies nothing but itself.
Confirmations(m, row) ==
    IF row.class = "proposal" THEN {}
    ELSE {r \in (row.confirms \ Origins[m]) \cap indexed :
            /\ Cluster[r] # Absent
            /\ \A o \in Origins[m] \cap indexed : Cluster[o] # Absent /\ Independent(r, o)}

\* independent_confirmations: a set of pairwise independent runs of the size
\* required, two; the store hands the relaxation for failure lessons to no row.
Corroborated(rs) == \E r, s \in rs : Independent(r, s)

\* _guard_quarantined_to_candidate.
ExitsQuarantine(m, row) == row.class # "proposal" /\ Corroborated(Confirmations(m, row))

\* A TTL that ends a day early.
ExpiredEarly(row, ttl, now) == now - row.changedAt >= ttl - 1

\* _guard_ttl_expired.
Expired(row, ttl, now) == now - row.changedAt >= ttl

\* is_due_for_revalidation.
Due(row, now) ==
    \/ row.status = "stale" /\ now > row.changedAt
    \/ row.status = "validated" /\ now - row.createdAt >= RevalidationAge

-----------------------------------------------------------------------------
(* Creation, and what passes do to the store. *)

\* Creation that takes a proposal for a parsed row.
CreatedAsTrusted(class) ==
    CASE class \in {"parser", "proposal"} -> "candidate"
      [] class = "operator" -> "pinned"
      [] class \in {"distiller", "human_verdict"} -> "quarantined"

\* What the writers insert.  The extractors, the distiller, propose_memory and
\* the operator's pin ask apply() for a status first, whose guards on creation
\* give this; no writer makes a human verdict, which the insert takes on quarantined.
CreatedAs(class) ==
    CASE class = "parser" -> "candidate"
      [] class = "operator" -> "pinned"
      [] class \in {"distiller", "human_verdict", "proposal"} -> "quarantined"

\* insert_memory_item, which itself checks only that the status is one of creation.
Create(m) ==
    /\ memory[m].status = "none" /\ m \notin fenced
    /\ \E class \in Classes :
        memory' = [memory EXCEPT ![m] = [NoRow EXCEPT
            !.status = CreatedAs(class), !.class = class, !.changedAt = clock, !.createdAt = clock]]
    /\ UNCHANGED <<fenced, review, indexed, clock, job>>

\* The statuses a pass selects.
Selected(kind) ==
    CASE kind \in {"corroborate", "shadow", "quarantine_ttl"} -> {"quarantined"}
      [] kind \in {"promote", "candidate_ttl"} -> {"candidate"}
      [] kind \in {"retire", "decay", "merge", "edit"} -> {"validated"}
      [] kind = "revalidate" -> {"validated", "stale"}
      [] kind = "unpin" -> {"pinned"}
      [] kind = "contain" -> Statuses
      [] kind = "invalidate" -> {"validated"}

\* Passes that are called with the rows they are about, and how many those are:
\* an operator names them, an event selects the dependents of what changed.
Called == {"merge", "edit", "contain", "unpin", "invalidate"}
Named(kind, ms) ==
    CASE kind \in {"edit", "contain", "unpin"} -> Cardinality(ms) = 1
      [] kind = "merge" -> Cardinality(ms) >= 2
      [] kind = "invalidate" -> ms # {}

\* The rows a select returns now.
Selection(kind) ==
    {m \in Memories \ fenced :
        memory[m].status \in Selected(kind) /\ (kind = "revalidate" => Due(memory[m], clock))}

\* What a pass reads of a row: only two of them read the confirming runs, and
\* only the revalidation reads the strikes.
Projected(kind, row) ==
    [row EXCEPT !.confirms = IF kind \in {"corroborate", "shadow"} THEN @ ELSE {},
                !.strikes = IF kind = "revalidate" THEN @ ELSE 0]

\* The pass with the rows ms in its hands; it returns when it has none and is
\* not a sweep that another follows.
Holding(kind, ms) ==
    IF ms = {} /\ kind \notin {"quarantine_ttl", "candidate_ttl"} THEN Idle
    ELSE [kind |-> kind, snap |-> [m \in ms |-> Projected(kind, memory[m])], left |-> ms, at |-> clock]

\* A pass starts: it reads the clock and selects.  merge and edit that name a
\* row on another status are refused by apply() and write nothing.
Start(w) ==
    /\ job[w] = Idle
    /\ \E kind \in Passes[w] \ {"candidate_ttl", "decay"} :
        \E ms \in SUBSET Selection(kind) :
            /\ IF kind \in Called THEN Named(kind, ms) ELSE ms = Selection(kind)
            /\ job' = [job EXCEPT ![w] = Holding(kind, ms)]
    /\ UNCHANGED <<memory, fenced, review, indexed, clock>>

\* The sweep that run_all_sweeps runs after this one.
Following(kind) == IF kind = "quarantine_ttl" THEN "candidate_ttl" ELSE "decay"

\* A sweep has no row left: run_all_sweeps goes on to its next one.
NextSweep(w) ==
    /\ job[w].left = {} /\ job[w].kind \in {"quarantine_ttl", "candidate_ttl"}
    /\ LET kind == Following(job[w].kind) IN
        job' = [job EXCEPT ![w] = Holding(kind, Selection(kind))]
    /\ UNCHANGED <<memory, fenced, review, indexed, clock>>

\* The row the pass is at.
At(w) == Min(job[w].left)

\* The pass is of this kind and is at row m.
Judging(w, kind, m) == job[w].kind = kind /\ job[w].left # {} /\ m = At(w)

\* The pass is done with row m.
Advance(w, m) ==
    job' = [job EXCEPT ![w] =
        IF job[w].left = {m} /\ job[w].kind \notin {"quarantine_ttl", "candidate_ttl"} THEN Idle
        ELSE [@ EXCEPT !.left = @ \ {m}]]

\* An exception: the pass is abandoned with its rows.
Raise(w) == job' = [job EXCEPT ![w] = Idle] /\ UNCHANGED memory

\* An UPDATE without the status predicate.
MatchesById(m, row) == m \notin fenced

\* An UPDATE without the fence.
MatchesUnfenced(m, row) == memory[m].status = row.status

\* The row is as the UPDATE's WHERE clause and the write guard require.
Matches(m, row) == memory[m].status = row.status /\ m \notin fenced

\* persist and persist_status: one UPDATE, guarded by the status the pass read.
Persist(w, m, to, strikes, now) ==
    IF Matches(m, job[w].snap[m])
    THEN /\ memory' = [memory EXCEPT ![m] = [@ EXCEPT
                !.status = to,
                !.changedAt = IF to = job[w].snap[m].status THEN @ ELSE now,
                !.strikes = strikes]]
         /\ Advance(w, m)
    ELSE Raise(w)

\* apply() refuses with GuardNotSatisfied, which the pass takes as "not yet".
Refused(w, m) == Advance(w, m) /\ UNCHANGED memory

\* When a pass reads the clock again for each row, it reads some time since the select.
Since(w) == job[w].at..clock

-----------------------------------------------------------------------------
(* The passes, a row at a time. *)

\* CorroborationWriter.record_one with a run the source offers; the append
\* locks the row and reads it again.
Corroborate(w, m) ==
    /\ Judging(w, "corroborate", m)
    /\ LET row == job[w].snap[m] IN
        \/ /\ Cardinality(row.confirms) < MaxConfirmations
           /\ Matches(m, row)
           /\ \E r \in Runs \ (Origins[m] \cup row.confirms) :
                /\ memory' = [memory EXCEPT ![m].confirms = @ \cup {r}]
                /\ job' = [job EXCEPT ![w].snap[m].confirms = @ \cup {r}]
        \/ Refused(w, m)
    /\ UNCHANGED <<fenced, review, indexed, clock>>

\* ShadowValidator.evaluate_one.
ShadowValidate(w, m) ==
    /\ Judging(w, "shadow", m)
    /\ LET row == job[w].snap[m] IN
        IF ExitsQuarantine(m, row)
        THEN \E now \in Since(w) : Persist(w, m, "candidate", memory[m].strikes, now)
        ELSE Refused(w, m)
    /\ UNCHANGED <<fenced, review, indexed, clock>>

\* evaluate_candidate: outcomes, principals, consistency and the second scan
\* earn the promotion or do not.
Promote(w, m) ==
    /\ Judging(w, "promote", m)
    /\ \/ \E now \in Since(w) : Persist(w, m, "validated", memory[m].strikes, now)
       \/ Refused(w, m)
    /\ UNCHANGED <<fenced, review, indexed, clock>>

\* evaluate_retirement: a low Q with too few principals goes to review instead.
RetireByScore(w, m) ==
    /\ Judging(w, "retire", m)
    /\ \/ /\ \E now \in Since(w) : Persist(w, m, "retired", memory[m].strikes, now)
          /\ UNCHANGED review
       \/ Refused(w, m) /\ review' = review \cup {m}
       \/ Refused(w, m) /\ UNCHANGED review
    /\ UNCHANGED <<fenced, indexed, clock>>

\* check_validated: a verified row is touched, one that fails goes stale on strike one.
CheckValidated(w, m) ==
    /\ Judging(w, "revalidate", m) /\ job[w].snap[m].status = "validated"
    /\ \E now \in Since(w) : \/ Persist(w, m, "validated", memory[m].strikes, now)
                            \/ Persist(w, m, "stale", 1, now)
    /\ UNCHANGED <<fenced, review, indexed, clock>>

\* A check_stale that counts every failure on the stale row instead of retiring it.
CheckStaleCounting(w, m) ==
    /\ Judging(w, "revalidate", m) /\ job[w].snap[m].status = "stale"
    /\ \E now \in Since(w) : \/ Persist(w, m, "validated", 0, now)
                            \/ Persist(w, m, "stale", job[w].snap[m].strikes + 1, now)
    /\ UNCHANGED <<fenced, review, indexed, clock>>

\* check_stale: a verified row recovers, one that fails is retired if that is
\* its second strike; on its first apply() refuses and the batch raises.
CheckStale(w, m) ==
    /\ Judging(w, "revalidate", m) /\ job[w].snap[m].status = "stale"
    /\ LET strike == job[w].snap[m].strikes + 1 IN
        \E now \in Since(w) :
            \/ Persist(w, m, "validated", 0, now)
            \/ strike >= 2 /\ Persist(w, m, "retired", strike, now)
            \/ strike < 2 /\ Raise(w)
    /\ UNCHANGED <<fenced, review, indexed, clock>>

\* Invalidator._process_event on a dependent of the thing that changed.
Invalidate(w, m) ==
    /\ Judging(w, "invalidate", m)
    /\ \E now \in Since(w) : Persist(w, m, "stale", 1, now)
    /\ UNCHANGED <<fenced, review, indexed, clock>>

\* _sweep_ttl over the quarantined, then over the candidates.
SweepTtl(w, m) ==
    /\ \E kind \in {"quarantine_ttl", "candidate_ttl"} :
        /\ Judging(w, kind, m)
        /\ IF Expired(job[w].snap[m], IF kind = "quarantine_ttl" THEN QuarantineTtl ELSE CandidateTtl,
                      job[w].at)
           THEN Persist(w, m, "archived", memory[m].strikes, job[w].at)
           ELSE Refused(w, m)
    /\ UNCHANGED <<fenced, review, indexed, clock>>

\* decay_sweep: a row idle for long enough is archived; one that is idle but
\* above the floor has its Q lowered in place, under the same guard.
Decay(w, m) ==
    /\ Judging(w, "decay", m)
    /\ IF job[w].at - job[w].snap[m].createdAt >= FloorAge
       THEN Persist(w, m, "archived", memory[m].strikes, job[w].at)
       ELSE \/ Persist(w, m, "validated", memory[m].strikes, job[w].at)
            \/ Refused(w, m)
    /\ UNCHANGED <<fenced, review, indexed, clock>>

\* EditOps.merge and operator_edit: the rows named are superseded.
Supersede(w, m) ==
    /\ Judging(w, "merge", m) \/ Judging(w, "edit", m)
    /\ Persist(w, m, "superseded", memory[m].strikes, job[w].at)
    /\ UNCHANGED <<fenced, review, indexed, clock>>

\* The nearest edge out of the retrievable statuses.
Contained(status) ==
    CASE status = "candidate" -> "quarantined"
      [] status = "validated" -> "stale"
      [] status = "pinned" -> "tombstoned"

\* recall_and_rollback: _contain writes nothing on a row that is contained
\* already, then the review row is filed, unless a fence refuses either write.
Contain(w, m) ==
    /\ Judging(w, "contain", m)
    /\ LET row == job[w].snap[m] IN
        \/ /\ row.status \in Retrievable
           /\ Persist(w, m, Contained(row.status), memory[m].strikes, job[w].at)
           /\ review' = IF Matches(m, row) THEN review \cup {m} ELSE review
        \/ /\ row.status \notin Retrievable /\ m \notin fenced
           /\ Refused(w, m)
           /\ review' = review \cup {m}
        \/ /\ row.status \notin Retrievable /\ m \in fenced
           /\ Raise(w)
           /\ UNCHANGED review
    /\ UNCHANGED <<fenced, indexed, clock>>

\* PreferenceManager.unpin.
Unpin(w, m) ==
    /\ Judging(w, "unpin", m)
    /\ Persist(w, m, "tombstoned", memory[m].strikes, job[w].at)
    /\ UNCHANGED <<fenced, review, indexed, clock>>

-----------------------------------------------------------------------------
\* The first batch of a run is archived, which inserts its trace_index row.
IndexRun(r) ==
    /\ r \notin indexed
    /\ indexed' = indexed \cup {r}
    /\ UNCHANGED <<memory, fenced, review, clock, job>>

\* An erasure request commits its fence over a memory.
Fence(m) ==
    /\ m \notin fenced
    /\ fenced' = fenced \cup {m}
    /\ UNCHANGED <<memory, review, indexed, clock, job>>

Tick ==
    /\ clock < MaxTime
    /\ clock' = clock + 1
    /\ UNCHANGED <<memory, fenced, review, indexed, job>>

Next ==
    \/ \E m \in Memories : Create(m) \/ Fence(m)
    \/ \E r \in LateRuns : IndexRun(r)
    \/ Tick
    \/ \E w \in Workers : Start(w) \/ NextSweep(w)
    \/ \E w \in Workers, m \in Memories :
        \/ Corroborate(w, m) \/ ShadowValidate(w, m) \/ Promote(w, m)
        \/ RetireByScore(w, m) \/ CheckValidated(w, m) \/ CheckStale(w, m)
        \/ Invalidate(w, m) \/ SweepTtl(w, m) \/ Decay(w, m)
        \/ Supersede(w, m) \/ Contain(w, m) \/ Unpin(w, m)

Spec == Init /\ [][Next]_vars

-----------------------------------------------------------------------------
(* Properties. *)

\* Whatever passes race on a row, its status only ever moves along an edge of
\* TRANSITIONS: a judgement made on a status the row has since left is not
\* written over the newer one (the status predicate of persist and persist_status).
EdgesLegal ==
    [][\A m \in Memories :
        memory'[m].status # memory[m].status =>
            <<memory[m].status, memory'[m].status>> \in Transitions]_vars


\* A proposal never becomes retrievable, by whatever sequence of passes (D-023).
ProposalNeverRetrievable ==
    \A m \in Memories : memory[m].class = "proposal" => memory[m].status \notin Retrievable

\* After an erasure request fenced a memory no pass changes it, also when the
\* pass selected the row before the request (the write guard on memory_item).
FencedRowsFrozen ==
    [][\A m \in fenced : memory'[m] = memory[m]]_vars

\* No sweep archives a memory that has not existed for the TTL it applies: not
\* even when the row was put back on its status between the select and the UPDATE
\* (_sweep_ttl; such a row may not have served its latest stay in full).
ArchivedOnlyAfterTtl ==
    [][\A m \in Memories :
        memory[m].status \in {"quarantined", "candidate"} /\ memory'[m].status = "archived" =>
            clock - memory[m].createdAt >=
                (IF memory[m].status = "quarantined" THEN QuarantineTtl ELSE CandidateTtl)]_vars

\* A merge that raises has superseded none of its sources.
MergeAllOrNothing ==
    [][\A w \in Workers :
        job[w].kind = "merge" /\ job'[w] = Idle =>
            job[w].left = DOMAIN job[w].snap
                \/ \A m \in DOMAIN job[w].snap : memory'[m].status = "superseded"]_vars
=============================================================================
