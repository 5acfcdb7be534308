---------------------------- MODULE ErasureSaga ----------------------------
(***************************************************************************)
(* One accepted erasure request of a project, from its fence to            *)
(* scope_complete: the executors of erasure/executor.py, each of which     *)
(* claims the request, destroys the keys, purges the primary rows, deletes *)
(* and verifies every external store and completes, and the c12 functions  *)
(* (migrations/0012, 0013) that own the durable state.                     *)
(*                                                                         *)
(* A certified late association (tracebed_bind_run_subject_tags) may add a *)
(* run to the closure of a subject request at any moment before            *)
(* completion; it advances closure_revision and never the phase.           *)
(*                                                                         *)
(* Abstractions.  The lease of the row (generation, token, owner, expiry)  *)
(* is its holder and whether it still lives: a claim gives a new           *)
(* generation, so an executor holds the lease exactly when it is the       *)
(* holder and has not dropped its own.  The retry delay is not measured.   *)
(* A row group per run stands for the twenty tables of the primary purge,  *)
(* and one object for what an external store keeps of a target.            *)
(***************************************************************************)
EXTENDS Naturals, Sequences, FiniteSets

CONSTANTS
    Executors,     \* erasure processes
    Runs,          \* runs of the project
    Stores,        \* external store codes
    TraceStore,    \* the trace store among them (trace_fs_v1 or trace_s3_v1)
    Manifests,     \* store manifests a deployment may be configured with
    Scopes,        \* scopes that are requested
    MaxRevision,   \* bound on closure_revision
    MaxFaults,     \* bound on crashes, pauses, timeouts and refusals
    PROJECT,       \* the project-wide target
    NONE

ASSUME SagaAssumption ==
    /\ NONE \notin Executors
    /\ PROJECT \notin Runs
    /\ TraceStore \in Stores
    /\ Manifests \subseteq Seq(Stores)
    /\ NONE \notin Manifests
    /\ \A m \in Manifests : \E i \in DOMAIN m : m[i] = TraceStore
    /\ Scopes \subseteq {"subject", "project"}
    /\ MaxRevision \in Nat
    /\ MaxFaults \in Nat

Phases == {"fenced", "crypto_erased", "primary_purged", "external_purged", "scope_complete"}
PostCrypto == {"crypto_erased", "primary_purged", "external_purged"}

Dispositions == {"active", "retry_wait", "operator_blocked", "scope_complete"}

\* "older" is in_progress under an earlier generation, which a new one reclaims.
WorkStates == {"none", "pending", "current", "older", "verified"}

Targets == ({TraceStore} \X (Runs \cup {PROJECT})) \cup (Stores \X {PROJECT})

\* What the external stores hold: an object per run, one item per other store.
Contents == ({TraceStore} \X Runs) \cup ((Stores \ {TraceStore}) \X {PROJECT})

VARIABLES
    scope, phase, disposition, holder, live, manifest, revision,
                   \* the erasure_request row
    closure,       \* erase_run_set
    keys,          \* a key of the scope is not yet destroyed
    rows,          \* runs with rows left in the primary tables
    content,       \* what the external stores hold
    work,          \* erasure_external_work.state, per target
    workRevision,  \* erasure_external_work.discovered_revision
    prepared, verified, targetCount,
                   \* erasure_store_checkpoint, 0 where there is none
    receipts,      \* succeeded receipts, as step and revision
    exec,          \* what each executor knows
    faults

request == <<scope, phase, disposition, holder, live, manifest, revision>>
external == <<work, workRevision, prepared, verified, targetCount>>
vars == <<request, closure, keys, rows, content, external, receipts, exec, faults>>

Idle == [pc |-> "idle", phase |-> "fenced", rev |-> 0, at |-> 0, needs |-> FALSE,
         items |-> {}, item |-> NONE]

PCs == {"idle", "crypto", "seal", "prepare", "primary", "work", "erase", "proof", "mark",
        "close", "verify"}

TypeOK ==
    /\ scope \in Scopes
    /\ phase \in Phases
    /\ disposition \in Dispositions
    /\ holder \in Executors \cup {NONE}
    /\ live \in BOOLEAN
    /\ manifest \in Manifests \cup {NONE}
    /\ revision \in 1..MaxRevision
    /\ closure \subseteq Runs
    /\ keys \in BOOLEAN
    /\ rows \subseteq Runs
    /\ content \subseteq Contents
    /\ work \in [Targets -> WorkStates]
    /\ workRevision \in [Targets -> 0..MaxRevision]
    /\ prepared \in [Stores -> 0..MaxRevision]
    /\ verified \in [Stores -> 0..MaxRevision]
    /\ targetCount \in [Stores -> Nat]
    /\ receipts \subseteq (({"crypto", "postgres", "complete"} \cup Stores) \X (1..MaxRevision))
    /\ exec \in [Executors -> [pc : PCs, phase : Phases, rev : 0..MaxRevision, at : Nat,
                               needs : BOOLEAN, items : SUBSET Targets,
                               item : Targets \cup {NONE}]]
    /\ faults \in 0..MaxFaults

\* tracebed_request_erasure has fenced the scope and recorded its closure.
Init ==
    /\ scope \in Scopes
    /\ phase = "fenced"
    /\ disposition = "active"
    /\ holder = NONE
    /\ live = FALSE
    /\ manifest = NONE
    /\ revision = 1
    /\ closure \in (IF scope = "project" THEN {Runs} ELSE SUBSET Runs)
    /\ keys = TRUE
    /\ rows = Runs
    /\ content = Contents
    /\ work = [t \in Targets |-> "none"]
    /\ workRevision = [t \in Targets |-> 0]
    /\ prepared = [s \in Stores |-> 0]
    /\ verified = [s \in Stores |-> 0]
    /\ targetCount = [s \in Stores |-> 0]
    /\ receipts = {}
    /\ exec = [e \in Executors |-> Idle]
    /\ faults = 0

-----------------------------------------------------------------------------
(***************************************************************************)
(* What the functions read.                                                *)
(***************************************************************************)

ScopeRuns == IF scope = "project" THEN Runs ELSE closure

\* tracebed_erasure_primary_remaining.
Remaining == rows \cap ScopeRuns

\* tracebed_erasure_assert_lease: the exact live lease of an active request.
Holds(e) ==
    /\ holder = e
    /\ live
    /\ disposition = "active"
    /\ phase # "scope_complete"
    /\ exec[e].pc # "idle"

StoresOf(m) == {m[i] : i \in DOMAIN m}

WorkOf(s) == {t \in Targets : t[1] = s /\ work[t] # "none" /\ workRevision[t] = revision}

TraceTargets ==
    IF scope = "project" THEN {<<TraceStore, PROJECT>>} ELSE {<<TraceStore, r>> : r \in closure}

\* What the deletion of a target removes from its store.
Covers(t) == IF t = <<TraceStore, PROJECT>> THEN {TraceStore} \X Runs ELSE {t}

\* One more of the bounded number of things that go wrong.
Fault == faults < MaxFaults /\ faults' = faults + 1

\* Giving up the request: what the process knew of it is gone.
Drop(e) == exec' = [exec EXCEPT ![e] = Idle]

-----------------------------------------------------------------------------
(***************************************************************************)
(* Claims.  A configured manifest that is not the recorded one blocks the  *)
(* request for an operator.                                                *)
(***************************************************************************)

Claimable ==
    /\ phase # "scope_complete"
    /\ \/ disposition = "retry_wait"
       \/ disposition = "active" /\ (holder = NONE \/ ~live)

\* Mutant: work left in progress by an earlier generation is not reclaimed.
OutdatedKept(w) == w

\* The new generation makes every in_progress row an older one's.
Outdated(w) == [t \in Targets |-> IF w[t] = "current" THEN "older" ELSE w[t]]

Claim(e, m) ==
    /\ exec[e].pc = "idle"
    /\ Claimable
    /\ manifest \in {NONE, m}
    /\ holder' = e
    /\ live' = TRUE
    /\ disposition' = "active"
    /\ manifest' = m
    /\ work' = Outdated(work)
    /\ exec' = [exec EXCEPT ![e] = [Idle EXCEPT !.pc = IF phase = "fenced" THEN "crypto" ELSE "seal",
                                               !.phase = phase, !.rev = revision]]
    /\ UNCHANGED <<scope, phase, revision, closure, keys, rows, content, workRevision, prepared,
                   verified, targetCount, receipts, faults>>

ManifestMismatch(e, m) ==
    /\ exec[e].pc = "idle"
    /\ Claimable
    /\ manifest \notin {NONE, m}
    /\ Fault
    /\ disposition' = "operator_blocked"
    /\ holder' = NONE
    /\ live' = FALSE
    /\ UNCHANGED <<scope, phase, manifest, revision, closure, keys, rows, content, external,
                   receipts, exec>>

-----------------------------------------------------------------------------
(***************************************************************************)
(* The steps of ErasureExecutor._run, one transaction each.                *)
(***************************************************************************)

\* Mutant: the keys of a project are left out.
KeysLeftOfProject == scope = "project"

\* Every key of the scope is destroyed.
KeysLeft == FALSE

CryptoStep(e) ==
    /\ exec[e].pc = "crypto"
    /\ Holds(e)
    /\ keys' = KeysLeft
    /\ phase' = "crypto_erased"
    /\ receipts' = receipts \cup {<<"crypto", revision>>}
    /\ exec' = [exec EXCEPT ![e] = [@ EXCEPT !.pc = "seal", !.phase = "crypto_erased", !.rev = revision]]
    /\ UNCHANGED <<scope, disposition, holder, live, manifest, revision, closure, rows, content,
                   external, faults>>

\* Targets of store s, and the rows of an earlier revision, are pending again.
Reopened(s, T) ==
    [t \in Targets |->
        IF \/ t \in T /\ work[t] = "none"
           \/ t[1] = s /\ work[t] # "none" /\ workRevision[t] < revision
        THEN "pending" ELSE work[t]]

Rediscovered(s, T) ==
    [t \in Targets |->
        IF t \in T \/ (t[1] = s /\ work[t] # "none") THEN revision ELSE workRevision[t]]

\* _seal_trace_manifest reads the references at its revision, then seals.
SealOk(e) == exec[e].rev = revision /\ phase \in PostCrypto

SealTraceManifest(e) ==
    /\ exec[e].pc = "seal"
    /\ Holds(e)
    /\ SealOk(e)
    /\ work' = Reopened(TraceStore, TraceTargets)
    /\ workRevision' = Rediscovered(TraceStore, TraceTargets)
    /\ IF prepared[TraceStore] < revision
       THEN /\ prepared' = [prepared EXCEPT ![TraceStore] = revision]
            /\ verified' = [verified EXCEPT ![TraceStore] = 0]
            /\ targetCount' = [targetCount EXCEPT ![TraceStore] =
                  Cardinality({t \in Targets : t[1] = TraceStore /\ work'[t] # "none"
                                               /\ workRevision'[t] = revision})]
       ELSE UNCHANGED <<prepared, verified, targetCount>>
    /\ exec' = [exec EXCEPT ![e].pc = "prepare"]
    /\ UNCHANGED <<request, closure, keys, rows, content, receipts, faults>>

PrepareOk == prepared[TraceStore] = revision

OtherStores == StoresOf(manifest) \ {TraceStore}

Stale(s) == s \in OtherStores /\ prepared[s] < revision

PreparePrimary(e) ==
    /\ exec[e].pc = "prepare"
    /\ Holds(e)
    /\ PrepareOk
    /\ work' = [t \in Targets |-> IF Stale(t[1]) /\ t[2] = PROJECT THEN "pending" ELSE work[t]]
    /\ workRevision' = [t \in Targets |->
                           IF Stale(t[1]) /\ t[2] = PROJECT THEN revision ELSE workRevision[t]]
    /\ prepared' = [s \in Stores |-> IF Stale(s) THEN revision ELSE prepared[s]]
    /\ verified' = [s \in Stores |-> IF Stale(s) THEN 0 ELSE verified[s]]
    /\ targetCount' = [s \in Stores |-> IF Stale(s) THEN 1 ELSE targetCount[s]]
    /\ exec' = [exec EXCEPT ![e] = [@ EXCEPT
                   !.pc = "primary", !.rev = revision,
                   !.needs = \E t \in Targets : /\ workRevision'[t] = revision
                                                /\ work'[t] \in {"pending", "current", "older"}]]
    /\ UNCHANGED <<request, closure, keys, rows, content, receipts, faults>>

\* A batch deletes up to batch_size rows of each table; the pass ends when none is left.
PrimaryBatch(e) ==
    /\ exec[e].pc = "primary"
    /\ Holds(e)
    /\ phase \in PostCrypto
    /\ \E D \in SUBSET Remaining :
          /\ D # {} \/ Remaining = {}
          /\ rows' = rows \ D
          /\ LET done == Remaining = D
                 next == IF exec[e].phase = "external_purged" /\ ~exec[e].needs
                         THEN "external_purged" ELSE "primary_purged"
             IN /\ receipts' = IF done THEN receipts \cup {<<"postgres", revision>>} ELSE receipts
                /\ phase' = IF done /\ phase = "crypto_erased" THEN "primary_purged" ELSE phase
                /\ exec' = IF ~done THEN [exec EXCEPT ![e].rev = revision]
                           ELSE [exec EXCEPT ![e] = [@ EXCEPT
                                   !.rev = revision, !.phase = next, !.at = 1,
                                   !.pc = IF next = "primary_purged" THEN "work" ELSE "verify"]]
    /\ UNCHANGED <<scope, disposition, holder, live, manifest, revision, closure, keys, content,
                   external, faults>>

StoreAt(e) == manifest[exec[e].at]

ExternalWorkBatch(e) ==
    /\ exec[e].pc = "work"
    /\ Holds(e)
    /\ phase \in {"primary_purged", "external_purged"}
    /\ LET batch == {t \in WorkOf(StoreAt(e)) : work[t] \in {"pending", "older"}}
       IN /\ work' = [t \in Targets |-> IF t \in batch THEN "current" ELSE work[t]]
          /\ exec' = [exec EXCEPT ![e] = [@ EXCEPT
                         !.items = batch, !.pc = IF batch = {} THEN "close" ELSE "erase"]]
    /\ UNCHANGED <<request, closure, keys, rows, content, workRevision, prepared, verified,
                   targetCount, receipts, faults>>

\* _delete_and_verify, the deletion: no lease is asserted while the heartbeat
\* is not due.  An adapter that reports success may have left something behind.
EraseTarget(e) ==
    /\ exec[e].pc = "erase"
    /\ \E t \in exec[e].items :
          /\ exec' = [exec EXCEPT ![e] = [@ EXCEPT !.pc = "proof", !.item = t]]
          /\ \/ /\ content' = content \ Covers(t)
                /\ UNCHANGED faults
             \/ /\ Fault
                /\ \E residue \in SUBSET (content \cap Covers(t)) :
                      /\ residue # {}
                      /\ content' = (content \ Covers(t)) \cup residue
    /\ UNCHANGED <<request, closure, keys, rows, external, receipts>>

\* Mutant: the deletion's own report is the proof.
AbsentAsReported(t) == TRUE

\* verify_run_absent, verify_project_absent.
Absent(t) == content \cap Covers(t) = {}

\* _delete_and_verify, the independent proof.
ProveAbsent(e) ==
    /\ exec[e].pc = "proof"
    /\ Absent(exec[e].item)
    /\ exec' = [exec EXCEPT ![e].pc = "mark"]
    /\ UNCHANGED <<request, closure, keys, rows, content, external, receipts, faults>>

MarkOk(e) == workRevision[exec[e].item] = revision /\ work[exec[e].item] = "current"

MarkExternalWork(e) ==
    /\ exec[e].pc = "mark"
    /\ Holds(e)
    /\ MarkOk(e)
    /\ work' = [work EXCEPT ![exec[e].item] = "verified"]
    /\ LET left == exec[e].items \ {exec[e].item}
       IN exec' = [exec EXCEPT ![e] = [@ EXCEPT
                      !.items = left, !.item = NONE, !.pc = IF left = {} THEN "work" ELSE "erase"]]
    /\ UNCHANGED <<request, closure, keys, rows, content, workRevision, prepared, verified,
                   targetCount, receipts, faults>>

\* The close of a store asks it once more whether the project is gone; the
\* trace store of a subject request relies on the proofs of its runs.
ZeroProof(s) ==
    \/ s = TraceStore /\ scope = "subject"
    \/ \A t \in content : t[1] # s

CloseOk(e) ==
    LET s == StoreAt(e)
    IN /\ \A t \in WorkOf(s) : work[t] = "verified"
       /\ \/ prepared[s] = revision /\ verified[s] = revision
          \/ prepared[s] = revision /\ targetCount[s] = Cardinality(WorkOf(s))

\* bool_and(verified_revision = closure_revision): a checkpoint that was not
\* closed has no verified_revision, and the aggregate passes over it.
AllDone(v) == \A s \in StoresOf(manifest) : v[s] \in {0, revision}

CloseExternalStep(e) ==
    /\ exec[e].pc = "close"
    /\ Holds(e)
    /\ ZeroProof(StoreAt(e))
    /\ CloseOk(e)
    /\ verified' = [verified EXCEPT ![StoreAt(e)] = revision]
    /\ receipts' = receipts \cup {<<StoreAt(e), revision>>}
    /\ LET next == IF AllDone(verified') /\ phase = "primary_purged"
                   THEN "external_purged" ELSE phase
       IN /\ phase' = next
          /\ exec' = [exec EXCEPT ![e] = [@ EXCEPT
                         !.rev = revision, !.phase = next, !.at = @ + 1,
                         !.pc = IF exec[e].at < Len(manifest) THEN "work" ELSE "verify"]]
    /\ UNCHANGED <<scope, disposition, holder, live, manifest, revision, closure, keys, rows,
                   content, work, workRevision, prepared, targetCount, faults>>

\* Mutant: any proof of a store counts, whatever revision it was made for.
VerifyOkAnyRevision(e) ==
    /\ exec[e].phase = "external_purged"
    /\ phase = "external_purged"
    /\ Remaining = {}
    /\ \A s \in StoresOf(manifest) : verified[s] > 0

VerifyOk(e) ==
    /\ exec[e].phase = "external_purged"
    /\ phase = "external_purged"
    /\ Remaining = {}
    /\ \A s \in StoresOf(manifest) : verified[s] = revision

VerifyAndComplete(e) ==
    /\ exec[e].pc = "verify"
    /\ Holds(e)
    /\ VerifyOk(e)
    /\ phase' = "scope_complete"
    /\ disposition' = "scope_complete"
    /\ holder' = NONE
    /\ live' = FALSE
    /\ receipts' = receipts \cup {<<"complete", revision>>}
    /\ Drop(e)
    /\ UNCHANGED <<scope, manifest, revision, closure, keys, rows, content, external, faults>>

-----------------------------------------------------------------------------
(***************************************************************************)
(* What goes wrong.  A refused transaction of a live lease is recorded by  *)
(* tracebed_erasure_fail and waits for a retry; a lost lease is dropped    *)
(* without a word.                                                         *)
(***************************************************************************)

Fail(e, to) ==
    /\ disposition' = to
    /\ holder' = NONE
    /\ live' = FALSE
    /\ Drop(e)
    /\ UNCHANGED <<scope, phase, manifest, revision, closure, keys, rows, content, external,
                   receipts>>

Refused(e) ==
    \/ exec[e].pc = "seal" /\ ~SealOk(e)
    \/ exec[e].pc = "prepare" /\ ~PrepareOk
    \/ exec[e].pc = "mark" /\ ~MarkOk(e)
    \/ exec[e].pc = "close" /\ ~CloseOk(e)
    \/ exec[e].pc = "verify" /\ ~VerifyOk(e)

ClosureChanged(e) ==
    /\ Holds(e)
    /\ Refused(e)
    /\ Fail(e, "retry_wait")
    /\ UNCHANGED faults

\* The proof finds a residue: nothing is marked and an operator has to look.
ProofFailed(e) ==
    /\ exec[e].pc = "proof"
    /\ ~Absent(exec[e].item)
    /\ Holds(e)
    /\ Fail(e, "operator_blocked")
    /\ UNCHANGED faults

LeaseLost(e) ==
    /\ exec[e].pc # "idle"
    /\ ~Holds(e)
    /\ Drop(e)
    /\ UNCHANGED <<request, closure, keys, rows, content, external, receipts, faults>>

\* A dependency times out or is down; a timed-out deletion may have happened.
DependencyFailed(e) ==
    /\ Fault
    /\ Holds(e)
    /\ Fail(e, "retry_wait")

\* An unsafe reference, a missing adapter or an unverifiable store; for a
\* project also a catalog that does not match and a tombstone that is denied.
StoreBlocked(e) ==
    /\ Fault
    /\ \/ exec[e].pc \in {"seal", "work", "erase", "proof", "mark", "close"}
       \/ scope = "project" /\ exec[e].pc \in {"primary", "verify"}
    /\ Holds(e)
    /\ Fail(e, "operator_blocked")

ResumeBlocked ==
    /\ disposition = "operator_blocked"
    /\ phase # "scope_complete"
    /\ disposition' = "active"
    /\ UNCHANGED <<scope, phase, holder, live, manifest, revision, closure, keys, rows, content,
                   external, receipts, exec, faults>>

Crash(e) ==
    /\ Fault
    /\ exec[e].pc # "idle"
    /\ Drop(e)
    /\ UNCHANGED <<request, closure, keys, rows, content, external, receipts>>

\* ErasureExecutor.cancel.
Release(e) ==
    /\ Fault
    /\ Holds(e)
    /\ holder' = NONE
    /\ live' = FALSE
    /\ Drop(e)
    /\ UNCHANGED <<scope, phase, disposition, manifest, revision, closure, keys, rows, content,
                   external, receipts>>

\* The lease of an executor that is gone expires.
Expire ==
    /\ live
    /\ exec[holder].pc = "idle"
    /\ live' = FALSE
    /\ UNCHANGED <<scope, phase, disposition, holder, manifest, revision, closure, keys, rows,
                   content, external, receipts, exec, faults>>

\* The lease of an executor that was paused expires under it.
Pause ==
    /\ Fault
    /\ live
    /\ exec[holder].pc # "idle"
    /\ live' = FALSE
    /\ UNCHANGED <<scope, phase, disposition, holder, manifest, revision, closure, keys, rows,
                   content, external, receipts, exec>>

-----------------------------------------------------------------------------
(***************************************************************************)
(* A certified late association: the run joins the closure and             *)
(* tracebed_erasure_refresh_late_closure advances the revision.            *)
(***************************************************************************)

\* Mutant: the revision starts over.
NextRevisionReset == 0

NextRevision == revision + 1

LateBind(r) ==
    /\ scope = "subject"
    /\ phase # "scope_complete"
    /\ r \notin closure
    /\ revision < MaxRevision
    /\ closure' = closure \cup {r}
    /\ revision' = NextRevision
    /\ UNCHANGED <<scope, phase, disposition, holder, live, manifest, keys, rows, content,
                   external, receipts, exec, faults>>

-----------------------------------------------------------------------------
Step(e) ==
    \/ CryptoStep(e)
    \/ SealTraceManifest(e)
    \/ PreparePrimary(e)
    \/ PrimaryBatch(e)
    \/ ExternalWorkBatch(e)
    \/ EraseTarget(e)
    \/ ProveAbsent(e)
    \/ ProofFailed(e)
    \/ MarkExternalWork(e)
    \/ CloseExternalStep(e)
    \/ VerifyAndComplete(e)
    \/ ClosureChanged(e)
    \/ LeaseLost(e)

Next ==
    \/ \E e \in Executors, m \in Manifests : Claim(e, m) \/ ManifestMismatch(e, m)
    \/ \E e \in Executors :
          \/ Step(e)
          \/ DependencyFailed(e)
          \/ StoreBlocked(e)
          \/ Crash(e)
          \/ Release(e)
    \/ Expire
    \/ Pause
    \/ ResumeBlocked
    \/ \E r \in Runs : LateBind(r)

Spec == Init /\ [][Next]_vars

\* The loop of erasure/runner.py polls and runs what it claims; leases expire
\* and retry delays pass with time.  Nobody promises an operator.
Fairness ==
    /\ WF_vars(\E e \in Executors, m \in Manifests : Claim(e, m))
    /\ \A e \in Executors : WF_vars(Step(e))
    /\ WF_vars(Expire)

FairSpec == Spec /\ Fairness

-----------------------------------------------------------------------------
(***************************************************************************)
(* Properties.                                                             *)
(***************************************************************************)

\* tracebed_erasure_verify_and_complete: when a request is scope_complete the
\* keys of its scope are destroyed, no primary row of a run of its closure is
\* left, and no external store of the manifest holds anything of it, however
\* late a run joined and however many executors died on the way; and its
\* receipts prove it for that closure, each at the final revision.
CompleteMeansErased ==
    phase = "scope_complete" =>
        /\ ~keys
        /\ Remaining = {}
        /\ \A t \in content : ~(t[1] = TraceStore /\ t[2] \in ScopeRuns)
        /\ \A t \in content : ~(t[2] = PROJECT /\ t[1] \in StoresOf(manifest))
        /\ {<<"postgres", revision>>, <<"complete", revision>>}
               \cup (StoresOf(manifest) \X {revision}) \subseteq receipts

\* ErasureExecutor: work is marked verified only for a target that is absent:
\* a deletion that reports success and leaves a residue is never taken for a
\* proof, also when the deletion, its proof and its mark are done by executors
\* that took over from each other.
VerifiedMeansAbsent ==
    \A t \in Targets : work[t] = "verified" => content \cap Covers(t) = {}

\* tracebed_erasure_crypto_step comes first: as long as a key of the scope can
\* still be unwrapped no row and no object of it is deleted, so a saga that
\* stops early never leaves readable remains of a half-deleted run.
KeysDestroyedFirst ==
    [][rows' # rows \/ content' # content => ~keys]_vars

\* Every target of the current revision is verified, the phase says that the
\* stores are purged, and a checkpoint of the manifest is not closed.
Unclosed ==
    /\ phase = "external_purged"
    /\ \A t \in Targets : work[t] # "none" /\ workRevision[t] = revision => work[t] = "verified"
    /\ \E s \in StoresOf(manifest) : verified[s] # revision

\* ErasureExecutor._run: every retry restarts from durable state, so a request
\* ends up completed, or waiting for an operator, or in the one state that no
\* pass of the executor leaves: nothing left to do and a store not closed.
\* Whatever crashes, timeouts, residues and late runs it meets, it stops nowhere else.
StopsOnlyUnclosed ==
    <>[](phase = "scope_complete" \/ disposition = "operator_blocked" \/ Unclosed)

\* ErasureExecutor._run: every retry restarts from durable state, and a pass
\* that finds no work of the current revision goes on to the final
\* transaction; so an accepted request that waits for no operator is completed.
EventuallyComplete == []<>(phase = "scope_complete" \/ disposition = "operator_blocked")

=============================================================================
