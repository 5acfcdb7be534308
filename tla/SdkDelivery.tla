---------------------------- MODULE SdkDelivery ----------------------------
(***************************************************************************)
(* Delivery from the SDK: the ring buffer that the host's threads append   *)
(* to, and the flush passes (the background loop and explicit flush()      *)
(* calls) that lease a batch, post it and settle it.  append, lease and    *)
(* settle are critical sections of the buffer's lock; a flush pass holds   *)
(* the flush lock and is elsewhere interleaved with the host's threads:    *)
(* they append, mutate models they have already handed over, or call       *)
(* flush() themselves while a request is on the wire.  A request may be    *)
(* answered, refused, lost on the way, or applied with its answer lost.    *)
(***************************************************************************)
EXTENDS Integers, Sequences, FiniteSets, SequencesExt

CONSTANTS
    Runs,            \* run ids
    Bodies,          \* what a model may hold
    Poison,          \* those of them that have no JSON form
    Inputs,          \* the appends the host's threads make
    Capacity,        \* buffer_capacity
    MaxBatch,        \* _MAX_DRAIN_BATCH
    Hosts,           \* host threads that call flush()
    Background,      \* the flusher thread
    MaxAppends,      \* bound: appends in a behaviour
    MaxFailures,     \* bound: passes cut short by a deadline or a failed post
    NONE

Kinds == {"trace", "feedback", "proposal"}
Flushers == Hosts \cup {Background}
Ids == 1..MaxAppends

ASSUME ConstantsAssumption ==
    /\ Capacity \in Nat \ {0} /\ MaxBatch \in Nat \ {0}
    /\ MaxAppends \in Nat /\ MaxFailures \in Nat
    /\ Poison \subseteq Bodies /\ NONE \notin Bodies
    /\ Inputs \subseteq [run : Runs, kind : Kinds]
    /\ Background \notin Hosts /\ NONE \notin Flushers

VARIABLES
    items,           \* RingBuffer._items
    leased,          \* RingBuffer._leased, the batch of the pass under way
    runSeq,          \* RingBuffer._run_seq
    droppedTotal,    \* RingBuffer._dropped_total
    holder,          \* the thread that holds the flush lock, NONE if it is free
    phase,           \* where that pass is in _do_flush
    outcomes,        \* _BatchSettlement.outcomes
    work,            \* the batch with _BatchSettlement.replacements in place
    index,           \* _dispatch: first item of the current delivery group
    frozen,          \* _dispatch: next item of that group to serialise
    reporting,       \* host threads about to return their FlushReport
    lastReported,    \* _last_reported_dropped
    log,             \* history: the appends, with the numbers they were given
    lost,            \* history: ids of the items given up
    accepted,        \* history: ids answered 2xx
    received,        \* history: what the server was sent, <<id, body>>
    reported,        \* history: sum of FlushReport.dropped over flush() returns
    failures         \* bound counter

buffer == <<items, leased, runSeq, droppedTotal>>
pass == <<holder, phase, outcomes, work, index, frozen>>
reports == <<reporting, lastReported, reported>>
history == <<log, lost, accepted, received, failures>>
vars == <<buffer, pass, reports, history>>

Item ==
    [id : Ids, run : Runs, kind : Kinds, seq : Nat \cup {NONE}, encoded : Bodies \cup {NONE}]

IdsOf(s) == {s[i].id : i \in DOMAIN s}

Pending == IdsOf(items) \cup IdsOf(leased)

\* The buffer, the pass and the reports have their types; a pass has one outcome
\* per leased item, and a batch is out only during a pass (RingBuffer, _do_flush).
TypeOK ==
    /\ items \in Seq(Item) /\ leased \in Seq(Item) /\ work \in Seq(Item)
    /\ runSeq \in [Runs -> Nat] /\ droppedTotal \in Nat
    /\ holder \in Flushers \cup {NONE}
    /\ phase \in {"free", "lease", "dispatch", "settle"}
    /\ outcomes \in Seq({"sent", "dropped", "retry"})
    /\ Len(outcomes) = Len(leased) /\ Len(work) = Len(leased)
    /\ (leased # <<>>) = (phase \in {"dispatch", "settle"})
    /\ (holder = NONE) = (phase = "free")
    /\ index \in Nat /\ frozen \in Nat
    /\ reporting \subseteq Hosts /\ lastReported \in Nat /\ reported \in Nat
    /\ Len(log) <= MaxAppends /\ failures \in 0..MaxFailures
    /\ lost \subseteq Ids /\ accepted \subseteq Ids /\ received \subseteq (Ids \X Bodies)

Init ==
    /\ items = <<>> /\ leased = <<>> /\ work = <<>> /\ outcomes = <<>>
    /\ runSeq = [r \in Runs |-> 0] /\ droppedTotal = 0
    /\ holder = NONE /\ phase = "free" /\ index = 0 /\ frozen = 0
    /\ reporting = {} /\ lastReported = 0 /\ reported = 0
    /\ log = <<>> /\ failures = 0
    /\ lost = {} /\ accepted = {} /\ received = {}

-----------------------------------------------------------------------------
(* The host's threads. *)

\* A leased batch is absent from the queue and still occupies capacity.
Full == Len(items) + Len(leased) >= Capacity

\* The counter moves before the capacity is looked at.
NextSeq(r) == runSeq[r] + 1

\* RingBuffer.append, as trace(), feedback() and propose_memory() call it: the
\* oldest queued item makes room; with every slot leased the new item is the one lost.
BufferAppend(in) ==
    LET id == Len(log) + 1
        isTrace == in.kind = "trace"
        new == [id |-> id, run |-> in.run, kind |-> in.kind,
                seq |-> IF isTrace THEN runSeq[in.run] ELSE NONE, encoded |-> NONE]
    IN  /\ Len(log) < MaxAppends
        /\ log' = Append(log, new)
        /\ runSeq' = IF isTrace THEN [runSeq EXCEPT ![in.run] = NextSeq(in.run)] ELSE runSeq
        /\ \/ /\ ~Full
              /\ items' = Append(items, new)
              /\ UNCHANGED <<droppedTotal, lost>>
           \/ /\ Full /\ items # <<>>
              /\ items' = Append(Tail(items), new)
              /\ droppedTotal' = droppedTotal + 1
              /\ lost' = lost \cup {Head(items).id}
           \/ /\ Full /\ items = <<>>
              /\ droppedTotal' = droppedTotal + 1
              /\ lost' = lost \cup {id}
              /\ UNCHANGED items
        /\ UNCHANGED <<leased, pass, reports, accepted, received, failures>>

-----------------------------------------------------------------------------
(* _do_flush and _dispatch. *)

\* Mutant: the flusher thread ends with its first failed pass.
AcquireUnlessFailed(f) ==
    /\ holder = NONE
    /\ f \notin reporting
    /\ f = Background => failures = 0
    /\ holder' = f /\ phase' = "lease"
    /\ UNCHANGED <<buffer, outcomes, work, index, frozen, reports, history>>

\* The pass takes the flush lock, from _flusher_loop or from flush().
Acquire(f) ==
    /\ holder = NONE
    /\ f \notin reporting
    /\ holder' = f /\ phase' = "lease"
    /\ UNCHANGED <<buffer, outcomes, work, index, frozen, reports, history>>

\* flush() spends its budget waiting for the lock, and reports without sending.
LockTimeout(h) ==
    /\ holder \notin {NONE, h}
    /\ h \notin reporting
    /\ reporting' = reporting \cup {h}
    /\ UNCHANGED <<buffer, pass, lastReported, reported, history>>

\* Mutant: the lock is not released on the way out.
ReleaseLeaked ==
    /\ holder' = holder /\ phase' = "free"
    /\ reporting' = reporting \cup ({holder} \cap Hosts)

\* The pass lets the flush lock go; an explicit flush() then reports.
Release ==
    /\ holder' = NONE /\ phase' = "free"
    /\ reporting' = reporting \cup ({holder} \cap Hosts)

\* RingBuffer.lease takes the oldest items and leaves their slots occupied.
Lease ==
    LET n == IF MaxBatch < Len(items) THEN MaxBatch ELSE Len(items)
    IN  /\ phase = "lease"
        /\ items # <<>>
        /\ leased' = SubSeq(items, 1, n)
        /\ items' = SubSeq(items, n + 1, Len(items))
        /\ work' = leased'
        /\ outcomes' = [i \in 1..n |-> "retry"]
        /\ phase' = "dispatch" /\ index' = 1 /\ frozen' = 1
        /\ UNCHANGED <<runSeq, droppedTotal, holder, reports, history>>

\* Nothing left to lease: the pass is over.
LeaseEmpty ==
    /\ phase = "lease"
    /\ items = <<>>
    /\ Release
    /\ UNCHANGED <<buffer, outcomes, work, index, frozen, lastReported, reported, history>>

\* The budget ran out between two batches.
DeadlineBetweenBatches ==
    /\ phase = "lease"
    /\ failures < MaxFailures
    /\ failures' = failures + 1
    /\ Release
    /\ UNCHANGED <<buffer, outcomes, work, index, frozen, lastReported, reported,
                   log, lost, accepted, received>>

\* Adjacent traces are one delivery group; any other item is one by itself.
GroupEnd ==
    IF leased[index].kind # "trace" THEN index + 1
    ELSE CHOOSE e \in index + 1..Len(leased) + 1 :
            /\ \A i \in index..e - 1 : leased[i].kind = "trace"
            /\ e > Len(leased) \/ leased[e].kind # "trace"

\* Mutant: every attempt serialises the caller's model again.
EncodedAfresh(item, model) == IF model \in Poison THEN NONE ELSE model

\* _freeze of an item whose model holds the given body now: what was encoded first
\* stays; NONE if the model has no JSON form.
Encoded(item, model) ==
    IF item.encoded # NONE THEN item.encoded
    ELSE IF model \in Poison THEN NONE ELSE model

\* One iteration of the serialisation of a delivery group.  trace() kept the
\* caller's model, and the caller may have put any body in it since.
Freeze ==
    /\ phase = "dispatch"
    /\ index <= Len(leased)
    /\ frozen < GroupEnd
    /\ \E model \in Bodies :
          LET e == Encoded(work[frozen], model)
          IN  IF e = NONE
              THEN outcomes' = [outcomes EXCEPT ![frozen] = "dropped"] /\ UNCHANGED work
              ELSE work' = [work EXCEPT ![frozen].encoded = e] /\ UNCHANGED outcomes
    /\ frozen' = frozen + 1
    /\ UNCHANGED <<buffer, holder, phase, index, reports, history>>

\* The members of the group that are to be posted together.
Posted == {i \in index..GroupEnd - 1 : outcomes[i] # "dropped"}

Sent == {<<work[i].id, work[i].encoded>> : i \in Posted}

Frozen == phase = "dispatch" /\ index <= Len(leased) /\ frozen = GroupEnd

\* The posted members share the answer, and the next group is due.
Answer(result) ==
    /\ outcomes' = [i \in DOMAIN outcomes |-> IF i \in Posted THEN result ELSE outcomes[i]]
    /\ index' = frozen
    /\ UNCHANGED <<buffer, holder, phase, work, frozen, reports, log, lost, failures>>

\* _post is answered 2xx.  A group that froze to nothing makes no request.
PostSent ==
    /\ Frozen
    /\ Answer("sent")
    /\ accepted' = accepted \cup {work[i].id : i \in Posted}
    /\ received' = received \cup Sent

\* _post is answered with a status that no retry can mend.
PostRefused ==
    /\ Frozen /\ Posted # {}
    /\ Answer("dropped")
    /\ UNCHANGED <<accepted, received>>

\* The token, the deadline, a 408, 429 or 5xx, or the connection: the request was
\* not applied, or it was and its answer was lost.
PostRetry ==
    /\ Frozen /\ Posted # {}
    /\ failures < MaxFailures
    /\ failures' = failures + 1
    /\ received' \in {received, received \cup Sent}
    /\ phase' = "settle"
    /\ UNCHANGED <<buffer, holder, outcomes, work, index, frozen, reports,
                   log, lost, accepted>>

\* The deadline passes, or _dispatch raises, before an item is serialised.
GiveUp ==
    /\ phase = "dispatch"
    /\ index <= Len(leased) /\ frozen < GroupEnd
    /\ failures < MaxFailures
    /\ failures' = failures + 1
    /\ phase' = "settle"
    /\ UNCHANGED <<buffer, holder, outcomes, work, index, frozen, reports,
                   log, lost, accepted, received>>

\* Every group of the batch has been answered.
Dispatched ==
    /\ phase = "dispatch"
    /\ index > Len(leased)
    /\ phase' = "settle"
    /\ UNCHANGED <<buffer, holder, outcomes, work, index, frozen, reports, history>>

With(outcome) == SelectSeq([i \in 1..Len(leased) |-> i], LAMBDA i : outcomes[i] = outcome)

\* Mutant: retries go to the tail of the queue.
RequeuedAtTail(retries) == items \o retries

\* Retries return to the head of the queue.
Requeued(retries) == retries \o items

\* Mutant: a batch with a retry in it is retried as a whole.
RetriedWholeBatch ==
    IF With("retry") = <<>> THEN <<>> ELSE work

\* Items to retry, with what was encoded of them in their place.
Retried == LET idx == With("retry") IN [k \in DOMAIN idx |-> work[idx[k]]]

\* RingBuffer.settle; the pass goes on only if nothing is left to retry.
Settle ==
    /\ phase = "settle"
    /\ items' = Requeued(Retried)
    /\ leased' = <<>> /\ work' = <<>> /\ outcomes' = <<>> /\ index' = 0 /\ frozen' = 0
    /\ droppedTotal' = droppedTotal + Len(With("dropped"))
    /\ lost' = lost \cup {leased[i].id : i \in Range(With("dropped"))}
    /\ IF Retried # <<>>
       THEN Release
       ELSE phase' = "lease" /\ UNCHANGED <<holder, reporting>>
    /\ UNCHANGED <<runSeq, lastReported, reported,
                   log, accepted, received, failures>>

\* _take_reported_drops moves the watermark to the total it has read.
Watermark == droppedTotal

\* _report of an explicit flush(), under _drop_report_lock.
Report(h) ==
    /\ h \in reporting
    /\ reporting' = reporting \ {h}
    /\ reported' = reported + (droppedTotal - lastReported)
    /\ lastReported' = Watermark
    /\ UNCHANGED <<buffer, pass, history>>

Pass == Lease \/ LeaseEmpty \/ Freeze \/ PostSent \/ Dispatched \/ Settle

Next ==
    \/ \E in \in Inputs : BufferAppend(in)
    \/ \E f \in Flushers : Acquire(f)
    \/ \E h \in Hosts : LockTimeout(h) \/ Report(h)
    \/ Pass
    \/ DeadlineBetweenBatches
    \/ PostRefused
    \/ PostRetry
    \/ GiveUp

Spec == Init /\ [][Next]_vars

\* The flusher thread wakes up again and again and no thread stops inside a pass.
Fairness == WF_vars(Acquire(Background)) /\ WF_vars(Pass \/ PostRefused)

FairSpec == Spec /\ Fairness

-----------------------------------------------------------------------------
(* Properties. *)

Disjoint(s, t) == s \cap t = {}

(***************************************************************************)
(* Every item ever appended is waiting, or was accepted, or was given up   *)
(* and counted: never two of these, never none.  A failed batch that       *)
(* returns to the queue finds room whatever was appended meanwhile; the    *)
(* drop counter is exact, and the flush() reports tell each drop once.     *)
(***************************************************************************)
NothingUnaccounted ==
    /\ DOMAIN log = Pending \cup accepted \cup lost
    /\ Disjoint(Pending, lost) /\ Disjoint(accepted, lost)
    /\ Disjoint(accepted, IdsOf(items))
    /\ \A i \in DOMAIN leased : leased[i].id \in accepted <=> outcomes[i] = "sent"
    /\ Len(items) + Len(leased) <= Capacity
    /\ droppedTotal = Cardinality(lost)
    /\ reported = lastReported /\ lastReported <= droppedTotal

SameKey(i, j) ==
    i = j \/ (log[i].kind = "trace" /\ log[j].kind = "trace" /\
              log[i].run = log[j].run /\ log[i].seq = log[j].seq)

\* Deliveries repeat the event first offered: the server never receives two
\* different bodies for one item, nor for one sequence number of a run, whatever
\* the caller does to the model and whatever was lost in between.
OneBodyPerItem == \A x, y \in received : SameKey(x[1], y[1]) => x = y

\* The queue keeps the order of the appends across leases and retries, so the
\* first delivery of an item never overtakes an older item that is still pending.
Fifo ==
    /\ \A i, j \in 1..Len(leased) + Len(items) :
          i < j => (leased \o items)[i].id < (leased \o items)[j].id
    /\ \A x \in received, i \in IdsOf(items) \cup {leased[k].id : k \in Range(With("retry"))} :
          x[1] > i => i \in {y[1] : y \in received}

\* Once failures stop, what the buffer holds is delivered or given up: the
\* background pass alone empties it.
EventuallyDrained == <>[](Pending = {})
=============================================================================
