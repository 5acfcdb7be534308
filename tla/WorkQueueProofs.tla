-------------------------- MODULE WorkQueueProofs --------------------------
(***************************************************************************)
(* Proofs about WorkQueue, for any number of workers, projects, topics and *)
(* rows, any lease time, backoff, batch size and number of attempts.       *)
(***************************************************************************)
EXTENDS WorkQueue, TLAPS

\* What a claim selects are queued rows whose lease is free, of projects no
\* erasure fences.
LEMMA ClaimableRows ==
    ASSUME NEW t
    PROVE  \A i \in Claimable(t) : /\ i \in Ids
                                   /\ place[i] = "queued"
                                   /\ LeaseFree(i)
                                   /\ ~Fenced(entry[i].project)
BY DEF Claimable, QueuedFor, Queued

-----------------------------------------------------------------------------
\* Every variable keeps its type: the columns of a row, the erasure state of a
\* project and the fences a worker holds.
LEMMA TypeInit == Init => TypeOK
BY ConstantsAssumption DEF Init, TypeOK, Ids, Places, Leases, ErasureStates

LEMMA TypeNext == TypeOK /\ [Next]_vars => TypeOK'
<1> SUFFICES ASSUME TypeOK, [Next]_vars PROVE TypeOK'
  OBVIOUS
<1> USE ConstantsAssumption
<1>1. ASSUME NEW e \in Entries, Enqueue(e) PROVE TypeOK'
  BY <1>1 DEF TypeOK, Enqueue, Ids, Places
<1>2. ASSUME NEW w \in Workers, NEW t \in Topics, NEW S \in SUBSET Claimable(t), Claim(w, t, S)
      PROVE  TypeOK'
  <2> DEFINE poisoned == {i \in S : Poisoned(i)}
             malformed == {i \in S \ poisoned : Malformed(i)}
             leased == S \ (poisoned \cup malformed)
  <2>0. S \subseteq Ids
    BY DEF Claimable, QueuedFor, Queued
  <2>1. /\ attempts' \in [Ids -> Nat]
        /\ deliveries' \in [Ids -> Nat]
    BY <1>2 DEF TypeOK, Claim
  <2>2. lease' \in [Ids -> Leases]
    BY <1>2 DEF TypeOK, Claim, Leases, Expired
  <2>3. place' \in [Ids -> Places] /\ reason' \in [Ids -> Reasons \cup {NULL}]
    BY <1>2 DEF TypeOK, Claim, Places, Reasons
  <2>4. held' \in [Workers -> SUBSET Fences]
    <3>1. \A i \in leased : Fence(i) \in Fences
      <4> SUFFICES ASSUME NEW i \in leased PROVE Fence(i) \in Fences
        OBVIOUS
      <4>1. i \in Ids /\ lease'[i] = LeaseTime
        BY <1>2, <2>0 DEF Claim
      <4>2. attempts'[i] \in Nat
        BY <2>1, <4>1
      <4> QED
        BY <4>1, <4>2 DEF Fence, Fences, Expired
    <3>2. held' = [held EXCEPT ![w] = {Fence(i) : i \in leased}]
      BY <1>2 DEF Claim
    <3> QED
      BY <3>1, <3>2 DEF TypeOK
  <2> QED
    BY <1>2, <2>1, <2>2, <2>3, <2>4 DEF TypeOK, Claim
<1>3. ASSUME NEW w \in Workers, NEW c \in held[w], Settle(w, c) PROVE TypeOK'
  <2>0. c \in Fences /\ c.id \in Ids
    BY DEF TypeOK, Fences
  <2>1. CASE Ack(w, c)
    BY <2>0, <2>1 DEF TypeOK, Ack, Forget, Places
  <2>2. ASSUME NEW backoff \in 0..MaxBackoff, Nack(w, c, backoff) PROVE TypeOK'
    BY <2>0, <2>2 DEF TypeOK, Nack, Forget, Leases
  <2>3. CASE Reject(w, c)
    BY <2>0, <2>3 DEF TypeOK, Reject, Forget, Places, Reasons
  <2>4. CASE SettleRefused(w, c)
    BY <2>0, <2>4 DEF TypeOK, SettleRefused, Forget, rowVars
  <2> QED
    BY <1>3, <2>1, <2>2, <2>3, <2>4 DEF Settle
<1>4. ASSUME NEW w \in Workers, Crash(w) PROVE TypeOK'
  BY <1>4 DEF TypeOK, Crash, rowVars
<1>5. ASSUME NEW p \in Projects, NEW scope \in {"subject", "project"}, RequestErasure(p, scope)
      PROVE  TypeOK'
  BY <1>5 DEF TypeOK, RequestErasure, rowVars, ErasureStates
<1>6. ASSUME NEW p \in Projects, NEW S \in SUBSET RowsOf(p), PurgeRows(p, S) PROVE TypeOK'
  BY <1>6 DEF TypeOK, PurgeRows, Places
<1>7. ASSUME NEW p \in Projects, CompleteErasure(p) PROVE TypeOK'
  BY <1>7 DEF TypeOK, CompleteErasure, rowVars, ErasureStates
<1>8. CASE Tick
  <2>1. available' \in [Ids -> 0..MaxBackoff]
    BY <1>8 DEF TypeOK, Tick, Elapse
  <2>2. lease' \in [Ids -> Leases]
    BY <1>8 DEF TypeOK, Tick, LaterLease, Elapse, Leases, Expired
  <2>3. \A c \in Fences : LaterFence(c) \in Fences
    BY DEF Fences, LaterFence, Elapse, Expired
  <2>4. held' \in [Workers -> SUBSET Fences]
    BY <1>8, <2>3 DEF TypeOK, Tick
  <2> QED
    BY <1>8, <2>1, <2>2, <2>4 DEF TypeOK, Tick
<1>9. CASE UNCHANGED vars
  BY <1>9 DEF TypeOK, vars, rowVars
<1> QED
  BY <1>1, <1>2, <1>3, <1>4, <1>5, <1>6, <1>7, <1>8, <1>9 DEF Next

THEOREM TypeCorrect == Spec => []TypeOK
BY TypeInit, TypeNext, PTL DEF Spec

-----------------------------------------------------------------------------
(***************************************************************************)
(* The inductive invariant behind the lease properties.  A fence names an  *)
(* inserted row and no attempt later than its last (FencesKnown); two      *)
(* fences of one attempt are the same claim (FencesUnique); and a fence    *)
(* that has not expired is the row's current one (LiveFencesCurrent).      *)
(***************************************************************************)
RowsInserted ==
    \A i \in Ids : IF i < nextId THEN entry[i] \in Entries
                                ELSE place[i] = "absent"

FencesKnown ==
    \A w \in Workers : \A c \in held[w] :
        c.id < nextId /\ c.attempts <= attempts[c.id]

FencesUnique ==
    \A w, v \in Workers : \A c \in held[w], d \in held[v] :
        (c.id = d.id /\ c.attempts = d.attempts) => (w = v /\ c = d)

LiveFencesCurrent ==
    \A w \in Workers : \A c \in held[w] :
        c.lease # Expired =>
            /\ place[c.id] \in {"queued", "erased"}
            /\ attempts[c.id] = c.attempts
            /\ lease[c.id] = c.lease

LeaseInv ==
    /\ TypeOK
    /\ RowsInserted
    /\ FencesKnown
    /\ FencesUnique
    /\ LiveFencesCurrent

LEMMA LeaseInvInit == Init => LeaseInv
<1> SUFFICES ASSUME Init PROVE LeaseInv
  OBVIOUS
<1>1. TypeOK
  BY TypeInit
<1>2. RowsInserted
  BY ConstantsAssumption DEF Init, RowsInserted, Ids
<1>3. \A w \in Workers : held[w] = {}
  BY DEF Init
<1> QED
  BY <1>1, <1>2, <1>3 DEF LeaseInv, FencesKnown, FencesUnique, LiveFencesCurrent

\* The conclusion: the invariant gives both properties.
LEMMA LeaseInvImplies == LeaseInv => LeaseExclusive /\ LiveClaimHonoured
<1> SUFFICES ASSUME LeaseInv PROVE LeaseExclusive /\ LiveClaimHonoured
  OBVIOUS
<1>1. LiveClaimHonoured
  BY DEF LeaseInv, LiveFencesCurrent, LiveClaimHonoured, Matches
<1>2. LeaseExclusive
  <2> SUFFICES ASSUME NEW w \in Workers, NEW v \in Workers,
                      NEW c \in held[w], NEW d \in held[v],
                      c.id = d.id, c.lease # Expired, d.lease # Expired
               PROVE  w = v /\ c = d
    BY DEF LeaseExclusive
  <2>1. c.attempts = attempts[c.id] /\ d.attempts = attempts[d.id]
    BY DEF LeaseInv, LiveFencesCurrent
  <2> QED
    BY <2>1 DEF LeaseInv, FencesUnique
<1> QED
  BY <1>1, <1>2

(***************************************************************************)
(* A settlement that goes through touches one row and drops the claim that *)
(* was current for it; a claim left behind by another worker on that row   *)
(* has expired, so nothing that is live is disturbed.                      *)
(***************************************************************************)
LEMMA SettlementKeepsLeaseInv ==
    ASSUME LeaseInv, TypeOK', NEW w \in Workers, NEW c \in held[w], Matches(c),
           Forget(w, c), UNCHANGED <<nextId, entry, attempts>>,
           \A i \in Ids \ {c.id} : place'[i] = place[i] /\ lease'[i] = lease[i],
           place'[c.id] # "absent" \/ place'[c.id] = place[c.id]
    PROVE  LeaseInv'
<1> USE ConstantsAssumption
<1>0. c.id \in Ids /\ c.id < nextId
  BY DEF LeaseInv, TypeOK, Fences, FencesKnown
<1>1. \A v \in Workers : held'[v] \subseteq held[v]
  BY DEF LeaseInv, TypeOK, Forget
<1>2. RowsInserted'
  BY <1>0 DEF LeaseInv, RowsInserted, Ids, TypeOK
<1>3. FencesKnown'
  BY <1>1 DEF LeaseInv, FencesKnown
<1>4. FencesUnique'
  BY <1>1 DEF LeaseInv, FencesUnique
<1>5. LiveFencesCurrent'
  <2> SUFFICES ASSUME NEW v \in Workers, NEW d \in held'[v], d.lease # Expired
               PROVE  /\ place'[d.id] \in {"queued", "erased"}
                      /\ attempts'[d.id] = d.attempts
                      /\ lease'[d.id] = d.lease
    BY DEF LiveFencesCurrent
  <2>1. d \in held[v] /\ d.id \in Ids
    BY <1>1 DEF LeaseInv, TypeOK, Fences
  <2>2. d.id # c.id
    <3> SUFFICES ASSUME d.id = c.id PROVE FALSE
      OBVIOUS
    <3>1. d.attempts = c.attempts
      BY <2>1 DEF LeaseInv, LiveFencesCurrent, Matches
    <3>2. v = w /\ d = c
      BY <2>1, <3>1 DEF LeaseInv, FencesUnique
    <3> QED
      BY <3>2 DEF LeaseInv, TypeOK, Forget
  <2> QED
    BY <2>1, <2>2 DEF LeaseInv, LiveFencesCurrent
<1> QED
  BY <1>2, <1>3, <1>4, <1>5 DEF LeaseInv

LEMMA LeaseInvNext == LeaseInv /\ [Next]_vars => LeaseInv'
<1> SUFFICES ASSUME LeaseInv, [Next]_vars PROVE LeaseInv'
  OBVIOUS
<1> USE ConstantsAssumption
<1>0. TypeOK /\ TypeOK'
  BY TypeNext DEF LeaseInv
<1>1. ASSUME NEW e \in Entries, Enqueue(e) PROVE LeaseInv'
  <2>1. RowsInserted'
    BY <1>0, <1>1 DEF LeaseInv, RowsInserted, Enqueue, TypeOK, Ids
  <2>2. \A w \in Workers : \A c \in held[w] : c.id \in Ids /\ c.id # nextId
    BY <1>0 DEF LeaseInv, FencesKnown, TypeOK, Fences, Ids
  <2>3. /\ UNCHANGED <<held, attempts, lease>> /\ nextId \in Nat /\ nextId' = nextId + 1
        /\ \A i \in Ids \ {nextId} : place'[i] = place[i]
    BY <1>0, <1>1 DEF Enqueue, TypeOK
  <2>4. FencesKnown'
    BY <2>2, <2>3 DEF LeaseInv, FencesKnown, Ids
  <2>5. FencesUnique'
    BY <2>3 DEF LeaseInv, FencesUnique
  <2>6. LiveFencesCurrent'
    BY <2>2, <2>3 DEF LeaseInv, LiveFencesCurrent
  <2> QED
    BY <1>0, <2>1, <2>4, <2>5, <2>6 DEF LeaseInv
<1>2. ASSUME NEW w \in Workers, NEW t \in Topics, NEW S \in SUBSET Claimable(t), Claim(w, t, S)
      PROVE  LeaseInv'
  <2> DEFINE poisoned == {i \in S : Poisoned(i)}
             malformed == {i \in S \ poisoned : Malformed(i)}
             leased == S \ (poisoned \cup malformed)
  <2>1. \A i \in S : i \in Ids /\ place[i] = "queued" /\ LeaseFree(i)
    BY ClaimableRows
  <2>2. RowsInserted'
    BY <1>0, <1>2, <2>1 DEF LeaseInv, RowsInserted, Claim
  \* What the worker receives: the new current fence of each leased row.
  <2>3. ASSUME NEW c \in held'[w]
        PROVE  /\ c.id \in leased /\ c.id \in Ids /\ c.id < nextId
               /\ c = Fence(c.id)
               /\ c.attempts = attempts[c.id] + 1 /\ c.attempts = attempts'[c.id]
               /\ c.lease = lease'[c.id]
               /\ place'[c.id] = "queued"
    <3>1. held'[w] = {Fence(i) : i \in leased}
      BY <1>0, <1>2 DEF Claim, TypeOK
    <3>2. PICK i \in leased : c = Fence(i)
      BY <2>3, <3>1
    <3>3. c.id = i /\ c.attempts = attempts'[i] /\ c.lease = lease'[i]
      BY <3>2 DEF Fence
    <3>4. i \in Ids /\ place[i] = "queued"
      BY <2>1
    <3>5. attempts'[i] = attempts[i] + 1 /\ place'[i] = "queued"
      BY <1>2, <3>4 DEF Claim
    <3>6. i < nextId
      BY <3>4 DEF LeaseInv, RowsInserted
    <3> QED
      BY <3>2, <3>3, <3>4, <3>5, <3>6
  <2>4. \A v \in Workers \ {w} : held'[v] = held[v]
    BY <1>0, <1>2 DEF Claim, TypeOK
  \* What the others hold: fences of earlier attempts, and none live on S.
  <2>5. ASSUME NEW v \in Workers \ {w}, NEW c \in held[v]
        PROVE  /\ c.id \in Ids /\ c.id < nextId
               /\ c.attempts <= attempts[c.id] /\ c.attempts <= attempts'[c.id]
               /\ c.lease # Expired => c.id \notin S
    <3>1. c \in Fences /\ c.id \in Ids /\ c.attempts \in Nat /\ attempts[c.id] \in Nat
      BY <1>0 DEF TypeOK, Fences
    <3>2. c.id < nextId /\ c.attempts <= attempts[c.id]
      BY DEF LeaseInv, FencesKnown
    <3>3. attempts'[c.id] \in {attempts[c.id], attempts[c.id] + 1}
      BY <1>2, <3>1 DEF Claim
    <3>4. ASSUME c.lease # Expired PROVE c.id \notin S
      <4>1. lease[c.id] = c.lease /\ c.lease \in Int
        BY <3>1, <3>4 DEF LeaseInv, LiveFencesCurrent, Fences
      <4> QED
        BY <2>1, <3>4, <4>1 DEF LeaseFree
    <3> QED
      BY <3>1, <3>2, <3>3, <3>4
  <2>6. FencesKnown'
    <3> SUFFICES ASSUME NEW v \in Workers, NEW c \in held'[v]
                 PROVE  c.id < nextId' /\ c.attempts <= attempts'[c.id]
      BY DEF FencesKnown
    <3>1. nextId' = nextId
      BY <1>2 DEF Claim
    <3>2. CASE v = w
      <4>1. c.id \in Ids /\ c.id < nextId /\ c.attempts = attempts'[c.id]
        BY <2>3, <3>2
      <4>2. attempts'[c.id] \in Nat
        BY <1>0, <4>1 DEF TypeOK
      <4> QED
        BY <3>1, <4>1, <4>2
    <3>3. CASE v # w
      BY <2>4, <2>5, <3>1, <3>3
    <3> QED
      BY <3>2, <3>3
  <2>7. FencesUnique'
    <3> SUFFICES ASSUME NEW v \in Workers, NEW u \in Workers,
                        NEW c \in held'[v], NEW d \in held'[u],
                        c.id = d.id, c.attempts = d.attempts
                 PROVE  v = u /\ c = d
      BY DEF FencesUnique
    <3>1. \A i \in Ids : attempts[i] \in Nat
      BY <1>0 DEF TypeOK
    <3>2. CASE v = w /\ u = w
      BY <2>3, <3>2
    <3>3. CASE v # w /\ u # w
      BY <2>4, <3>3 DEF LeaseInv, FencesUnique
    <3>4. CASE v = w /\ u # w
      BY <2>3, <2>4, <2>5, <3>1, <3>4
    <3>5. CASE v # w /\ u = w
      BY <2>3, <2>4, <2>5, <3>1, <3>5
    <3> QED
      BY <3>2, <3>3, <3>4, <3>5
  <2>8. LiveFencesCurrent'
    <3> SUFFICES ASSUME NEW v \in Workers, NEW c \in held'[v], c.lease # Expired
                 PROVE  /\ place'[c.id] \in {"queued", "erased"}
                        /\ attempts'[c.id] = c.attempts
                        /\ lease'[c.id] = c.lease
      BY DEF LiveFencesCurrent
    <3>1. CASE v = w
      BY <2>3, <3>1
    <3>2. CASE v # w
      <4>1. c \in held[v] /\ c.id \in Ids /\ c.id \notin S
        BY <2>4, <2>5, <3>2
      <4> QED
        BY <1>2, <4>1 DEF LeaseInv, LiveFencesCurrent, Claim
    <3> QED
      BY <3>1, <3>2
  <2> QED
    BY <1>0, <2>2, <2>6, <2>7, <2>8 DEF LeaseInv
<1>3. ASSUME NEW w \in Workers, NEW c \in held[w], Settle(w, c) PROVE LeaseInv'
  <2>0. c \in Fences /\ c.id \in Ids
    BY <1>0 DEF TypeOK, Fences
  <2>1. CASE Ack(w, c)
    <3>1. /\ Matches(c) /\ Forget(w, c) /\ UNCHANGED <<nextId, entry, attempts>>
          /\ \A i \in Ids \ {c.id} : place'[i] = place[i] /\ lease'[i] = lease[i]
          /\ place'[c.id] = "acked"
      BY <1>0, <2>0, <2>1 DEF Ack, Settles, TypeOK
    <3> QED
      BY <1>0, <3>1, SettlementKeepsLeaseInv
  <2>2. ASSUME NEW backoff \in 0..MaxBackoff, Nack(w, c, backoff) PROVE LeaseInv'
    <3>1. /\ Matches(c) /\ Forget(w, c) /\ UNCHANGED <<nextId, entry, attempts>>
          /\ \A i \in Ids \ {c.id} : place'[i] = place[i] /\ lease'[i] = lease[i]
          /\ place'[c.id] = place[c.id]
      BY <1>0, <2>0, <2>2 DEF Nack, Settles, TypeOK
    <3> QED
      BY <1>0, <3>1, SettlementKeepsLeaseInv
  <2>3. CASE Reject(w, c)
    <3>1. /\ Matches(c) /\ Forget(w, c) /\ UNCHANGED <<nextId, entry, attempts>>
          /\ \A i \in Ids \ {c.id} : place'[i] = place[i] /\ lease'[i] = lease[i]
          /\ place'[c.id] = "dead"
      BY <1>0, <2>0, <2>3, SMTT(30) DEF Reject, Settles, TypeOK
    <3> QED
      BY <1>0, <3>1, SettlementKeepsLeaseInv
  <2>4. CASE SettleRefused(w, c)
    <3>1. \A v \in Workers : held'[v] \subseteq held[v]
      BY <1>0, <2>4 DEF SettleRefused, Forget, TypeOK
    <3> QED
      BY <1>0, <2>4, <3>1 DEF LeaseInv, RowsInserted, FencesKnown, FencesUnique,
                              LiveFencesCurrent, SettleRefused, rowVars
  <2> QED
    BY <1>3, <2>1, <2>2, <2>3, <2>4 DEF Settle
<1>4. ASSUME NEW w \in Workers, Crash(w) PROVE LeaseInv'
  <2>1. \A v \in Workers : held'[v] \subseteq held[v]
    BY <1>0, <1>4 DEF Crash, TypeOK
  <2> QED
    BY <1>0, <1>4, <2>1 DEF LeaseInv, RowsInserted, FencesKnown, FencesUnique,
                            LiveFencesCurrent, Crash, rowVars
<1>5. ASSUME NEW p \in Projects, NEW scope \in {"subject", "project"}, RequestErasure(p, scope)
      PROVE  LeaseInv'
  BY <1>0, <1>5 DEF LeaseInv, RowsInserted, FencesKnown, FencesUnique, LiveFencesCurrent,
                    RequestErasure, rowVars
<1>6. ASSUME NEW p \in Projects, NEW S \in SUBSET RowsOf(p), PurgeRows(p, S) PROVE LeaseInv'
  <2>1. \A i \in S : i \in Ids /\ place[i] # "absent"
    BY DEF RowsOf
  <2>2. RowsInserted'
    BY <1>0, <1>6, <2>1 DEF LeaseInv, RowsInserted, PurgeRows
  <2>3. \A w \in Workers : \A c \in held[w] : c.id \in Ids
    BY <1>0 DEF TypeOK, Fences
  <2>4. FencesKnown' /\ FencesUnique' /\ LiveFencesCurrent'
    BY <1>6, <2>3 DEF LeaseInv, FencesKnown, FencesUnique, LiveFencesCurrent, PurgeRows
  <2> QED
    BY <1>0, <2>2, <2>4 DEF LeaseInv
<1>7. ASSUME NEW p \in Projects, CompleteErasure(p) PROVE LeaseInv'
  BY <1>0, <1>7 DEF LeaseInv, RowsInserted, FencesKnown, FencesUnique, LiveFencesCurrent,
                    CompleteErasure, rowVars
<1>8. CASE Tick
  <2>1. ASSUME NEW w \in Workers, NEW c \in held'[w]
        PROVE  \E b \in held[w] : b \in Fences /\ c = LaterFence(b)
    BY <1>0, <1>8, <2>1 DEF Tick, TypeOK
  <2>2. RowsInserted'
    BY <1>8 DEF LeaseInv, RowsInserted, Tick
  <2>3. FencesKnown'
    BY <1>8, <2>1 DEF LeaseInv, FencesKnown, Tick, LaterFence
  <2>4. FencesUnique'
    <3> SUFFICES ASSUME NEW v \in Workers, NEW u \in Workers,
                        NEW c \in held'[v], NEW d \in held'[u],
                        c.id = d.id, c.attempts = d.attempts
                 PROVE  v = u /\ c = d
      BY DEF FencesUnique
    <3>1. PICK b \in held[v] : c = LaterFence(b)
      BY <2>1
    <3>2. PICK a \in held[u] : d = LaterFence(a)
      BY <2>1
    <3>3. b.id = a.id /\ b.attempts = a.attempts
      BY <3>1, <3>2 DEF LaterFence
    <3> QED
      BY <3>1, <3>2, <3>3 DEF LeaseInv, FencesUnique
  <2>5. LiveFencesCurrent'
    <3> SUFFICES ASSUME NEW w \in Workers, NEW c \in held'[w], c.lease # Expired
                 PROVE  /\ place'[c.id] \in {"queued", "erased"}
                        /\ attempts'[c.id] = c.attempts
                        /\ lease'[c.id] = c.lease
      BY DEF LiveFencesCurrent
    <3>1. PICK b \in held[w] : b \in Fences /\ c = LaterFence(b)
      BY <2>1
    <3>2. b.id \in Ids /\ b.lease \in Expired..LeaseTime
      BY <3>1 DEF Fences
    <3>3. c.id = b.id /\ c.attempts = b.attempts /\ c.lease = Elapse(b.lease, Expired)
      BY <3>1 DEF LaterFence
    <3>4. b.lease # Expired
      BY <3>2, <3>3 DEF Elapse, Expired
    <3>5. place[b.id] \in {"queued", "erased"} /\ attempts[b.id] = b.attempts /\ lease[b.id] = b.lease
      BY <3>4 DEF LeaseInv, LiveFencesCurrent
    <3>6. b.lease # NULL
      BY <3>2 DEF Expired
    <3> QED
      BY <1>8, <3>2, <3>3, <3>5, <3>6 DEF Tick, LaterLease
  <2> QED
    BY <1>0, <2>2, <2>3, <2>4, <2>5 DEF LeaseInv
<1>9. CASE UNCHANGED vars
  BY <1>0, <1>9 DEF LeaseInv, RowsInserted, FencesKnown, FencesUnique, LiveFencesCurrent,
                    vars, rowVars
<1> QED
  BY <1>1, <1>2, <1>3, <1>4, <1>5, <1>6, <1>7, <1>8, <1>9 DEF Next

LEMMA LeaseInvAlways == Spec => []LeaseInv
  BY LeaseInvInit, LeaseInvNext, PTL DEF Spec

\* A worker inside its lease is the row's only live holder, and its fence still
\* finds the row: for every number of workers and every lease time.
THEOREM LeaseSafety == Spec => [](LeaseExclusive /\ LiveClaimHonoured)
  BY LeaseInvAlways, LeaseInvImplies, PTL

-----------------------------------------------------------------------------
(***************************************************************************)
(* Deliveries.  While a row is in the queue, every attempt counted is a    *)
(* delivery made, and a claim counts one only below the limit; a row that  *)
(* was dead-lettered as exhausted is out of the queue for good.            *)
(***************************************************************************)
DeliveryInv ==
    \A i \in Ids :
        /\ attempts[i] <= MaxAttempts + 1
        /\ deliveries[i] <= MaxAttempts + 1
        /\ place[i] \in {"absent", "queued"} => deliveries[i] = attempts[i]
        /\ reason[i] = "max_attempts_exceeded" =>
               place[i] \in {"dead", "erased"} /\ deliveries[i] = MaxAttempts + 1

LEMMA DeliveryInvInit == Init => DeliveryInv
<1> SUFFICES ASSUME Init PROVE DeliveryInv
  OBVIOUS
<1> QED
  BY ConstantsAssumption, SMTT(30) DEF Init, DeliveryInv, Reasons

LEMMA DeliveryInvNext == LeaseInv /\ DeliveryInv /\ [Next]_vars => DeliveryInv'
<1> SUFFICES ASSUME LeaseInv, DeliveryInv, [Next]_vars, NEW i \in Ids PROVE DeliveryInv!(i)'
  BY DEF DeliveryInv
<1> USE ConstantsAssumption
<1>0. TypeOK
  BY DEF LeaseInv
<1>1. /\ attempts[i] \in Nat /\ deliveries[i] \in Nat
      /\ DeliveryInv!(i)
  BY <1>0 DEF TypeOK, DeliveryInv
<1>2. ASSUME NEW e \in Entries, Enqueue(e) PROVE DeliveryInv!(i)'
  <2>1. place[nextId] = "absent"
    BY <1>2, SMTT(30) DEF LeaseInv, RowsInserted, Enqueue, TypeOK, Ids
  <2> QED
    BY <1>0, <1>1, <1>2, <2>1 DEF Enqueue, TypeOK
<1>3. ASSUME NEW w \in Workers, NEW t \in Topics, NEW S \in SUBSET Claimable(t), Claim(w, t, S)
      PROVE  DeliveryInv!(i)'
  <2>1. CASE i \notin S
    BY <1>1, <1>3, <2>1 DEF Claim
  <2>2. CASE i \in S
    <3>1. place[i] = "queued"
      BY <2>2, ClaimableRows
    <3>2. CASE Poisoned(i)
      <4>1. /\ attempts'[i] = attempts[i] /\ deliveries'[i] = deliveries[i]
            /\ place'[i] = "dead"
        BY <1>3, <2>2, <3>2 DEF Claim
      <4> QED
        BY <1>1, <3>1, <3>2, <4>1, SMTT(30) DEF Poisoned
    <3>3. CASE ~Poisoned(i) /\ Malformed(i)
      <4>1. /\ attempts'[i] = attempts[i] + 1 /\ deliveries'[i] = deliveries[i]
            /\ place'[i] = "dead" /\ reason'[i] = "malformed_authority"
        BY <1>3, <2>2, <3>3 DEF Claim
      <4> QED
        BY <1>1, <3>3, <4>1, SMTT(30) DEF Poisoned
    <3>4. CASE ~Poisoned(i) /\ ~Malformed(i)
      <4>1. /\ attempts'[i] = attempts[i] + 1 /\ deliveries'[i] = deliveries[i] + 1
            /\ place'[i] = place[i] /\ reason'[i] = reason[i]
        BY <1>3, <2>2, <3>4, SMTT(30) DEF Claim
      <4> QED
        BY <1>1, <3>1, <3>4, <4>1, SMTT(30) DEF Poisoned
    <3> QED
      BY <3>2, <3>3, <3>4
  <2> QED
    BY <2>1, <2>2, ZenonT(30)
<1>4. ASSUME NEW w \in Workers, NEW c \in held[w], Settle(w, c) PROVE DeliveryInv!(i)'
  <2>0. c.id \in Ids
    BY <1>0, SMTT(30) DEF TypeOK, Fences
  <2>1. CASE Ack(w, c)
    BY <1>0, <1>1, <2>0, <2>1 DEF Ack, Settles, Matches, TypeOK
  <2>2. ASSUME NEW backoff \in 0..MaxBackoff, Nack(w, c, backoff) PROVE DeliveryInv!(i)'
    BY <1>1, <2>2 DEF Nack
  <2>3. CASE Reject(w, c)
    BY <1>0, <1>1, <2>0, <2>3, SMTT(30) DEF Reject, Settles, Matches, TypeOK
  <2>4. CASE SettleRefused(w, c)
    BY <1>1, <2>4 DEF SettleRefused, rowVars
  <2> QED
    BY <1>4, <2>1, <2>2, <2>3, <2>4 DEF Settle
<1>5. ASSUME NEW p \in Projects, NEW S \in SUBSET RowsOf(p), PurgeRows(p, S)
      PROVE  DeliveryInv!(i)'
  BY <1>1, <1>5 DEF PurgeRows
<1>6. ASSUME UNCHANGED <<place, attempts, deliveries, reason>> PROVE DeliveryInv!(i)'
  BY <1>1, <1>6
<1> QED
  BY <1>2, <1>3, <1>4, <1>5, <1>6
     DEF Next, Crash, RequestErasure, CompleteErasure, Tick, rowVars, vars

\* No row is delivered more than MaxAttempts + 1 times, and one that is dead as
\* exhausted was delivered exactly that often: for every MaxAttempts, number of
\* workers and schedule of crashes and lease expiries.
THEOREM DeliverySafety == Spec => []DeliveriesExact
<1>1. DeliveryInv => DeliveriesExact
  BY DEF DeliveryInv, DeliveriesExact
<1> QED
  BY <1>1, LeaseInvAlways, DeliveryInvInit, DeliveryInvNext, PTL DEF Spec

-----------------------------------------------------------------------------
\* No step of any worker consumes or claims a row whose project an erasure
\* fences: the erasure decides what becomes of it.
THEOREM FencedRowsSafety == Spec => FencedRowsFrozen
<1> DEFINE Frozen(i) ==
      (place[i] = "queued" /\ Fenced(entry[i].project)) =>
          /\ place'[i] \in {"queued", "erased"}
          /\ attempts'[i] = attempts[i]
          /\ deliveries'[i] = deliveries[i]
<1>1. ASSUME LeaseInv, [Next]_vars PROVE [\A i \in Ids : Frozen(i)]_vars
  <2> SUFFICES ASSUME Next, NEW i \in Ids, place[i] = "queued", Fenced(entry[i].project)
               PROVE  /\ place'[i] \in {"queued", "erased"}
                      /\ attempts'[i] = attempts[i]
                      /\ deliveries'[i] = deliveries[i]
    BY <1>1
  <2>0. TypeOK
    BY <1>1 DEF LeaseInv
  <2>1. ASSUME NEW e \in Entries, Enqueue(e) PROVE Frozen(i)
    BY <2>0, <2>1, SMTT(30) DEF Enqueue, TypeOK
  <2>2. ASSUME NEW w \in Workers, NEW t \in Topics, NEW S \in SUBSET Claimable(t), Claim(w, t, S)
        PROVE  Frozen(i)
    <3>1. i \notin S
      BY ClaimableRows, ZenonT(30)
    <3> QED
      BY <2>2, <3>1, ZenonT(30) DEF Claim
  <2>3. ASSUME NEW w \in Workers, NEW c \in held[w], Settle(w, c) PROVE Frozen(i)
    <3>0. c.id \in Ids
      BY <2>0, SMTT(30) DEF TypeOK, Fences
    <3>1. CASE Settles(c)
      <4>1. c.id # i
        BY <3>1, SMTT(30) DEF Settles
      <4> QED
        BY <2>0, <2>3, <3>0, <3>1, <4>1 DEF Settle, Ack, Nack, Reject, SettleRefused, TypeOK
    <3>2. CASE ~Settles(c)
      BY <2>3, <3>2, ZenonT(30) DEF Settle, Ack, Nack, Reject, SettleRefused, rowVars
    <3> QED
      BY <3>1, <3>2
  <2>4. ASSUME NEW p \in Projects, NEW S \in SUBSET RowsOf(p), PurgeRows(p, S) PROVE Frozen(i)
    BY <2>4 DEF PurgeRows
  <2> QED
    BY <2>1, <2>2, <2>3, <2>4 DEF Next, Crash, RequestErasure, CompleteErasure, Tick, rowVars
<1> QED
  BY <1>1, LeaseInvAlways, PTL DEF Spec, FencedRowsFrozen
=============================================================================
