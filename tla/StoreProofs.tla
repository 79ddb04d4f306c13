----------------------------- MODULE StoreProofs -----------------------------
(***************************************************************************)
(* What calls leave in the cache and what callers are told of it: stored   *)
(* state is under a policy the backend enforces and the namespaces it was  *)
(* computed in, it was reported where it was stored, and it stays for as   *)
(* long as nothing expires; and as long as no two calls can race for an    *)
(* expired entry, calls fail only where their own requests give cause, and *)
(* entries leave only once they are due.                                   *)
(***************************************************************************)
EXTENDS WalkProofs

-----------------------------------------------------------------------------
\* Where entries come from

\* An entry this step of t puts: under the keys of the fragment t stands at, with
\* the deadline of its policy, on behalf of the constraints of its prefix.
PutBy(t, k) ==
    /\ Store(t) \/ Donate(t)
    /\ AtFragment(t)
    /\ ConstraintsSoFar(t) # {}
    /\ k.namespaces = NamespacesSoFar(t)
    /\ k.partition = Partition(t)
    /\ lineage'[k].own = OwnSources(t)
    /\ entries'[k].expires_at = ExpiresAt(task[t].now, Effective(t).max_age)

Stays(k) == k \in DOMAIN entries /\ entries'[k] = entries[k] /\ lineage'[k] = lineage[k]

\* Putting an entry leaves the others alone (cache.py put).
LEMMA PutPuts ==
    ASSUME TypeOK, NEW t \in Threads, Store(t) \/ Donate(t),
           NEW k, k.namespaces = NamespacesSoFar(t), k.partition = Partition(t),
           NEW exact, PutState(t, k, exact), NEW j \in DOMAIN entries'
    PROVE  Stays(j) \/ PutBy(t, j)
<1>1. AtFragment(t) /\ ConstraintsSoFar(t) # {}
  BY Located DEF Store, Donate
<1>2. CASE ~KeepsEntries(Backend)
  BY <1>2 DEF PutState, Stays
<1>3. CASE KeepsEntries(Backend)
  <2>1. DOMAIN entries = DOMAIN lineage
    BY DEF TypeOK, LineageTypeOK
  <2>2. CASE j = k
    BY <1>1, <1>3, <2>1, <2>2 DEF PutState, Put, PutBy
  <2>3. CASE j # k
    BY <1>3, <2>1, <2>3 DEF PutState, Put, Stays
  <2>. QED
    BY <2>2, <2>3
<1>. QED
  BY <1>2, <1>3

\* Whatever step a call takes, what is in the cache after it was there before or
\* is put by it (gateway.py handle, cache.py).
LEMMA EntriesCome ==
    ASSUME TypeOK, NEW t \in Threads, Proceed(t), NEW j \in DOMAIN entries'
    PROVE  Stays(j) \/ PutBy(t, j)
<1>1. CASE UNCHANGED <<entries, lineage>>
  BY <1>1 DEF Stays
<1>2. ASSUME NEW k, Evict(k) PROVE Stays(j)
  BY <1>2 DEF Evict, Delete, Stays, TypeOK, LineageTypeOK
<1>3. CASE Store(t)
  <2>. DEFINE k == PrefixKey(t, ~task[t].tainted)
  <2>1. k.namespaces = NamespacesSoFar(t) /\ k.partition = Partition(t)
    BY DEF PrefixKey, CacheKey
  <2>2. PutState(t, k, ~task[t].tainted)
    BY <1>3 DEF Store
  <2>. QED
    BY <1>3, <2>1, <2>2, PutPuts
<1>4. CASE Donate(t)
  <2>1. DonorKey(t).namespaces = NamespacesSoFar(t) /\ DonorKey(t).partition = Partition(t)
    BY DEF DonorKey, CacheKey
  <2>2. PutState(t, DonorKey(t), FALSE)
    BY <1>4 DEF Donate
  <2>. QED
    BY <1>4, <2>1, <2>2, PutPuts
<1>5. CASE EvictExact(t) \/ EvictDonor(t)
  BY <1>2, <1>5 DEF EvictExact, EvictDonor
<1>6. CASE \/ PassUngoverned(t) \/ RejectMalformed(t) \/ RejectUnenforceable(t)
           \/ BypassUnenforceable(t) \/ LeaveUnobserved(t) \/ SkipLookup(t)
           \/ ExactHit(t) \/ ExactMiss(t) \/ ExactStale(t) \/ DonorHit(t) \/ DonorMiss(t)
           \/ DonorStale(t) \/ EvictMissing(t) \/ WithholdForbidden(t) \/ Decline(t) \/ Return(t)
  BY <1>1, <1>6 DEF PassUngoverned, RejectMalformed, RejectUnenforceable, BypassUnenforceable,
       LeaveUnobserved, SkipLookup, ExactHit, ExactMiss, ExactStale, DonorHit, DonorMiss,
       DonorStale, EvictMissing, WithholdForbidden, Decline, Return
<1>. QED
  BY <1>3, <1>4, <1>5, <1>6 DEF Proceed

\* The sources of a call's own state are the constraints of its prefix, all with
\* the id of the call.
LEMMA OwnConstraints ==
    ASSUME NEW t
    PROVE  /\ {s.constraints : s \in OwnSources(t)} = ConstraintsSoFar(t)
           /\ \A s \in OwnSources(t) : s.request = task[t].id
<1>1. \A s \in OwnSources(t) : s.constraints \in ConstraintsSoFar(t) /\ s.request = task[t].id
  BY DEF OwnSources
<1>2. ASSUME NEW c \in ConstraintsSoFar(t) PROVE \E s \in OwnSources(t) : s.constraints = c
  <2>. DEFINE s == [constraints |-> c, auth |-> task[t].request.auth, request |-> task[t].id,
                    at |-> task[t].now]
  <2>1. s \in OwnSources(t) /\ s.constraints = c
    BY DEF OwnSources
  <2>. QED
    BY <2>1
<1>. QED
  BY <1>1, <1>2

-----------------------------------------------------------------------------
\* The policy and the namespaces of stored state

StoredConstraints(k) == {s.constraints : s \in lineage[k].own}

\* The namespaces in the key of stored state are those that were supplied.
StoredSpaces ==
    \A k \in DOMAIN entries :
        SuppliedNamespaces(StoredConstraints(k)) = {k.namespaces[j] : j \in 1..Len(k.namespaces)}

StoreInv == WalkInv /\ StoredIsEnforceable /\ StoredSpaces

\* An entry a call puts is under an enforceable policy (gateway.py handle,
\* _check_enforceable).
LEMMA PutIsEnforceable ==
    ASSUME WalkInv, NEW t \in Threads, NEW k, PutBy(t, k)
    PROVE  /\ Enforceable(Compose(StoredConstraints(k)'), Backend)
           /\ entries'[k].expires_at # None => SupportsMaxAge(Backend)
           /\ SuppliedNamespaces(StoredConstraints(k)')
                = {k.namespaces[j] : j \in 1..Len(k.namespaces)}
<1>1. /\ TypeOK /\ Walked(task[t]) /\ AtFragment(t)
      /\ Enforceable(Effective(t), Backend)
  BY DEF WalkInv, KeepsEnforceable, PutBy, Store, Donate
<1>2. StoredConstraints(k)' = ConstraintsSoFar(t)
  BY OwnConstraints DEF StoredConstraints, PutBy
<1>3. Enforceable(Compose(StoredConstraints(k)'), Backend)
  BY <1>1, <1>2 DEF Effective
<1>4. entries'[k].expires_at # None => SupportsMaxAge(Backend)
  BY <1>1 DEF PutBy, ExpiresAt, Enforceable
<1>5. SuppliedNamespaces(StoredConstraints(k)') = {k.namespaces[j] : j \in 1..Len(k.namespaces)}
  BY <1>1, <1>2, SpacesSoFar DEF PutBy
<1>. QED
  BY <1>3, <1>4, <1>5

\* Whatever is stored is, and says in which namespaces (gateway.py _materialize,
\* identity.py cache_key).
LEMMA AlwaysStored == Spec => []StoreInv
<1>1. Init => StoreInv
  BY InitWalks DEF Init, EntriesInit, StoreInv, StoredIsEnforceable, StoredSpaces
<1>2. StoreInv /\ [Next]_vars => StoreInv'
  <2>. SUFFICES ASSUME StoreInv, [Next]_vars PROVE StoreInv'
    OBVIOUS
  <2>1. WalkInv /\ WalkInv'
    BY NextWalks DEF StoreInv
  <2>2. ASSUME NEW k \in DOMAIN entries', Stays(k) \/ \E t \in Threads : PutBy(t, k)
        PROVE  /\ Enforceable(Compose(StoredConstraints(k)'), Backend)
               /\ entries'[k].expires_at # None => SupportsMaxAge(Backend)
               /\ SuppliedNamespaces(StoredConstraints(k)')
                    = {k.namespaces[j] : j \in 1..Len(k.namespaces)}
    <3>1. CASE Stays(k)
      BY <3>1 DEF StoreInv, StoredIsEnforceable, StoredSpaces, StoredConstraints, Stays
    <3>2. CASE \E t \in Threads : PutBy(t, k)
      BY <2>1, <3>2, PutIsEnforceable
    <3>. QED
      BY <2>2, <3>1, <3>2
  <2>3. ASSUME NEW k \in DOMAIN entries' PROVE Stays(k) \/ \E t \in Threads : PutBy(t, k)
    <3>1. CASE UNCHANGED <<entries, lineage>>
      BY <2>3, <3>1 DEF Stays
    <3>2. ASSUME NEW t \in Threads, Proceed(t) PROVE Stays(k) \/ PutBy(t, k)
      BY <2>1, <2>3, <3>2, EntriesCome DEF WalkInv
    <3>3. ASSUME NEW t \in Threads, Arrive(t) PROVE UNCHANGED <<entries, lineage>>
      BY <3>3 DEF Arrive, Begin, RefuseUnsortable, RefuseRepeatedId, Accept
    <3>. QED
      BY <3>1, <3>2, <3>3 DEF Next, Tick, Terminating, vars
  <2>. QED
    BY <2>1, <2>2, <2>3 DEF StoreInv, StoredIsEnforceable, StoredSpaces, StoredConstraints
<1>. QED
  BY <1>1, <1>2, PTL DEF Spec

\* Stored state is under a policy the backend enforces (gateway.py
\* _check_enforceable, backends.py put).
THEOREM StoredAlwaysEnforceable == Spec => []StoredIsEnforceable
<1>1. StoreInv => StoredIsEnforceable
  BY DEF StoreInv
<1>. QED
  BY <1>1, AlwaysStored, PTL

\* State is reused only where the namespaces supplied are those it was computed
\* in (identity.py cache_key).
THEOREM NamespacesKeepApart == Spec => ReuseWithinNamespaces
<1>. DEFINE Alike == \A t \in Threads, k \in DOMAIN entries :
                        Reuses(t, k) => SuppliedNamespaces(StoredConstraints(k))
                                          = SuppliedNamespaces(ConstraintsSoFar(t))
<1>1. StoreInv => Alike
  <2>. SUFFICES ASSUME StoreInv, NEW t \in Threads, NEW k \in DOMAIN entries, Reuses(t, k)
                PROVE  SuppliedNamespaces(StoredConstraints(k))
                         = SuppliedNamespaces(ConstraintsSoFar(t))
    OBVIOUS
  <2>1. TypeOK /\ Walked(task[t])
    BY DEF StoreInv, WalkInv
  <2>2. AtFragment(t) /\ k.namespaces = NamespacesSoFar(t)
    <3>1. CASE ExactHit(t) /\ k = ExactKey(t)
      BY <2>1, <3>1, Located DEF ExactHit, LooksUp, Admitted, ExactKey, PrefixKey, CacheKey
    <3>2. CASE DonorHit(t) /\ k = DonorKey(t)
      BY <2>1, <3>2, Located DEF DonorHit, DonorKey, CacheKey
    <3>. QED
      BY <3>1, <3>2 DEF Reuses
  <2>. QED
    BY <2>1, <2>2, SpacesSoFar DEF StoreInv, StoredSpaces
<1>2. StoreInv => [Alike]_vars
  BY <1>1
<1>. QED
  BY <1>2, AlwaysStored, PTL DEF ReuseWithinNamespaces, StoredConstraints

-----------------------------------------------------------------------------
\* What callers are told of stored state

\* Ids are given out once: that of a call is no other's, and stored state has
\* only ids that were given out.
Numbered ==
    /\ \A t \in Threads : /\ task[t].id <= served
                          /\ task[t].request # None => task[t].id # 0
                          /\ \A u \in Threads \ {t} : task[u].id = task[t].id => task[t].id = 0
    /\ \A k \in DOMAIN entries : \A s \in lineage[k].own : s.request <= served

StoredBy(t, k) == \E s \in lineage[k].own : s.request = task[t].id

ReportedIn(t, k) ==
    \E i \in DOMAIN task[t].statuses :
        LET s == task[t].statuses[i]
        IN  /\ s.retention = "retained"
            /\ s.outcome # "exact_hit"
            /\ s.effective_share = k.partition.scope
            /\ s.namespaces = k.namespaces

\* Between the two puts of one fragment the report is still to come.
StillToReport(t, k) ==
    pc[t] = "donate" /\ k.partition = Partition(t) /\ k.namespaces = NamespacesSoFar(t)

TellsOfStored(t) ==
    /\ task[t].outcome # "exact_hit"
    /\ task[t].request # None /\ task[t].error = None =>
          \A k \in DOMAIN entries : StoredBy(t, k) => ReportedIn(t, k) \/ StillToReport(t, k)

ReportInv == PlanInv /\ Numbered /\ \A t \in Threads : TellsOfStored(t)

\* A call that begins takes the next id (gateway.py handle).
LEMMA ArriveNumbers ==
    ASSUME TypeOK, NEW t \in Threads, Arrive(t)
    PROVE  /\ served' = served + 1
           /\ task'[t].id = served + 1 /\ task'[t].request \in Requests
           /\ task'[t].outcome = None
           /\ UNCHANGED <<entries, lineage>>
<1>1. PICK r \in Requests : Begin(t, r) \/ RefuseUnsortable(t, r) \/ RefuseRepeatedId(t, r)
  BY DEF Arrive
<1>2. Accept(t, r)
  BY <1>1 DEF Begin, RefuseUnsortable, RefuseRepeatedId
<1>3. PICK order : \E error : task'[t] = Call(r, order, error)
  BY <1>1 DEF Begin, RefuseUnsortable, RefuseRepeatedId, TypeOK, CallsTypeOK
<1>. QED
  BY <1>2, <1>3 DEF Accept, Call

\* No other step does (gateway.py handle).
LEMMA ProceedNumbersNone ==
    ASSUME NEW t \in Threads, Proceed(t)
    PROVE  UNCHANGED <<clock, served>>
BY DEF Proceed, PassUngoverned, RejectMalformed, RejectUnenforceable, BypassUnenforceable,
       LeaveUnobserved, SkipLookup, ExactHit, ExactMiss, ExactStale, EvictExact, DonorHit,
       DonorMiss, DonorStale, EvictDonor, EvictMissing, WithholdForbidden, Decline, Store,
       Donate, Return

\* Ids stay each call's own (gateway.py handle).
LEMMA NextNumbers ==
    ASSUME TypeOK, Numbered, [Next]_vars
    PROVE  Numbered'
<1>1. /\ served \in Nat /\ task \in [Threads -> Calls]
      /\ \A u \in Threads : task[u].id \in Nat
      /\ \A k \in DOMAIN entries : \A s \in lineage[k].own : s.request \in Nat
  BY DEF TypeOK, CallsTypeOK, Calls, LineageTypeOK, Sources
<1>2. ASSUME NEW t \in Threads, Arrive(t) PROVE Numbered'
  <2>1. /\ served' = served + 1 /\ task'[t].id = served + 1
        /\ UNCHANGED <<entries, lineage>>
    BY <1>2, ArriveNumbers
  <2>2. \A u \in Threads \ {t} : task'[u] = task[u]
    BY <1>2, StepsAreLocal DEF OnlyMoves
  <2>3. \A u \in Threads \ {t} : task[u].id <= served
    BY DEF Numbered
  <2>4. \A u \in Threads : /\ task'[u].id <= served'
                           /\ task'[u].request # None => task'[u].id # 0
    BY <1>1, <2>1, <2>2, <2>3 DEF Numbered
  <2>5. \A u \in Threads : \A v \in Threads \ {u} : task'[v].id = task'[u].id => task'[u].id = 0
    <3>1. \A u \in Threads \ {t} : task'[u].id # task'[t].id
      BY <1>1, <2>1, <2>2, <2>3
    <3>. QED
      BY <2>2, <3>1 DEF Numbered
  <2>6. \A k \in DOMAIN entries' : \A s \in lineage'[k].own : s.request <= served'
    BY <1>1, <2>1 DEF Numbered
  <2>. QED
    BY <2>4, <2>5, <2>6 DEF Numbered
<1>3. ASSUME NEW t \in Threads, Proceed(t) PROVE Numbered'
  <2>1. served' = served
    BY <1>3, ProceedNumbersNone
  <2>2. \A u \in Threads : task'[u].id = task[u].id /\ task'[u].request = task[u].request
    BY <1>3, StepsAreLocal, RequestStays DEF OnlyMoves, KeepsRequest
  <2>3. ASSUME NEW k \in DOMAIN entries', NEW s \in lineage'[k].own PROVE s.request <= served'
    <3>1. CASE Stays(k)
      BY <2>1, <3>1, <2>3 DEF Stays, Numbered
    <3>2. CASE PutBy(t, k)
      BY <2>1, <3>2, <2>3, OwnConstraints DEF PutBy, Numbered
    <3>. QED
      BY <1>3, <3>1, <3>2, EntriesCome
  <2>. QED
    BY <2>1, <2>2, <2>3 DEF Numbered
<1>4. ASSUME UNCHANGED <<served, task, entries, lineage>> PROVE Numbered'
  BY <1>4 DEF Numbered
<1>. QED
  BY <1>2, <1>3, <1>4 DEF Next, Tick, Terminating, vars

\* Between its two puts a call can only donate (gateway.py _materialize).
LEMMA DonatesNext ==
    ASSUME NEW t \in Threads, Proceed(t), pc[t] = "donate"
    PROVE  Donate(t)
BY DEF Proceed, PassUngoverned, RejectMalformed, RejectUnenforceable, BypassUnenforceable,
       LeaveUnobserved, SkipLookup, ExactHit, ExactMiss, ExactStale, EvictExact, DonorHit,
       DonorMiss, DonorStale, EvictDonor, EvictMissing, WithholdForbidden, Decline, Store,
       Return, Reached, ReachedPolicy, Admitted, LooksUp

\* _resolve leaves no call with the outcome of an exact hit, which is reported at
\* once (gateway.py handle).
LEMMA NoExactHitKept ==
    ASSUME TypeOK, NEW t \in Threads, Proceed(t), task[t].outcome # "exact_hit"
    PROVE  task'[t].outcome # "exact_hit"
<1>1. task \in [Threads -> Calls] /\ None # "exact_hit"
  BY NoneIsOther DEF TypeOK, CallsTypeOK, Outcomes
<1>2. ASSUME NEW status, Report(t, status) PROVE task'[t].outcome = task[t].outcome
  BY <1>1, <1>2 DEF Report, Calls
<1>3. ASSUME NEW error, Raise(t, error) PROVE task'[t].outcome = task[t].outcome
  BY <1>1, <1>3 DEF Raise, Calls
<1>4. ASSUME NEW place, NEW outcome, NEW tainted, Continue(t, place, outcome, tainted)
      PROVE  task'[t].outcome = outcome
  BY <1>1, <1>4 DEF Continue, Calls
<1>5. CASE \/ PassUngoverned(t) \/ BypassUnenforceable(t) \/ LeaveUnobserved(t)
           \/ ExactHit(t) \/ WithholdForbidden(t) \/ Decline(t) \/ Donate(t)
  BY <1>2, <1>5 DEF PassUngoverned, BypassUnenforceable, LeaveUnobserved, ExactHit,
                    WithholdForbidden, Decline, Donate, ReportComputed
<1>6. CASE RejectMalformed(t) \/ RejectUnenforceable(t) \/ EvictMissing(t)
  BY <1>3, <1>6 DEF RejectMalformed, RejectUnenforceable, EvictMissing
<1>7. CASE \/ SkipLookup(t) \/ ExactMiss(t) \/ ExactStale(t) \/ EvictExact(t)
           \/ DonorHit(t) \/ DonorMiss(t) \/ DonorStale(t) \/ EvictDonor(t)
  BY <1>1, <1>4, <1>7 DEF SkipLookup, ExactMiss, ExactStale, EvictExact, AfterExactMiss,
                          DonorHit, DonorMiss, DonorStale, EvictDonor
<1>8. CASE Store(t)
  BY <1>2, <1>4, <1>8 DEF Store, ReportComputed
<1>9. CASE Return(t)
  BY <1>9 DEF Return
<1>. QED
  BY <1>5, <1>6, <1>7, <1>8, <1>9 DEF Proceed

\* Going on with the same fragment keeps its keys (gateway.py handle).
LEMMA ContinueStays ==
    ASSUME TypeOK, NEW t \in Threads, NEW place, NEW outcome, NEW tainted,
           Continue(t, place, outcome, tainted)
    PROVE  /\ task'[t].order = task[t].order /\ task'[t].pos = task[t].pos
           /\ task'[t].request = task[t].request /\ task'[t].id = task[t].id
           /\ task'[t].statuses = task[t].statuses /\ task'[t].error = task[t].error
           /\ task'[t].outcome = outcome /\ task'[t].tainted = tainted
           /\ pc'[t] = place
           /\ Effective(t)' = Effective(t)
           /\ Partition(t)' = Partition(t)
           /\ NamespacesSoFar(t)' = NamespacesSoFar(t)
           /\ \A exact : PrefixKey(t, exact)' = PrefixKey(t, exact)
           /\ ExactKey(t)' = ExactKey(t)
           /\ DonorKey(t)' = DonorKey(t)
<1>1. task \in [Threads -> Calls] /\ pc \in [Threads -> Places]
  BY DEF TypeOK, CallsTypeOK
<1>2. /\ task'[t].order = task[t].order /\ task'[t].pos = task[t].pos
      /\ task'[t].constraints = task[t].constraints /\ task'[t].contents = task[t].contents
      /\ task'[t].namespaces = task[t].namespaces
      /\ task'[t].request = task[t].request /\ task'[t].id = task[t].id
      /\ task'[t].statuses = task[t].statuses /\ task'[t].error = task[t].error
      /\ task'[t].outcome = outcome /\ task'[t].tainted = tainted
      /\ pc'[t] = place
  BY <1>1 DEF Continue, Calls
<1>3. Fragment(t)' = Fragment(t)
  BY <1>2 DEF Fragment
<1>4. Effective(t)' = Effective(t)
  BY <1>2, <1>3 DEF Effective, ConstraintsSoFar
<1>5. /\ Partition(t)' = Partition(t) /\ NamespacesSoFar(t)' = NamespacesSoFar(t)
      /\ ContentsSoFar(t)' = ContentsSoFar(t)
  BY <1>2, <1>3, <1>4 DEF Partition, NamespacesSoFar, ContentsSoFar
<1>6. /\ \A exact : PrefixKey(t, exact)' = PrefixKey(t, exact)
      /\ ExactKey(t)' = ExactKey(t)
  BY <1>5 DEF PrefixKey, ExactKey
<1>7. DonorKey(t)' = DonorKey(t)
  BY <1>3, <1>5 DEF DonorKey
<1>. QED
  BY <1>2, <1>4, <1>5, <1>6, <1>7

\* A report adds to what the caller is told (gateway.py handle).
LEMMA ReportTells ==
    ASSUME TypeOK, NEW t \in Threads, NEW status, Report(t, status), NEW k
    PROVE  /\ ReportedIn(t, k) => ReportedIn(t, k)'
           /\ /\ status.retention = "retained" /\ status.outcome # "exact_hit"
              /\ status.effective_share = k.partition.scope /\ status.namespaces = k.namespaces
              => ReportedIn(t, k)'
<1>. DEFINE c == task[t]
            n == Len(c.statuses)
<1>1. c.statuses \in Seq(Statuses) /\ n \in Nat
  BY DEF TypeOK, CallsTypeOK, Calls
<1>2. task'[t].statuses = Append(c.statuses, status)
  BY ReportLeaves
<1>3. /\ DOMAIN task'[t].statuses = 1..(n + 1) /\ DOMAIN c.statuses = 1..n
      /\ \A i \in 1..n : task'[t].statuses[i] = c.statuses[i]
      /\ task'[t].statuses[n + 1] = status
  BY <1>1, <1>2
<1>4. ReportedIn(t, k) => ReportedIn(t, k)'
  BY <1>1, <1>3 DEF ReportedIn
<1>5. n + 1 \in DOMAIN task'[t].statuses
  BY <1>1, <1>3
<1>. QED
  BY <1>3, <1>4, <1>5 DEF ReportedIn

\* What a call puts and reports at a fragment is told where it is kept (gateway.py
\* _materialize).
LEMMA PutTells ==
    ASSUME TypeOK, NEW t \in Threads, AtFragment(t), task[t].outcome # "exact_hit",
           ReportComputed(t, "retained"),
           NEW k, k.partition = Partition(t), k.namespaces = NamespacesSoFar(t)
    PROVE  ReportedIn(t, k)'
<1>. DEFINE status == Governed(t, task[t].outcome, "retained", ~task[t].tainted)
<1>1. Report(t, status)
  BY DEF ReportComputed
<1>2. /\ status.retention = "retained" /\ status.outcome # "exact_hit"
      /\ status.effective_share = Effective(t).share_max
      /\ status.namespaces = NamespacesSoFar(t)
  BY DEF Governed
<1>3. k.partition.scope = Effective(t).share_max
  BY DEF Partition, PartitionFor
<1>. HIDE DEF status
<1>. QED
  BY <1>1, <1>2, <1>3, ReportTells

\* Or is told when the donor is put (gateway.py _materialize).
LEMMA PutStillTells ==
    ASSUME TypeOK, NEW t \in Threads, AtFragment(t),
           NEW outcome, NEW tainted, Continue(t, "donate", outcome, tainted),
           NEW k, k.partition = Partition(t), k.namespaces = NamespacesSoFar(t)
    PROVE  StillToReport(t, k)'
BY ContinueStays DEF StillToReport

\* A call that raises has nothing to tell; the other steps that put nothing keep
\* what was told (gateway.py handle).
LEMMA ProceedTells ==
    ASSUME ReportInv, NEW t \in Threads, Proceed(t)
    PROVE  TellsOfStored(t)'
<1>1. /\ TypeOK /\ TellsOfStored(t) /\ RunsToEnd(t) /\ task[t].outcome # "exact_hit"
      /\ task \in [Threads -> Calls] /\ pc \in [Threads -> Places]
  BY DEF ReportInv, PlanInv, WalkInv, TypeOK, CallsTypeOK, TellsOfStored
<1>2. task'[t].outcome # "exact_hit"
  BY <1>1, NoExactHitKept
<1>3. task'[t].request = task[t].request /\ task'[t].id = task[t].id
  BY <1>1, RequestStays DEF KeepsRequest
<1>4. SUFFICES ASSUME task[t].request # None, task'[t].error = None,
                      NEW k \in DOMAIN entries', StoredBy(t, k)'
               PROVE  ReportedIn(t, k)' \/ StillToReport(t, k)'
  BY <1>2, <1>3 DEF TellsOfStored
<1>5. (Stays(k) /\ StoredBy(t, k)) \/ PutBy(t, k)
  BY <1>1, <1>3, <1>4, EntriesCome DEF Stays, StoredBy
<1>6. ASSUME Stays(k), StoredBy(t, k), task[t].error = None
      PROVE  ReportedIn(t, k) \/ StillToReport(t, k)
  BY <1>1, <1>4, <1>6 DEF TellsOfStored, Stays
<1>7. CASE Store(t)
  <2>1. AtFragment(t) /\ task[t].error = None /\ pc[t] # "donate"
    BY <1>1, <1>7, Located DEF Store, RunsToEnd
  <2>2. CASE ReportComputed(t, "retained")
    <3>1. ReportedIn(t, k) => ReportedIn(t, k)'
      BY <1>1, <2>2, ReportTells DEF ReportComputed
    <3>2. CASE PutBy(t, k)
      BY <1>1, <2>1, <2>2, <3>2, PutTells DEF PutBy
    <3>. QED
      BY <1>5, <1>6, <2>1, <3>1, <3>2 DEF StillToReport
  <2>3. CASE Continue(t, "donate", task[t].outcome, task[t].tainted)
    <3>1. ReportedIn(t, k) => ReportedIn(t, k)'
      <4>1. task'[t].statuses = task[t].statuses
        BY <1>1, <2>3 DEF Continue, Calls
      <4>. QED
        BY <4>1 DEF ReportedIn
    <3>2. CASE PutBy(t, k)
      BY <1>1, <2>1, <2>3, <3>2, PutStillTells DEF PutBy
    <3>. QED
      BY <1>5, <1>6, <2>1, <3>1, <3>2 DEF StillToReport
  <2>. QED
    BY <1>7, <2>2, <2>3 DEF Store
<1>8. CASE Donate(t)
  <2>1. AtFragment(t) /\ task[t].error = None /\ ReportComputed(t, "retained")
    BY <1>1, <1>8, Located DEF Donate, RunsToEnd
  <2>2. ReportedIn(t, k) => ReportedIn(t, k)'
    BY <1>1, <2>1, ReportTells DEF ReportComputed
  <2>3. ASSUME k.partition = Partition(t), k.namespaces = NamespacesSoFar(t)
        PROVE  ReportedIn(t, k)'
    BY <1>1, <2>1, <2>3, PutTells
  <2>. QED
    BY <1>5, <1>6, <2>1, <2>2, <2>3 DEF StillToReport, PutBy
<1>9. CASE ~(Store(t) \/ Donate(t))
  <2>1. Stays(k) /\ StoredBy(t, k) /\ pc[t] # "donate"
    BY <1>5, <1>9, DonatesNext DEF PutBy
  <2>2. ASSUME task[t].error = None PROVE ReportedIn(t, k)
    BY <1>6, <2>1, <2>2 DEF StillToReport
  <2>3. ASSUME NEW status, Report(t, status) PROVE ReportedIn(t, k)'
    <3>1. task[t].error = None
      BY <1>1, <1>4, <2>3, ReportLeaves
    <3>. QED
      BY <1>1, <2>2, <2>3, <3>1, ReportTells
  <2>4. ASSUME NEW error \in Errors, Raise(t, error) PROVE FALSE
    <3>1. task'[t].error = error
      BY <1>1, <2>4 DEF Raise, Calls
    <3>. QED
      BY <1>4, <3>1, NoneIsOther
  <2>5. ASSUME GoesOn(t) \/ Return(t) PROVE ReportedIn(t, k)'
    <3>1. task'[t].statuses = task[t].statuses /\ task'[t].error = task[t].error
      <4>1. CASE GoesOn(t)
        BY <1>1, <4>1 DEF GoesOn, Continue, Calls
      <4>2. CASE Return(t)
        BY <4>2 DEF Return
      <4>. QED
        BY <2>5, <4>1, <4>2
    <3>. QED
      BY <1>4, <2>2, <3>1 DEF ReportedIn
  <2>. QED
    BY <1>1, <2>3, <2>4, <2>5, StepShapes
<1>. QED
  BY <1>7, <1>8, <1>9

\* The steps of other calls change nothing of what a call has told (gateway.py
\* handle).
LEMMA OthersTell ==
    ASSUME ReportInv, NEW t \in Threads, Arrive(t) \/ Proceed(t), NEW u \in Threads \ {t}
    PROVE  TellsOfStored(u)'
<1>1. /\ TypeOK /\ TellsOfStored(u) /\ Numbered
      /\ task'[u] = task[u] /\ pc'[u] = pc[u]
  BY StepsAreLocal DEF ReportInv, PlanInv, WalkInv, OnlyMoves
<1>2. SUFFICES ASSUME task[u].request # None, task[u].error = None,
                      NEW k \in DOMAIN entries', StoredBy(u, k)'
               PROVE  ReportedIn(u, k) \/ StillToReport(u, k)
  <2>1. \A k : /\ ReportedIn(u, k)' <=> ReportedIn(u, k)
               /\ StillToReport(u, k)' <=> StillToReport(u, k)
    BY <1>1 DEF ReportedIn, StillToReport, Partition, NamespacesSoFar, Effective,
                ConstraintsSoFar, Fragment
  <2>. QED
    BY <1>1, <2>1 DEF TellsOfStored
<1>3. k \in DOMAIN entries /\ StoredBy(u, k)
  <2>1. CASE Arrive(t)
    <3>1. UNCHANGED <<entries, lineage>>
      BY <1>1, <2>1, ArriveNumbers
    <3>. QED
      BY <1>1, <1>2, <3>1 DEF StoredBy
  <2>2. CASE Proceed(t)
    <3>1. CASE Stays(k)
      BY <1>1, <1>2, <3>1 DEF Stays, StoredBy
    <3>2. CASE PutBy(t, k)
      <4>1. task[u].id = task[t].id
        BY <1>1, <1>2, <3>2, OwnConstraints DEF StoredBy, PutBy
      <4>2. task[u].id # 0 /\ t \in Threads \ {u}
        BY <1>1, <1>2 DEF Numbered
      <4>. QED
        BY <1>1, <4>1, <4>2 DEF Numbered
    <3>. QED
      BY <1>1, <2>2, <3>1, <3>2, EntriesCome
  <2>. QED
    BY <2>1, <2>2
<1>. QED
  BY <1>1, <1>2, <1>3 DEF TellsOfStored

\* No state is stored by a call that has only begun (gateway.py handle).
LEMMA ArriveTells ==
    ASSUME ReportInv, NEW t \in Threads, Arrive(t)
    PROVE  TellsOfStored(t)'
<1>1. /\ TypeOK /\ Numbered /\ served \in Nat
      /\ task'[t].id = served + 1 /\ task'[t].outcome = None
      /\ UNCHANGED <<entries, lineage>>
  BY ArriveNumbers DEF ReportInv, PlanInv, WalkInv, TypeOK
<1>2. None # "exact_hit"
  BY NoneIsOther DEF Outcomes
<1>3. ASSUME NEW k \in DOMAIN entries, NEW s \in lineage[k].own PROVE s.request # served + 1
  <2>1. s.request \in Nat /\ s.request <= served
    BY <1>1 DEF TypeOK, LineageTypeOK, Sources, Numbered
  <2>. QED
    BY <1>1, <2>1
<1>. QED
  BY <1>1, <1>2, <1>3 DEF TellsOfStored, StoredBy

\* State left by a call that returned was reported as retained, where it is kept
\* (gateway.py _materialize, FragmentStatus).
THEOREM StoredAlwaysReported == Spec => []StoredIsReported
<1>1. Init => ReportInv
  <2>. SUFFICES ASSUME Init PROVE Numbered /\ \A t \in Threads : TellsOfStored(t)
    BY InitPlans DEF ReportInv
  <2>1. /\ \A t \in Threads : task[t] = NoCall
        /\ served = 0 /\ DOMAIN entries = {}
    BY DEF Init, EntriesInit
  <2>2. None # "exact_hit"
    BY NoneIsOther DEF Outcomes
  <2>. QED
    BY <2>1, <2>2 DEF Numbered, TellsOfStored, NoCall
<1>2. ReportInv /\ [Next]_vars => ReportInv'
  <2>. SUFFICES ASSUME ReportInv, [Next]_vars PROVE ReportInv'
    OBVIOUS
  <2>1. TypeOK /\ PlanInv' /\ Numbered'
    BY NextPlans, NextNumbers DEF ReportInv, PlanInv, WalkInv
  <2>2. ASSUME NEW t \in Threads, Arrive(t) \/ Proceed(t), NEW u \in Threads
        PROVE  TellsOfStored(u)'
    <3>1. CASE u = t
      BY <2>2, <3>1, ArriveTells, ProceedTells
    <3>2. CASE u # t
      BY <2>2, <3>2, OthersTell
    <3>. QED
      BY <3>1, <3>2
  <2>3. ASSUME UNCHANGED <<entries, pc, task, lineage>>, NEW u \in Threads
        PROVE  TellsOfStored(u)'
    <3>1. \A k : /\ ReportedIn(u, k)' <=> ReportedIn(u, k)
                 /\ StillToReport(u, k)' <=> StillToReport(u, k)
                 /\ StoredBy(u, k)' <=> StoredBy(u, k)
      BY <2>3 DEF ReportedIn, StillToReport, StoredBy, Partition, NamespacesSoFar, Effective,
                  ConstraintsSoFar, Fragment
    <3>. QED
      BY <2>3, <3>1 DEF TellsOfStored, ReportInv
  <2>4. \A u \in Threads : TellsOfStored(u)'
    BY <2>2, <2>3 DEF Next, Tick, Terminating, vars
  <2>. QED
    BY <2>1, <2>4 DEF ReportInv
<1>3. ReportInv => StoredIsReported
  BY DEF ReportInv, TellsOfStored, StoredIsReported, Ended, StoredBy, ReportedIn, StillToReport
<1>. QED
  BY <1>1, <1>2, <1>3, PTL DEF Spec

-----------------------------------------------------------------------------
\* Entries that do not expire, and threads that do not race for those that do

\* No deadline is ever set: the backend keeps none, or no request asks for one.
NothingExpires ==
    \/ ~SupportsMaxAge(Backend)
    \/ \A r \in Requests : \A i \in DOMAIN r.fragments :
          r.fragments[i].intent \notin {None, Malformed} => r.fragments[i].intent.max_age = None

OneThread == \A t, u \in Threads : t = u

HasNoDeadlines ==
    /\ \A k \in DOMAIN entries : entries[k].expires_at = None
    /\ \A t \in Threads : pc[t] \notin {"evict", "evict_donor"} /\ task[t].error # "KeyError"

\* A call reads the clock once, when it begins.
ReadsThePast(t) == task[t].now \in Nat /\ task[t].now <= clock

EvictsWhatIsThere ==
    \A t \in Threads : /\ pc[t] = "evict" => Stale(ExactKey(t), task[t].now)
                       /\ pc[t] = "evict_donor" => Stale(DonorKey(t), task[t].now)
                       /\ task[t].error # "KeyError"
                       /\ ReadsThePast(t)

\* A call that failed gave cause, unless another deleted the entry it was to delete.
FailsWithCause(t) ==
    Ended(t) /\ task[t].error \notin {None, "KeyError"} => GivesCause(t)

\* What a call has reported as retained is there, and so is what it has put but not
\* yet reported.
KeepsRetained(t) ==
    /\ pc[t] = "donate" => Present(PrefixKey(t, ~task[t].tainted))
    /\ \A i \in DOMAIN task[t].statuses :
          task[t].statuses[i].retention = "retained" =>
              \E k \in DOMAIN entries : KeptAs(t, i, k)

\* A call in progress goes over the fragments of its own request (gateway.py
\* plan_order).
LEMMA GoesOverItsOwn ==
    ASSUME PlanInv, NEW t \in Threads, pc[t] # "idle"
    PROVE  LET c == task[t]
           IN  /\ c.request \in Requests /\ ~SortRaises(c.request) /\ ~RepeatsId(c.request)
               /\ DOMAIN c.order = DOMAIN c.request.fragments
               /\ \A i \in DOMAIN c.order :
                     \E k \in DOMAIN c.request.fragments : c.order[i] = c.request.fragments[k]
               /\ ~c.request.equivalence_declared => c.order = c.request.fragments
<1>. DEFINE c == task[t]
<1>1. /\ TypeOK /\ Planned(c) /\ c.error = None
      /\ c.request \in Requests /\ c.request # None
  BY CallTypes, NoRequestAssumption DEF PlanInv, WalkInv, RunsToEnd
<1>2. /\ ~SortRaises(c.request) /\ ~RepeatsId(c.request)
      /\ c.order \in PlannedOrders(c.request)
  BY <1>1 DEF Planned
<1>. QED
  BY <1>1, <1>2, PlansSorted

\* A call ends where handle raises or returns, and nowhere else (gateway.py handle).
LEMMA StaysInCall ==
    ASSUME TypeOK, NEW t \in Threads, Proceed(t),
           ~(RejectMalformed(t) \/ RejectUnenforceable(t) \/ EvictMissing(t) \/ Return(t))
    PROVE  pc'[t] # "idle"
<1>1. ASSUME NEW status, Report(t, status) PROVE pc'[t] # "idle"
  BY <1>1, ReportLeaves
<1>2. ASSUME NEW place, NEW outcome, NEW tainted, Continue(t, place, outcome, tainted),
             place # "idle"
      PROVE  pc'[t] # "idle"
  BY <1>2, ContinueStays
<1>3. CASE \/ PassUngoverned(t) \/ BypassUnenforceable(t) \/ LeaveUnobserved(t)
           \/ ExactHit(t) \/ WithholdForbidden(t) \/ Decline(t) \/ Donate(t)
  BY <1>1, <1>3 DEF PassUngoverned, BypassUnenforceable, LeaveUnobserved, ExactHit,
                    WithholdForbidden, Decline, Donate, ReportComputed
<1>4. CASE \/ SkipLookup(t) \/ ExactMiss(t) \/ ExactStale(t) \/ EvictExact(t)
           \/ DonorHit(t) \/ DonorMiss(t) \/ DonorStale(t) \/ EvictDonor(t)
  BY <1>2, <1>4 DEF SkipLookup, ExactMiss, ExactStale, EvictExact, AfterExactMiss,
                    DonorHit, DonorMiss, DonorStale, EvictDonor
<1>5. CASE Store(t)
  BY <1>1, <1>2, <1>5 DEF Store, ReportComputed
<1>. QED
  BY <1>3, <1>4, <1>5 DEF Proceed

\* With nothing to expire, no policy that is handled has a bound (gateway.py
\* _check_enforceable, compose.py compose_max_age).
LEMMA NoAge ==
    ASSUME NothingExpires, PlanInv, NEW t \in Threads, AtFragment(t), ConstraintsSoFar(t) # {},
           Enforceable(Effective(t), Backend)
    PROVE  Effective(t).max_age = None
<1>1. CASE ~SupportsMaxAge(Backend)
  BY <1>1 DEF Enforceable
<1>2. CASE \A r \in Requests : \A i \in DOMAIN r.fragments :
             r.fragments[i].intent \notin {None, Malformed} => r.fragments[i].intent.max_age = None
  <2>. DEFINE c == task[t]
              C == ConstraintsSoFar(t)
              ages == {d.max_age : d \in C}
  <2>1. /\ TypeOK /\ Walked(c) /\ c \in Calls /\ c.request \in Requests
        /\ \A i \in DOMAIN c.order :
              \E k \in DOMAIN c.request.fragments : c.order[i] = c.request.fragments[k]
    BY GoesOverItsOwn DEF PlanInv, WalkInv, AtFragment, TypeOK, CallsTypeOK
  <2>2. /\ C = Prefix(c, c.pos) /\ c.pos \in 1..Len(c.order) /\ C \subseteq Constraints
        /\ DOMAIN c.order = 1..Len(c.order) /\ Len(c.order) \in Nat
    BY <2>1, ReachedPrefix, PrefixTypes DEF Calls
  <2>3. ASSUME NEW d \in C PROVE d.max_age = None
    <3>1. PICK j \in 1..c.pos : d = c.order[j].intent
      BY <2>2 DEF Prefix
    <3>2. d \notin {None, Malformed}
      BY <2>2, MalformedAssumption
    <3>3. j \in DOMAIN c.order
      BY <2>2
    <3>. QED
      BY <1>2, <2>1, <3>1, <3>2, <3>3
  <2>4. ComposeMaxAge(ages) = None
    BY <2>3 DEF ComposeMaxAge
  <2>. QED
    BY <2>4 DEF Effective, Compose
<1>. QED
  BY <1>1, <1>2 DEF NothingExpires

\* What a call that begins leaves of its thread (gateway.py handle).
LEMMA ArriveStands ==
    ASSUME TypeOK, NEW t \in Threads, Arrive(t)
    PROVE  /\ pc'[t] \in {"idle", "walk"} /\ task'[t].error # "KeyError"
           /\ task'[t].statuses = <<>>
           /\ UNCHANGED <<entries, lineage>>
<1>1. pc \in [Threads -> Places] /\ task \in [Threads -> Calls]
  BY DEF TypeOK, CallsTypeOK
<1>2. PICK r \in Requests : Begin(t, r) \/ RefuseUnsortable(t, r) \/ RefuseRepeatedId(t, r)
  BY DEF Arrive
<1>3. pc'[t] \in {"idle", "walk"} /\ UNCHANGED <<entries, lineage>>
  BY <1>1, <1>2 DEF Begin, RefuseUnsortable, RefuseRepeatedId, Accept
<1>4. PICK order : \E error \in {None, "Invalid", "DuplicateFragmentId"} :
                      task'[t] = Call(r, order, error)
  BY <1>1, <1>2 DEF Begin, RefuseUnsortable, RefuseRepeatedId
<1>5. None # "KeyError"
  BY NoneIsOther DEF Errors
<1>. QED
  BY <1>3, <1>4, <1>5 DEF Call

\* A thread goes to delete an entry only when it has read a stale one, and fails
\* there only when the entry is gone (cache.py get).
LEMMA EvictsStale ==
    ASSUME TypeOK, NEW t \in Threads, Proceed(t), task[t].error # "KeyError"
    PROVE  /\ pc'[t] = "evict" => ExactStale(t)
           /\ pc'[t] = "evict_donor" => DonorStale(t)
           /\ task'[t].error = "KeyError" => EvictMissing(t)
<1>1. task \in [Threads -> Calls] /\ pc \in [Threads -> Places]
  BY DEF TypeOK, CallsTypeOK
<1>2. ASSUME NEW status, Report(t, status)
      PROVE  pc'[t] = "walk" /\ task'[t].error # "KeyError"
  BY <1>1, <1>2, ReportLeaves
<1>3. ASSUME NEW place, NEW outcome, NEW tainted, Continue(t, place, outcome, tainted)
      PROVE  pc'[t] = place /\ task'[t].error # "KeyError"
  BY <1>1, <1>3, ContinueStays
<1>4. CASE \/ PassUngoverned(t) \/ BypassUnenforceable(t) \/ LeaveUnobserved(t)
           \/ ExactHit(t) \/ WithholdForbidden(t) \/ Decline(t) \/ Donate(t)
  <2>1. \E status : Report(t, status)
    BY <1>4 DEF PassUngoverned, BypassUnenforceable, LeaveUnobserved, ExactHit,
                WithholdForbidden, Decline, Donate, ReportComputed
  <2>. QED
    BY <1>2, <2>1
<1>5. CASE RejectMalformed(t) \/ RejectUnenforceable(t)
  <2>1. pc'[t] = "idle" /\ task'[t].error \in {"Invalid", "UnenforceableConstraint"}
    BY <1>1, <1>5 DEF RejectMalformed, RejectUnenforceable, Raise, Calls
  <2>. QED
    BY <2>1
<1>6. CASE \/ SkipLookup(t) \/ ExactMiss(t) \/ EvictExact(t)
           \/ DonorHit(t) \/ DonorMiss(t) \/ EvictDonor(t)
  <2>1. \E place \in {"donor", "store"} : \E outcome, tainted : Continue(t, place, outcome, tainted)
    BY <1>6 DEF SkipLookup, ExactMiss, EvictExact, AfterExactMiss, DonorHit, DonorMiss, EvictDonor
  <2>. QED
    BY <1>3, <2>1
<1>7. CASE ExactStale(t)
  BY <1>3, <1>7 DEF ExactStale
<1>8. CASE DonorStale(t)
  BY <1>3, <1>8 DEF DonorStale
<1>9. CASE EvictMissing(t)
  BY <1>1, <1>9 DEF EvictMissing, Raise
<1>10. CASE Store(t)
  <2>1. (\E status : Report(t, status)) \/ \E outcome, tainted : Continue(t, "donate", outcome, tainted)
    BY <1>10 DEF Store, ReportComputed
  <2>. QED
    BY <1>2, <1>3, <2>1
<1>11. CASE Return(t)
  BY <1>1, <1>11 DEF Return
<1>. QED
  BY <1>4, <1>5, <1>6, <1>7, <1>8, <1>9, <1>10, <1>11 DEF Proceed

\* Where nothing expires, nothing is deleted (gateway.py _check_enforceable,
\* cache.py get).
LEMMA AlwaysWithoutDeadlines ==
    ASSUME NothingExpires
    PROVE  Spec => [](PlanInv /\ HasNoDeadlines)
<1>1. Init => PlanInv /\ HasNoDeadlines
  <2>1. None # "KeyError"
    BY NoneIsOther DEF Errors
  <2>. QED
    BY <2>1, InitPlans DEF Init, EntriesInit, HasNoDeadlines, NoCall
<1>2. PlanInv /\ HasNoDeadlines /\ [Next]_vars => PlanInv' /\ HasNoDeadlines'
  <2>. SUFFICES ASSUME PlanInv, HasNoDeadlines, [Next]_vars PROVE HasNoDeadlines'
    BY NextPlans
  <2>1. TypeOK
    BY DEF PlanInv, WalkInv
  <2>2. ASSUME NEW t \in Threads, Arrive(t) PROVE HasNoDeadlines'
    <3>1. \A u \in Threads \ {t} : task'[u] = task[u] /\ pc'[u] = pc[u]
      BY <2>1, <2>2, StepsAreLocal DEF OnlyMoves
    <3>2. /\ pc'[t] \in {"idle", "walk"} /\ task'[t].error # "KeyError"
          /\ UNCHANGED entries
      BY <2>1, <2>2, ArriveStands
    <3>. QED
      BY <3>1, <3>2 DEF HasNoDeadlines
  <2>3. ASSUME NEW t \in Threads, Proceed(t) PROVE HasNoDeadlines'
    <3>1. \A u \in Threads \ {t} : task'[u] = task[u] /\ pc'[u] = pc[u]
      BY <2>1, <2>3, StepsAreLocal DEF OnlyMoves
    <3>2. ASSUME NEW k \in DOMAIN entries' PROVE entries'[k].expires_at = None
      <4>1. CASE Stays(k)
        BY <4>1 DEF Stays, HasNoDeadlines
      <4>2. CASE PutBy(t, k)
        <5>1. Enforceable(Effective(t), Backend)
          BY <4>2 DEF PutBy, Store, Donate, PlanInv, WalkInv, KeepsEnforceable
        <5>2. Effective(t).max_age = None
          BY <4>2, <5>1, NoAge DEF PutBy
        <5>. QED
          BY <4>2, <5>2 DEF PutBy, ExpiresAt
      <4>. QED
        BY <2>1, <2>3, <4>1, <4>2, EntriesCome
    <3>3. ~ExactStale(t) /\ ~DonorStale(t)
      BY DEF HasNoDeadlines, ExactStale, DonorStale, Stale, Expired, Present
    <3>4. ~EvictMissing(t)
      BY DEF HasNoDeadlines, EvictMissing
    <3>5. pc'[t] \notin {"evict", "evict_donor"} /\ task'[t].error # "KeyError"
      BY <2>1, <2>3, <3>3, <3>4, EvictsStale DEF HasNoDeadlines
    <3>. QED
      BY <3>1, <3>2, <3>5 DEF HasNoDeadlines
  <2>4. ASSUME UNCHANGED <<entries, pc, task>> PROVE HasNoDeadlines'
    BY <2>4 DEF HasNoDeadlines
  <2>. QED
    BY <2>2, <2>3, <2>4 DEF Next, Tick, Terminating, vars
<1>. QED
  BY <1>1, <1>2, PTL DEF Spec

\* No step of a call moves the clock (gateway.py handle).
LEMMA ProceedKeepsClock == \A t \in Threads : Proceed(t) => UNCHANGED clock
BY DEF Proceed, PassUngoverned, RejectMalformed, RejectUnenforceable, BypassUnenforceable,
       LeaveUnobserved, SkipLookup, ExactHit, ExactMiss, ExactStale, EvictExact, DonorHit,
       DonorMiss, DonorStale, EvictDonor, EvictMissing, WithholdForbidden, Decline, Store,
       Donate, Return

\* Nothing makes the clock a call has read later than it is (gateway.py handle).
LEMMA StillReadsThePast ==
    ASSUME TypeOK, NEW t \in Threads, ReadsThePast(t),
           Proceed(t) \/ UNCHANGED task, clock' \in {clock, clock + 1}
    PROVE  ReadsThePast(t)'
<1>1. clock \in Nat /\ task'[t].now = task[t].now
  BY RequestStays DEF TypeOK, KeepsRequest
<1>. QED
  BY <1>1 DEF ReadsThePast

\* Requests that arrive read the clock (gateway.py handle).
LEMMA ArriveReads ==
    ASSUME TypeOK, NEW t \in Threads, Arrive(t)
    PROVE  ReadsThePast(t)'
<1>1. task \in [Threads -> Calls] /\ clock \in Nat
  BY DEF TypeOK, CallsTypeOK
<1>2. PICK r \in Requests : Begin(t, r) \/ RefuseUnsortable(t, r) \/ RefuseRepeatedId(t, r)
  BY DEF Arrive
<1>3. clock' = clock /\ \E order, error : task'[t] = Call(r, order, error)
  BY <1>1, <1>2 DEF Begin, RefuseUnsortable, RefuseRepeatedId, Accept
<1>. QED
  BY <1>1, <1>3 DEF ReadsThePast, Call

\* One thread alone finds the entry it has read still there to delete, and as it read
\* it (cache.py get).
LEMMA AlwaysThereToEvict ==
    ASSUME OneThread
    PROVE  Spec => [](TypeOK /\ EvictsWhatIsThere)
<1>1. Init => TypeOK /\ EvictsWhatIsThere
  <2>1. None # "KeyError"
    BY NoneIsOther DEF Errors
  <2>. QED
    BY <2>1, InitTyped DEF Init, EvictsWhatIsThere, ReadsThePast, NoCall
<1>2. TypeOK /\ EvictsWhatIsThere /\ [Next]_vars => TypeOK' /\ EvictsWhatIsThere'
  <2>. SUFFICES ASSUME TypeOK, EvictsWhatIsThere, [Next]_vars PROVE EvictsWhatIsThere'
    BY NextTyped
  <2>1. ASSUME NEW t \in Threads, Arrive(t) PROVE EvictsWhatIsThere'
    <3>1. /\ pc'[t] \in {"idle", "walk"} /\ task'[t].error # "KeyError"
          /\ ReadsThePast(t)'
      BY <2>1, ArriveStands, ArriveReads
    <3>. QED
      BY <3>1 DEF EvictsWhatIsThere, OneThread
  <2>2. ASSUME NEW t \in Threads, Proceed(t) PROVE EvictsWhatIsThere'
    <3>1. /\ pc'[t] = "evict" => ExactStale(t)
          /\ pc'[t] = "evict_donor" => DonorStale(t)
          /\ task'[t].error = "KeyError" => EvictMissing(t)
      BY <2>2, EvictsStale DEF EvictsWhatIsThere
    <3>2. ~EvictMissing(t)
      BY DEF EvictsWhatIsThere, EvictMissing, Absent, Stale
    <3>3. ASSUME ExactStale(t) PROVE Stale(ExactKey(t), task[t].now)'
      <4>1. ExactKey(t)' = ExactKey(t) /\ task'[t].now = task[t].now
        BY <2>2, <3>3, ContinueStays, RequestStays DEF ExactStale, KeepsRequest
      <4>. QED
        BY <3>3, <4>1 DEF ExactStale, Stale, Present, Expired
    <3>4. ASSUME DonorStale(t) PROVE Stale(DonorKey(t), task[t].now)'
      <4>1. DonorKey(t)' = DonorKey(t) /\ task'[t].now = task[t].now
        BY <2>2, <3>4, ContinueStays, RequestStays DEF DonorStale, KeepsRequest
      <4>. QED
        BY <3>4, <4>1 DEF DonorStale, Stale, Present, Expired
    <3>5. \A u \in Threads : u = t
      BY DEF OneThread
    <3>6. ReadsThePast(t)'
      <4>1. clock' = clock
        BY <2>2, ProceedKeepsClock
      <4>. QED
        BY <2>2, <4>1, StillReadsThePast DEF EvictsWhatIsThere
    <3>. QED
      BY <3>1, <3>2, <3>3, <3>4, <3>5, <3>6 DEF EvictsWhatIsThere
  <2>3. ASSUME UNCHANGED <<entries, pc, task>>, clock' \in {clock, clock + 1}
        PROVE  EvictsWhatIsThere'
    <3>1. \A t \in Threads : ReadsThePast(t)'
      BY <2>3, StillReadsThePast DEF EvictsWhatIsThere
    <3>2. \A t \in Threads : ExactKey(t)' = ExactKey(t) /\ DonorKey(t)' = DonorKey(t)
      BY <2>3 DEF ExactKey, DonorKey, PrefixKey, ContentsSoFar, NamespacesSoFar, Partition,
           Effective, ConstraintsSoFar, Fragment
    <3>3. \A t \in Threads : /\ Stale(ExactKey(t), task[t].now)' <=> Stale(ExactKey(t), task[t].now)
                             /\ Stale(DonorKey(t), task[t].now)' <=> Stale(DonorKey(t), task[t].now)
      BY <2>3, <3>2 DEF Stale, Present, Expired
    <3>. QED
      BY <2>3, <3>1, <3>3 DEF EvictsWhatIsThere
  <2>. QED
    BY <2>1, <2>2, <2>3 DEF Next, Tick, Terminating, vars
<1>. QED
  BY <1>1, <1>2, PTL DEF Spec

\* Whatever a call's step deletes is the entry it read, past its deadline (cache.py
\* get).
LEMMA DeletesWhatItRead ==
    ASSUME TypeOK, NEW t \in Threads, Proceed(t), NEW k \in DOMAIN entries, k \notin DOMAIN entries'
    PROVE  \/ pc[t] = "evict" /\ k = ExactKey(t)
           \/ pc[t] = "evict_donor" /\ k = DonorKey(t)
<1>1. ASSUME NEW j, Evict(j) PROVE k = j
  BY <1>1 DEF Evict, Delete
<1>2. ASSUME NEW j, NEW exact, PutState(t, j, exact) PROVE FALSE
  BY <1>2 DEF PutState, Put
<1>3. CASE EvictExact(t) \/ EvictDonor(t)
  BY <1>1, <1>3 DEF EvictExact, EvictDonor
<1>4. CASE Store(t) \/ Donate(t)
  BY <1>2, <1>4 DEF Store, Donate
<1>5. CASE \/ PassUngoverned(t) \/ RejectMalformed(t) \/ RejectUnenforceable(t)
           \/ BypassUnenforceable(t) \/ LeaveUnobserved(t) \/ SkipLookup(t)
           \/ ExactHit(t) \/ ExactMiss(t) \/ ExactStale(t) \/ DonorHit(t) \/ DonorMiss(t)
           \/ DonorStale(t) \/ EvictMissing(t) \/ WithholdForbidden(t) \/ Decline(t) \/ Return(t)
  BY <1>5 DEF PassUngoverned, RejectMalformed, RejectUnenforceable, BypassUnenforceable,
       LeaveUnobserved, SkipLookup, ExactHit, ExactMiss, ExactStale, DonorHit, DonorMiss,
       DonorStale, EvictMissing, WithholdForbidden, Decline, Return
<1>. QED
  BY <1>3, <1>4, <1>5 DEF Proceed

\* Where one thread serves all, an entry leaves the cache only once its own deadline
\* has passed, whatever is requested and retained (cache.py get).
THEOREM EntriesLastUntilDue ==
    ASSUME OneThread
    PROVE  Spec => DeletedWhenDue
<1>1. ASSUME TypeOK, EvictsWhatIsThere, [Next]_vars
      PROVE  \A k \in DOMAIN entries \ DOMAIN entries' : Expired(entries[k], clock)
  <2>. SUFFICES ASSUME NEW k \in DOMAIN entries, k \notin DOMAIN entries'
                PROVE  Expired(entries[k], clock)
    OBVIOUS
  <2>1. PICK t \in Threads : Proceed(t)
    <3>1. ASSUME NEW t \in Threads, Arrive(t) PROVE FALSE
      BY <1>1, <3>1, ArriveStands
    <3>. QED
      BY <1>1, <3>1 DEF Next, Tick, Terminating, vars
  <2>2. Stale(k, task[t].now) /\ ReadsThePast(t)
    BY <1>1, <2>1, DeletesWhatItRead DEF EvictsWhatIsThere
  <2>3. clock \in Nat /\ entries[k].expires_at \in Nat \cup {None}
    BY <1>1 DEF TypeOK, EntriesTypeOK, Entries
  <2>. QED
    BY <2>2, <2>3 DEF Stale, Expired, ReadsThePast
<1>. QED
  BY <1>1, AlwaysThereToEvict, PTL DEF Spec, DeletedWhenDue

-----------------------------------------------------------------------------
\* Why calls fail

\* The cause a request gives is read off the request and its order alone.
LEMMA SameCause ==
    ASSUME NEW t \in Threads, task'[t].request = task[t].request, task'[t].order = task[t].order
    PROVE  GivesCause(t)' <=> GivesCause(t)
BY DEF GivesCause

\* A call that returned had passed all of its request, and nothing in it gave
\* cause to fail (gateway.py handle).
LEMMA ReturnsWithoutCause ==
    ASSUME PlanInv, NEW t \in Threads, Ended(t), task[t].error = None
    PROVE  ~GivesCause(t)
<1>. DEFINE c == task[t]
            r == task[t].request
<1>1. /\ Walked(c) /\ c \in Calls /\ Planned(c) /\ r \in Requests
      /\ c.pos = Len(c.order) + 1
  BY DEF PlanInv, WalkInv, TypeOK, CallsTypeOK, RunsToEnd, Ended, Calls
<1>2. /\ c.order \in PlannedOrders(r) /\ ~SortRaises(r) /\ ~RepeatsId(r)
      /\ DOMAIN c.order = DOMAIN r.fragments
      /\ ~r.equivalence_declared => c.order = r.fragments
  BY <1>1, PlansSorted DEF Planned, Ended
<1>3. /\ Len(c.order) \in Nat /\ DOMAIN c.order = 1..Len(c.order)
      /\ Passed(c) = DOMAIN c.order
  BY <1>1 DEF Calls, Passed
<1>4. \A i \in DOMAIN c.order : c.order[i].intent # Malformed
                                /\ FollowsPolicy(c.statuses[i], Prefix(c, i))
  BY <1>1, <1>3 DEF Walked
<1>5. \A i \in DOMAIN r.fragments : r.fragments[i].intent # Malformed
  BY <1>2, <1>4 DEF SortRaises
<1>6. ASSUME OnUnenforceable = "reject", NEW i \in DOMAIN c.order, Prefix(c, i) # {}
      PROVE  Enforceable(Compose(Prefix(c, i)), Backend)
  BY <1>4, <1>6 DEF FollowsPolicy
<1>. QED
  BY <1>2, <1>5, <1>6 DEF GivesCause, Prefix

\* What handle raises on its walk has its cause at the fragment it stands at
\* (gateway.py handle, _check_enforceable, parse.py).
LEMMA RejectsForCause ==
    ASSUME PlanInv, NEW t \in Threads, RejectMalformed(t) \/ RejectUnenforceable(t)
    PROVE  GivesCause(t)
<1>. DEFINE c == task[t]
<1>1. /\ TypeOK /\ Walked(c) /\ c \in Calls /\ pc[t] # "idle"
      /\ \A i \in DOMAIN c.order :
            \E k \in DOMAIN c.request.fragments : c.order[i] = c.request.fragments[k]
  BY GoesOverItsOwn DEF PlanInv, WalkInv, TypeOK, CallsTypeOK, RejectMalformed,
                        RejectUnenforceable, ReachedPolicy, Reached
<1>2. c.pos \in DOMAIN c.order
  BY <1>1 DEF RejectMalformed, RejectUnenforceable, ReachedPolicy, Reached, Calls
<1>3. CASE RejectMalformed(t)
  <2>1. c.order[c.pos].intent = Malformed
    BY <1>3 DEF RejectMalformed, Fragment
  <2>. QED
    BY <1>1, <1>2, <2>1 DEF GivesCause
<1>4. CASE RejectUnenforceable(t)
  <2>1. /\ OnUnenforceable = "reject" /\ AtFragment(t) /\ ConstraintsSoFar(t) # {}
        /\ ~Enforceable(Compose(ConstraintsSoFar(t)), Backend)
    BY <1>1, <1>4, Located DEF RejectUnenforceable, Effective
  <2>2. ConstraintsSoFar(t) = {c.order[j].intent : j \in 1..c.pos} \ {None}
    BY <1>1, <2>1, ReachedPrefix DEF Prefix
  <2>. QED
    BY <1>2, <2>1, <2>2 DEF GivesCause
<1>. QED
  BY <1>3, <1>4

\* A request that is refused gives cause at once (gateway.py handle, plan_order).
LEMMA RefusesForCause ==
    ASSUME TypeOK, NEW t \in Threads, Arrive(t)
    PROVE  FailsWithCause(t)'
<1>1. pc \in [Threads -> Places] /\ task \in [Threads -> Calls]
  BY DEF TypeOK, CallsTypeOK
<1>2. PICK r \in Requests : Begin(t, r) \/ RefuseUnsortable(t, r) \/ RefuseRepeatedId(t, r)
  BY DEF Arrive
<1>3. CASE Begin(t, r)
  BY <1>1, <1>3 DEF Begin, FailsWithCause, Ended
<1>4. CASE RefuseUnsortable(t, r) \/ RefuseRepeatedId(t, r)
  <2>1. SortRaises(r) \/ RepeatsId(r)
    BY <1>4 DEF RefuseUnsortable, RefuseRepeatedId
  <2>2. task'[t].request = r
    BY <1>1, <1>4 DEF RefuseUnsortable, RefuseRepeatedId, Call
  <2>. QED
    BY <2>1, <2>2 DEF FailsWithCause, GivesCause, SortRaises
<1>. QED
  BY <1>2, <1>3, <1>4

\* A failed call has cause in its own request, unless another thread deleted the
\* entry it was about to delete (gateway.py handle, cache.py get).
CauseInv == PlanInv /\ \A t \in Threads : FailsWithCause(t)

LEMMA AlwaysWithCause == Spec => []CauseInv
<1>1. Init => CauseInv
  BY InitPlans DEF Init, FailsWithCause, Ended, NoCall, CauseInv
<1>2. CauseInv /\ [Next]_vars => CauseInv'
  <2>. SUFFICES ASSUME PlanInv, \A t \in Threads : FailsWithCause(t), [Next]_vars
                PROVE  \A t \in Threads : FailsWithCause(t)'
    BY NextPlans DEF CauseInv
  <2>1. /\ TypeOK /\ pc \in [Threads -> Places] /\ task \in [Threads -> Calls]
    BY DEF PlanInv, WalkInv, TypeOK, CallsTypeOK
  <2>2. ASSUME NEW u \in Threads, task'[u] = task[u], pc'[u] = pc[u] PROVE FailsWithCause(u)'
    BY <2>2, SameCause DEF FailsWithCause, Ended
  <2>3. ASSUME NEW t \in Threads, Proceed(t) PROVE FailsWithCause(t)'
    <3>1. GivesCause(t)' <=> GivesCause(t)
      BY <2>1, <2>3, RequestStays, SameCause DEF KeepsRequest
    <3>2. CASE RejectMalformed(t) \/ RejectUnenforceable(t)
      BY <3>1, <3>2, RejectsForCause DEF FailsWithCause
    <3>3. CASE EvictMissing(t)
      BY <2>1, <3>3 DEF EvictMissing, Raise, FailsWithCause
    <3>4. CASE Return(t)
      BY <3>4 DEF Return, FailsWithCause, PlanInv, RunsToEnd
    <3>5. CASE ~(RejectMalformed(t) \/ RejectUnenforceable(t) \/ EvictMissing(t) \/ Return(t))
      <4>1. pc'[t] # "idle"
        BY <2>1, <2>3, <3>5, StaysInCall
      <4>. QED
        BY <4>1 DEF FailsWithCause, Ended
    <3>. QED
      BY <3>2, <3>3, <3>4, <3>5
  <2>4. ASSUME NEW t \in Threads, Arrive(t) \/ Proceed(t), NEW u \in Threads
        PROVE  FailsWithCause(u)'
    <3>1. CASE u = t
      BY <2>1, <2>3, <2>4, <3>1, RefusesForCause
    <3>2. CASE u # t
      BY <2>1, <2>2, <2>4, <3>2, StepsAreLocal DEF OnlyMoves
    <3>. QED
      BY <3>1, <3>2
  <2>5. ASSUME UNCHANGED <<pc, task>>, NEW u \in Threads PROVE FailsWithCause(u)'
    BY <2>2, <2>5
  <2>. QED
    BY <2>4, <2>5 DEF Next, Tick, Terminating, vars
<1>. QED
  BY <1>1, <1>2, PTL DEF Spec

\* A call that no other call raced fails exactly when its own request gives cause
\* (gateway.py handle).
FailsForCauseUnlessRaced ==
    \A t \in Threads : Ended(t) /\ task[t].error # "KeyError"
                          => (task[t].error # None <=> GivesCause(t))

\* With any threads and any backend, the race for an expired entry is all that can
\* fail a call without cause (gateway.py handle, cache.py get).
THEOREM OnlyRacesFailWithoutCause == Spec => []FailsForCauseUnlessRaced
<1>1. CauseInv => FailsForCauseUnlessRaced
  BY ReturnsWithoutCause DEF CauseInv, FailsWithCause, FailsForCauseUnlessRaced
<1>. QED
  BY <1>1, AlwaysWithCause, PTL

\* And there is no such race where nothing expires or one thread serves all
\* (gateway.py _check_enforceable, cache.py get).
THEOREM FailsOnlyForCause ==
    ASSUME NothingExpires \/ OneThread
    PROVE  Spec => []FailsForCause
<1>1. FailsForCauseUnlessRaced /\ (\A t \in Threads : task[t].error # "KeyError") => FailsForCause
  BY DEF FailsForCauseUnlessRaced, FailsForCause
<1>2. Spec => [](\A t \in Threads : task[t].error # "KeyError")
  <2>1. CASE NothingExpires
    <3>1. Spec => [](PlanInv /\ HasNoDeadlines)
      BY <2>1, AlwaysWithoutDeadlines
    <3>2. PlanInv /\ HasNoDeadlines => \A t \in Threads : task[t].error # "KeyError"
      BY DEF HasNoDeadlines
    <3>. QED
      BY <3>1, <3>2, PTL
  <2>2. CASE OneThread
    <3>1. Spec => [](TypeOK /\ EvictsWhatIsThere)
      BY <2>2, AlwaysThereToEvict
    <3>2. TypeOK /\ EvictsWhatIsThere => \A t \in Threads : task[t].error # "KeyError"
      BY DEF EvictsWhatIsThere
    <3>. QED
      BY <3>1, <3>2, PTL
  <2>. QED
    BY <2>1, <2>2
<1>. QED
  BY <1>1, <1>2, OnlyRacesFailWithoutCause, PTL

-----------------------------------------------------------------------------
\* Why fragments are bypassed

\* Nothing is bypassed but what has no policy, may not be reused, or cannot be
\* enforced.
ExcusesBypass(status, C) ==
    status.outcome = "bypass" => \/ status.effective_reuse \in {None, "none"}
                                \/ ~Enforceable(Compose(C), Backend)

BypassesForCause(t) ==
    /\ pc[t] \in {"store", "donate"} /\ task[t].outcome = "bypass" => Effective(t).reuse = "none"
    /\ \A i \in DOMAIN task[t].statuses :
          ExcusesBypass(task[t].statuses[i], Prefix(task[t], i))

BypassInv == PlanInv /\ \A t \in Threads : BypassesForCause(t)

\* A report that has an excuse leaves those before it theirs (gateway.py handle).
LEMMA ReportExcuses ==
    ASSUME BypassInv, NEW t \in Threads, NEW status, Report(t, status), AtFragment(t),
           ExcusesBypass(status, ConstraintsSoFar(t))
    PROVE  BypassesForCause(t)'
<1>. DEFINE c == task[t]
            d == task'[t]
<1>1. /\ TypeOK /\ Walked(c) /\ BypassesForCause(t) /\ c \in Calls
  BY DEF BypassInv, PlanInv, WalkInv, TypeOK, CallsTypeOK
<1>2. /\ d.order = c.order /\ d.statuses = Append(c.statuses, status) /\ pc'[t] = "walk"
  BY <1>1, ReportLeaves
<1>3. /\ c.statuses \in Seq(Statuses \cup {status})
      /\ Len(c.statuses) = c.pos - 1 /\ c.pos \in Nat
  BY <1>1 DEF Walked, Calls
<1>4. /\ DOMAIN d.statuses = 1..c.pos /\ DOMAIN c.statuses = 1..(c.pos - 1)
      /\ d.statuses[c.pos] = status
      /\ \A i \in 1..(c.pos - 1) : d.statuses[i] = c.statuses[i]
  BY <1>2, <1>3
<1>5. \A i : Prefix(d, i) = Prefix(c, i)
  BY <1>2, SamePrefix
<1>6. ConstraintsSoFar(t) = Prefix(c, c.pos)
  BY <1>1, ReachedPrefix
<1>7. ASSUME NEW i \in DOMAIN d.statuses PROVE ExcusesBypass(d.statuses[i], Prefix(d, i))
  <2>1. CASE i = c.pos
    BY <1>4, <1>5, <1>6, <2>1
  <2>2. CASE i # c.pos
    <3>1. i \in 1..(c.pos - 1)
      BY <1>3, <1>4, <2>2
    <3>. QED
      BY <1>1, <1>4, <1>5, <3>1 DEF BypassesForCause
  <2>. QED
    BY <2>1, <2>2
<1>. QED
  BY <1>2, <1>7 DEF BypassesForCause, ExcusesBypass, Prefix

\* A step of a call bypasses only what has an excuse (gateway.py handle, _resolve,
\* _materialize).
LEMMA ProceedBypassesForCause ==
    ASSUME BypassInv, NEW t \in Threads, Proceed(t)
    PROVE  BypassesForCause(t)'
<1>1. /\ TypeOK /\ BypassesForCause(t) /\ task[t] \in Calls /\ pc \in [Threads -> Places]
      /\ task \in [Threads -> Calls]
  BY DEF BypassInv, PlanInv, WalkInv, TypeOK, CallsTypeOK
<1>2. ASSUME NEW status, Report(t, status), AtFragment(t),
             ExcusesBypass(status, ConstraintsSoFar(t))
      PROVE  BypassesForCause(t)'
  BY <1>2, ReportExcuses
<1>3. ASSUME NEW place, NEW outcome, NEW tainted, Continue(t, place, outcome, tainted),
             outcome = "bypass" => Effective(t).reuse = "none"
      PROVE  BypassesForCause(t)'
  <2>1. /\ task'[t].statuses = task[t].statuses /\ task'[t].order = task[t].order
        /\ task'[t].outcome = outcome /\ Effective(t)' = Effective(t)
    BY <1>1, <1>3, ContinueStays
  <2>. QED
    BY <1>1, <1>3, <2>1 DEF BypassesForCause, ExcusesBypass, Prefix
<1>4. CASE PassUngoverned(t)
  <2>1. AtFragment(t)
    BY <1>1, <1>4, Located DEF PassUngoverned
  <2>. QED
    BY <1>2, <1>4, <2>1 DEF PassUngoverned, Ungoverned, ExcusesBypass
<1>5. CASE BypassUnenforceable(t)
  <2>1. AtFragment(t)
    BY <1>1, <1>5, Located DEF BypassUnenforceable
  <2>. QED
    BY <1>2, <1>5, <2>1 DEF BypassUnenforceable, ExcusesBypass, Effective
<1>6. CASE LeaveUnobserved(t) \/ ExactHit(t)
  <2>1. AtFragment(t)
    BY <1>1, <1>6, Located DEF LeaveUnobserved, ExactHit, LooksUp, Admitted
  <2>. QED
    BY <1>2, <1>6, <2>1 DEF LeaveUnobserved, ExactHit, Governed, ExcusesBypass
<1>7. ASSUME NEW retention, ReportComputed(t, retention), pc[t] \in {"store", "donate"}
      PROVE  BypassesForCause(t)'
  <2>1. AtFragment(t)
    BY <1>1, <1>7, Located
  <2>. QED
    BY <1>1, <1>2, <1>7, <2>1 DEF ReportComputed, Governed, ExcusesBypass, BypassesForCause
<1>8. CASE WithholdForbidden(t) \/ Decline(t) \/ Donate(t)
  BY <1>7, <1>8 DEF WithholdForbidden, Decline, Donate
<1>9. CASE Store(t)
  BY <1>1, <1>3, <1>7, <1>9 DEF Store, BypassesForCause
<1>10. CASE \/ SkipLookup(t) \/ ExactMiss(t) \/ ExactStale(t) \/ EvictExact(t)
            \/ DonorHit(t) \/ DonorMiss(t) \/ DonorStale(t) \/ EvictDonor(t)
  <2>1. "bypass" # None
    BY NoneIsOther DEF Outcomes
  <2>. QED
    BY <1>3, <1>10, <2>1 DEF SkipLookup, ExactMiss, ExactStale, EvictExact, AfterExactMiss,
                             DonorHit, DonorMiss, DonorStale, EvictDonor
<1>11. ASSUME pc'[t] = "idle", task'[t].statuses = task[t].statuses, task'[t].order = task[t].order
       PROVE  BypassesForCause(t)'
  BY <1>1, <1>11 DEF BypassesForCause, ExcusesBypass, Prefix
<1>12. CASE RejectMalformed(t) \/ RejectUnenforceable(t) \/ EvictMissing(t)
  <2>1. \E error : Raise(t, error)
    BY <1>12 DEF RejectMalformed, RejectUnenforceable, EvictMissing
  <2>2. /\ pc'[t] = "idle" /\ task'[t].statuses = task[t].statuses
        /\ task'[t].order = task[t].order
    BY <1>1, <2>1 DEF Raise, Calls
  <2>. QED
    BY <1>11, <2>2
<1>13. CASE Return(t)
  BY <1>1, <1>11, <1>13 DEF Return
<1>. QED
  BY <1>4, <1>5, <1>6, <1>8, <1>9, <1>10, <1>12, <1>13 DEF Proceed

\* So it is in every state (gateway.py handle).
LEMMA AlwaysBypassesForCause == Spec => []BypassInv
<1>1. Init => BypassInv
  <2>. SUFFICES ASSUME Init PROVE BypassInv
    OBVIOUS
  <2>1. \A t \in Threads : pc[t] = "idle" /\ task[t].statuses = <<>>
    BY DEF Init, NoCall
  <2>. QED
    BY <2>1, InitPlans DEF BypassInv, BypassesForCause
<1>2. BypassInv /\ [Next]_vars => BypassInv'
  <2>. SUFFICES ASSUME BypassInv, [Next]_vars PROVE \A u \in Threads : BypassesForCause(u)'
    BY NextPlans DEF BypassInv
  <2>1. TypeOK /\ \A u \in Threads : BypassesForCause(u)
    BY DEF BypassInv, PlanInv, WalkInv
  <2>2. ASSUME NEW u \in Threads, task'[u] = task[u], pc'[u] = pc[u] PROVE BypassesForCause(u)'
    BY <2>1, <2>2 DEF BypassesForCause, ExcusesBypass, Prefix, Effective, ConstraintsSoFar, Fragment
  <2>3. ASSUME NEW t \in Threads, Arrive(t) PROVE BypassesForCause(t)'
    <3>1. pc'[t] \in {"idle", "walk"} /\ task'[t].statuses = <<>>
      BY <2>1, <2>3, ArriveStands
    <3>. QED
      BY <3>1 DEF BypassesForCause
  <2>4. ASSUME NEW t \in Threads, Arrive(t) \/ Proceed(t), NEW u \in Threads
        PROVE  BypassesForCause(u)'
    <3>1. CASE u = t
      BY <2>3, <2>4, <3>1, ProceedBypassesForCause
    <3>2. CASE u # t
      BY <2>1, <2>2, <2>4, <3>2, StepsAreLocal DEF OnlyMoves
    <3>. QED
      BY <3>1, <3>2
  <2>. QED
    BY <2>2, <2>4 DEF Next, Tick, Terminating, vars
<1>. QED
  BY <1>1, <1>2, PTL DEF Spec

-----------------------------------------------------------------------------
\* What is reported retained is there

\* Where nothing is deleted, an entry once put stays findable (cache.py put).
LEMMA NothingLost ==
    ASSUME TypeOK, HasNoDeadlines, NEW t \in Threads, Proceed(t)
    PROVE  DOMAIN entries \subseteq DOMAIN entries'
<1>1. ~EvictExact(t) /\ ~EvictDonor(t)
  BY DEF HasNoDeadlines, EvictExact, EvictDonor
<1>2. ASSUME NEW k, NEW exact, PutState(t, k, exact) PROVE DOMAIN entries \subseteq DOMAIN entries'
  BY <1>2 DEF PutState, Put
<1>3. CASE Store(t) \/ Donate(t)
  BY <1>2, <1>3 DEF Store, Donate
<1>4. CASE UNCHANGED entries
  BY <1>4
<1>. QED
  BY <1>1, <1>3, <1>4 DEF Proceed, PassUngoverned, RejectMalformed, RejectUnenforceable,
     BypassUnenforceable, LeaveUnobserved, SkipLookup, ExactHit, ExactMiss, ExactStale, DonorHit,
     DonorMiss, DonorStale, EvictMissing, WithholdForbidden, Decline, Return

\* The contents in the key at a fragment are those of the request up to there
\* (gateway.py handle, identity.py content_hash).
LEMMA ContentsOfPrefix ==
    ASSUME TypeOK, NEW t \in Threads, AtFragment(t), Walked(task[t])
    PROVE  ContentsSoFar(t) = [j \in 1..task[t].pos |-> task[t].order[j].content]
<1>. DEFINE c == task[t]
<1>1. /\ c.contents \in Seq(STRING) /\ c.pos \in Nat \ {0}
      /\ Fragment(t).content \in STRING
  BY PrefixTypes DEF TypeOK, CallsTypeOK, Calls, Fragments
<1>2. /\ Len(c.contents) = c.pos - 1
      /\ \A j \in 1..(c.pos - 1) : c.contents[j] = c.order[j].content
  BY DEF Walked, Passed
<1>3. /\ ContentsSoFar(t) = Append(c.contents, c.order[c.pos].content)
      /\ c.order[c.pos].content \in STRING
  BY <1>1 DEF ContentsSoFar, Fragment
<1>. HIDE DEF c
<1>4. /\ ContentsSoFar(t) \in Seq(STRING)
      /\ Len(ContentsSoFar(t)) = c.pos
  BY <1>1, <1>2, <1>3
<1>5. ASSUME NEW j \in 1..c.pos PROVE ContentsSoFar(t)[j] = c.order[j].content
  <2>1. CASE j = c.pos
    BY <1>1, <1>2, <1>3, <2>1
  <2>2. CASE j # c.pos
    <3>1. j \in 1..(c.pos - 1) /\ j \in 1..Len(c.contents)
      BY <1>1, <1>2, <2>2
    <3>2. ContentsSoFar(t)[j] = c.contents[j]
      BY <1>1, <1>3, <3>1
    <3>. QED
      BY <1>2, <3>1, <3>2
  <2>. QED
    BY <2>1, <2>2
<1>. QED
  BY <1>4, <1>5 DEF c

\* What is kept as reported stays so while the call goes on (gateway.py handle).
LEMMA KeptStays ==
    ASSUME NEW t, NEW i, NEW k, KeptAs(t, i, k),
           task'[t].order = task[t].order, task'[t].statuses[i] = task[t].statuses[i],
           task'[t].request = task[t].request, task'[t].id = task[t].id
    PROVE  KeptAs(t, i, k)'
BY DEF KeptAs

\* A status may say retained once the state of its fragment is there (gateway.py
\* _materialize).
Warranted(t, status) ==
    status.retention = "retained" =>
        \E exact : /\ PrefixKey(t, exact) \in DOMAIN entries'
                   /\ status.exact => exact
                   /\ status.effective_share = Effective(t).share_max
                   /\ status.namespaces = NamespacesSoFar(t)

LEMMA ReportKeeps ==
    ASSUME PlanInv, NEW t \in Threads, AtFragment(t), KeepsRetained(t), KeepsRequest(t),
           DOMAIN entries \subseteq DOMAIN entries',
           NEW status, Report(t, status), Warranted(t, status)
    PROVE  KeepsRetained(t)'
<1>. DEFINE c == task[t]
            n == Len(c.statuses)
<1>1. /\ TypeOK /\ Walked(c) /\ c.statuses \in Seq(Statuses) /\ n \in Nat
      /\ c.pos \in Nat /\ n = c.pos - 1
  BY DEF PlanInv, WalkInv, TypeOK, CallsTypeOK, Calls, Walked
<1>2. /\ task'[t].order = c.order /\ task'[t].request = c.request /\ task'[t].id = c.id
      /\ task'[t].statuses = Append(c.statuses, status) /\ pc'[t] = "walk"
  BY <1>1, ReportLeaves DEF KeepsRequest
<1>3. /\ DOMAIN task'[t].statuses = 1..(n + 1) /\ DOMAIN c.statuses = 1..n
      /\ \A i \in 1..n : task'[t].statuses[i] = c.statuses[i]
      /\ task'[t].statuses[n + 1] = status
  BY <1>1, <1>2
<1>4. ASSUME NEW i \in 1..n, c.statuses[i].retention = "retained"
      PROVE  \E k \in DOMAIN entries' : KeptAs(t, i, k)'
  BY <1>2, <1>3, <1>4, KeptStays DEF KeepsRetained
<1>5. ASSUME NEW i, i = n + 1, status.retention = "retained"
      PROVE  \E k \in DOMAIN entries' : KeptAs(t, i, k)'
  <2>1. PICK exact : /\ PrefixKey(t, exact) \in DOMAIN entries'
                     /\ status.exact => exact
                     /\ status.effective_share = Effective(t).share_max
                     /\ status.namespaces = NamespacesSoFar(t)
    BY <1>5 DEF Warranted
  <2>2. PICK k : k = PrefixKey(t, exact)
    OBVIOUS
  <2>3. ContentsSoFar(t) = [j \in 1..i |-> task'[t].order[j].content]
    <3>1. ContentsSoFar(t) = [j \in 1..c.pos |-> c.order[j].content]
      BY <1>1, ContentsOfPrefix
    <3>2. i = c.pos
      BY <1>1, <1>5
    <3>. QED
      BY <1>2, <3>1, <3>2
  <2>4. /\ k.contents = ContentsSoFar(t)
        /\ k.namespaces = status.namespaces
        /\ k.partition = PartitionFor(status.effective_share, c.request.auth, c.id)
        /\ k.exact = exact
    BY <2>1, <2>2 DEF PrefixKey, CacheKey, Partition
  <2>5. task'[t].statuses[i] = status
    BY <1>3, <1>5
  <2>6. KeptAs(t, i, k)'
    BY <1>2, <2>1, <2>3, <2>4, <2>5 DEF KeptAs
  <2>. QED
    BY <2>1, <2>2, <2>6
<1>6. ASSUME NEW i \in DOMAIN task'[t].statuses, task'[t].statuses[i].retention = "retained"
      PROVE  \E k \in DOMAIN entries' : KeptAs(t, i, k)'
  <2>1. i \in 1..n \/ i = n + 1
    BY <1>1, <1>3
  <2>2. CASE i \in 1..n
    BY <1>3, <1>4, <1>6, <2>2
  <2>3. CASE i = n + 1
    BY <1>3, <1>5, <1>6, <2>3
  <2>. QED
    BY <2>1, <2>2, <2>3
<1>. QED
  BY <1>2, <1>6 DEF KeepsRetained

\* Going on with the same fragment reports nothing (gateway.py handle).
LEMMA ContinueKeeps ==
    ASSUME TypeOK, NEW t \in Threads, KeepsRetained(t), DOMAIN entries \subseteq DOMAIN entries',
           NEW place, NEW outcome, NEW tainted, Continue(t, place, outcome, tainted),
           place = "donate" => PrefixKey(t, ~tainted) \in DOMAIN entries'
    PROVE  KeepsRetained(t)'
<1>1. /\ task'[t].order = task[t].order /\ task'[t].statuses = task[t].statuses
      /\ task'[t].request = task[t].request /\ task'[t].id = task[t].id
      /\ task'[t].tainted = tainted /\ pc'[t] = place
      /\ \A exact : PrefixKey(t, exact)' = PrefixKey(t, exact)
  BY ContinueStays
<1>2. pc'[t] = "donate" => Present(PrefixKey(t, ~task[t].tainted))'
  <2>1. PrefixKey(t, ~task[t].tainted)' = PrefixKey(t, ~tainted)
    BY <1>1 DEF PrefixKey
  <2>. QED
    BY <1>1, <2>1 DEF Present
<1>3. ASSUME NEW i \in DOMAIN task'[t].statuses, task'[t].statuses[i].retention = "retained"
      PROVE  \E k \in DOMAIN entries' : KeptAs(t, i, k)'
  BY <1>1, <1>3, KeptStays DEF KeepsRetained
<1>. QED
  BY <1>2, <1>3 DEF KeepsRetained

\* A call that stores and one that has found exact state may both say retained; no
\* other step does (gateway.py handle, _materialize).
LEMMA ProceedKeeps ==
    ASSUME KeepsEntries(Backend), PlanInv, HasNoDeadlines,
           NEW t \in Threads, KeepsRetained(t), Proceed(t)
    PROVE  KeepsRetained(t)'
<1>1. /\ TypeOK /\ KeepsRequest(t) /\ DOMAIN entries \subseteq DOMAIN entries'
      /\ pc \in [Threads -> Places] /\ task \in [Threads -> Calls]
      /\ task[t].tainted \in BOOLEAN
  BY RequestStays, NothingLost DEF PlanInv, WalkInv, TypeOK, CallsTypeOK, Calls
<1>2. /\ ReachedPolicy(t) => AtFragment(t)
      /\ Reached(t) /\ ConstraintsSoFar(t) = {} => AtFragment(t)
      /\ pc[t] \in {"store", "donate"} => AtFragment(t)
  BY <1>1, Located
<1>3. ASSUME AtFragment(t), NEW status, Report(t, status), Warranted(t, status)
      PROVE  KeepsRetained(t)'
  BY <1>1, <1>3, ReportKeeps
<1>4. ASSUME NEW place, NEW outcome, NEW tainted, Continue(t, place, outcome, tainted),
             place # "donate"
      PROVE  KeepsRetained(t)'
  BY <1>1, <1>4, ContinueKeeps
<1>5. CASE \/ PassUngoverned(t) \/ BypassUnenforceable(t) \/ LeaveUnobserved(t)
           \/ WithholdForbidden(t) \/ Decline(t)
  <2>1. AtFragment(t)
    BY <1>2, <1>5 DEF PassUngoverned, BypassUnenforceable, LeaveUnobserved, Admitted,
                      WithholdForbidden, Decline
  <2>2. \E status : Report(t, status) /\ status.retention # "retained"
    BY <1>5 DEF PassUngoverned, BypassUnenforceable, LeaveUnobserved, WithholdForbidden, Decline,
                ReportComputed, Governed, Ungoverned, RetentionIf
  <2>. QED
    BY <1>3, <2>1, <2>2 DEF Warranted
<1>6. CASE ExactHit(t)
  <2>. DEFINE status == Governed(t, "exact_hit", "retained", ~task[t].tainted)
  <2>1. AtFragment(t) /\ Report(t, status)
    BY <1>2, <1>6 DEF ExactHit, LooksUp, Admitted
  <2>2. /\ PrefixKey(t, TRUE) \in DOMAIN entries'
        /\ status.effective_share = Effective(t).share_max
        /\ status.namespaces = NamespacesSoFar(t)
    BY <1>1, <1>6 DEF ExactHit, Usable, Present, ExactKey, Governed
  <2>. QED
    BY <1>3, <2>1, <2>2 DEF Warranted
<1>7. CASE \/ SkipLookup(t) \/ ExactMiss(t) \/ ExactStale(t) \/ EvictExact(t)
           \/ DonorHit(t) \/ DonorMiss(t) \/ DonorStale(t) \/ EvictDonor(t)
  BY <1>4, <1>7 DEF SkipLookup, ExactMiss, ExactStale, EvictExact, AfterExactMiss,
                    DonorHit, DonorMiss, DonorStale, EvictDonor
<1>8. ASSUME ReportComputed(t, "retained"), AtFragment(t),
             PrefixKey(t, ~task[t].tainted) \in DOMAIN entries'
      PROVE  KeepsRetained(t)'
  <2>. DEFINE status == Governed(t, task[t].outcome, "retained", ~task[t].tainted)
  <2>1. /\ Report(t, status)
        /\ status.exact = ~task[t].tainted
        /\ status.effective_share = Effective(t).share_max
        /\ status.namespaces = NamespacesSoFar(t)
    BY <1>8 DEF ReportComputed, Governed
  <2>. HIDE DEF status
  <2>2. Warranted(t, status)
    BY <1>8, <2>1 DEF Warranted
  <2>. QED
    BY <1>3, <1>8, <2>1, <2>2
<1>9. CASE Store(t)
  <2>1. AtFragment(t) /\ PrefixKey(t, ~task[t].tainted) \in DOMAIN entries'
    BY <1>2, <1>9 DEF Store, PutState, Put
  <2>2. CASE ReportComputed(t, "retained")
    BY <1>8, <2>1, <2>2
  <2>3. CASE Continue(t, "donate", task[t].outcome, task[t].tainted)
    BY <1>1, <2>1, <2>3, ContinueKeeps
  <2>. QED
    BY <1>9, <2>2, <2>3 DEF Store
<1>10. CASE Donate(t)
  BY <1>1, <1>2, <1>8, <1>10 DEF Donate, KeepsRetained, Present
<1>11. CASE RejectMalformed(t) \/ RejectUnenforceable(t) \/ EvictMissing(t) \/ Return(t)
  <2>1. pc'[t] = "idle" /\ task'[t].statuses = task[t].statuses
    BY <1>1, <1>11 DEF RejectMalformed, RejectUnenforceable, EvictMissing, Raise, Return, Calls
  <2>2. ASSUME NEW i \in DOMAIN task'[t].statuses, task'[t].statuses[i].retention = "retained"
        PROVE  \E k \in DOMAIN entries' : KeptAs(t, i, k)'
    BY <1>1, <2>1, <2>2, KeptStays DEF KeepsRetained, KeepsRequest
  <2>. QED
    BY <2>1, <2>2 DEF KeepsRetained
<1>. QED
  BY <1>5, <1>6, <1>7, <1>9, <1>10, <1>11 DEF Proceed

\* What the calls of the gateway have reported retained, over a backend that keeps
\* entries that never expire (gateway.py _materialize).
RetainedInv == PlanInv /\ HasNoDeadlines /\ \A t \in Threads : KeepsRetained(t)

LEMMA AlwaysRetained ==
    ASSUME KeepsEntries(Backend), NothingExpires
    PROVE  Spec => []RetainedInv
<1>1. Init => \A t \in Threads : KeepsRetained(t)
  BY DEF Init, NoCall, KeepsRetained
<1>2. PlanInv /\ HasNoDeadlines /\ (\A t \in Threads : KeepsRetained(t)) /\ [Next]_vars
        => (\A t \in Threads : KeepsRetained(t))'
  <2>. SUFFICES ASSUME PlanInv, HasNoDeadlines, \A t \in Threads : KeepsRetained(t), [Next]_vars,
                       NEW u \in Threads
                PROVE  KeepsRetained(u)'
    OBVIOUS
  <2>1. TypeOK
    BY DEF PlanInv, WalkInv
  <2>2. ASSUME task'[u] = task[u], pc'[u] = pc[u], DOMAIN entries \subseteq DOMAIN entries'
        PROVE  KeepsRetained(u)'
    <3>1. ASSUME NEW i \in DOMAIN task'[u].statuses, task'[u].statuses[i].retention = "retained"
          PROVE  \E k \in DOMAIN entries' : KeptAs(u, i, k)'
      BY <2>2, <3>1, KeptStays DEF KeepsRetained
    <3>2. PrefixKey(u, ~task[u].tainted)' = PrefixKey(u, ~task[u].tainted)
      BY <2>2 DEF PrefixKey, ContentsSoFar, NamespacesSoFar, Partition, Effective,
                  ConstraintsSoFar, Fragment
    <3>. QED
      BY <2>2, <3>1, <3>2 DEF KeepsRetained, Present
  <2>3. ASSUME NEW t \in Threads, Arrive(t) PROVE KeepsRetained(u)'
    <3>1. /\ pc'[t] \in {"idle", "walk"} /\ task'[t].statuses = <<>>
          /\ UNCHANGED entries
      BY <2>1, <2>3, ArriveStands
    <3>2. CASE u = t
      BY <3>1, <3>2 DEF KeepsRetained
    <3>3. CASE u # t
      BY <2>1, <2>2, <2>3, <3>1, <3>3, StepsAreLocal DEF OnlyMoves
    <3>. QED
      BY <3>2, <3>3
  <2>4. ASSUME NEW t \in Threads, Proceed(t) PROVE KeepsRetained(u)'
    <3>1. CASE u = t
      BY <2>4, <3>1, ProceedKeeps
    <3>2. CASE u # t
      BY <2>1, <2>2, <2>4, <3>2, StepsAreLocal, NothingLost DEF OnlyMoves
    <3>. QED
      BY <3>1, <3>2
  <2>5. CASE UNCHANGED <<entries, pc, task>>
    BY <2>2, <2>5
  <2>. QED
    BY <2>3, <2>4, <2>5 DEF Next, Tick, Terminating, vars
<1>3. Spec => [](PlanInv /\ HasNoDeadlines)
  BY AlwaysWithoutDeadlines
<1>. QED
  BY <1>1, <1>2, <1>3, PTL DEF Spec, RetainedInv

\* Over a backend that keeps what is put, and as long as nothing expires, what a
\* call that returned has reported retained is in the cache (gateway.py
\* _materialize, FragmentStatus).
THEOREM RetainedStaysKept ==
    ASSUME KeepsEntries(Backend), NothingExpires
    PROVE  Spec => []RetainedIsKept
<1>1. RetainedInv => RetainedIsKept
  BY DEF RetainedInv, KeepsRetained, RetainedIsKept
<1>. QED
  BY <1>1, AlwaysRetained, PTL
=============================================================================
