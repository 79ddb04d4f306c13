--------------------------- MODULE PromiseProofs ---------------------------
(***************************************************************************)
(* Nothing retained depends on a contributor that forbids retention, and   *)
(* nothing that approximate reuse influenced is in the exact keyspace; no  *)
(* call reuses state past the max_age of a contributor of the call that    *)
(* stored it; and Gateway implements RetainedState: for every set of       *)
(* threads and requests, every backend, and any bounds.                    *)
(*                                                                         *)
(* The first two are not inductive alone: what a call will store depends   *)
(* on what it has reused since it began (CallsMayRetain).  An entry's      *)
(* deadline is no later than any contributor's own bound, and no step but  *)
(* a new computation moves it.  With that, the boundaries and the          *)
(* retention modes, each reuse is one that all contributors admit.         *)
(***************************************************************************)
EXTENDS BoundaryProofs

-----------------------------------------------------------------------------
\* Modes and keyspaces

\* What a call has reused forbids no retention, the call knows whether any of it
\* was approximate, and it is half way through storing only if it may store.
MayRetain(t) == /\ \A s \in influence[t].sources : s.constraints.mode = "allow"
                /\ influence[t].approximate => task[t].tainted
                /\ pc[t] = "donate" => Effective(t).mode = "allow"

CallsMayRetain == \A t \in Threads : pc[t] # "idle" => MayRetain(t)

RetentionInv == TypeOK /\ ForbiddenNeverRetained /\ ApproximateKeptApart /\ CallsMayRetain

\* An effective mode that allows has no contributor that forbids (compose.py compose).
LEMMA AllowedByAll ==
    ASSUME NEW C, C \subseteq Constraints, Compose(C).mode = "allow", NEW c \in C
    PROVE  c.mode = "allow"
BY DEF Compose, Forbids, Constraints, Modes

\* A thread that takes no step keeps what it may do.
LEMMA OthersMayRetain ==
    ASSUME NEW u \in Threads, MayRetain(u), task'[u] = task[u], pc'[u] = pc[u],
           influence'[u] = influence[u]
    PROVE  MayRetain(u)'
BY DEF MayRetain, Effective, ConstraintsSoFar, Fragment

\* So a step of one call leaves the others be (gateway.py handle).
LEMMA StepMayRetain ==
    ASSUME CallsMayRetain, NEW t \in Threads, OnlyMoves(t), pc'[t] # "idle" => MayRetain(t)'
    PROVE  CallsMayRetain'
<1>1. ASSUME NEW u \in Threads, u # t, pc'[u] # "idle" PROVE MayRetain(u)'
  <2>1. task'[u] = task[u] /\ pc'[u] = pc[u] /\ influence'[u] = influence[u]
    BY <1>1 DEF OnlyMoves
  <2>. QED
    BY <1>1, <2>1, OthersMayRetain DEF CallsMayRetain
<1>. QED
  BY <1>1 DEF CallsMayRetain

\* What a call has reused, after the step (history only).
ReusedIsAllowed(t) == \A s \in influence'[t].sources : s.constraints.mode = "allow"

\* Moving on to the next fragment keeps the taint (gateway.py handle).
LEMMA ReportMayRetain ==
    ASSUME TypeOK, NEW t \in Threads, NEW status, Report(t, status), ReusedIsAllowed(t),
           influence'[t].approximate => task[t].tainted
    PROVE  MayRetain(t)'
<1>1. task \in [Threads -> Calls] /\ pc \in [Threads -> Places]
  BY DEF TypeOK, CallsTypeOK
<1>2. (task'[t].tainted <=> task[t].tainted) /\ pc'[t] = "walk"
  BY <1>1, Zenon DEF Report, Calls
<1>. QED
  BY <1>2 DEF MayRetain, ReusedIsAllowed

\* Going on with the same fragment sets it (gateway.py handle, _resolve).
LEMMA ContinueMayRetain ==
    ASSUME TypeOK, NEW t \in Threads, NEW place, NEW outcome, NEW tainted \in BOOLEAN,
           Continue(t, place, outcome, tainted), ReusedIsAllowed(t),
           influence'[t].approximate => tainted,
           place = "donate" => Effective(t).mode = "allow"
    PROVE  MayRetain(t)'
<1>1. task \in [Threads -> Calls] /\ pc \in [Threads -> Places]
  BY DEF TypeOK, CallsTypeOK
<1>2. /\ task'[t].constraints = task[t].constraints
      /\ task'[t].order = task[t].order /\ task'[t].pos = task[t].pos
      /\ pc'[t] = place
  BY <1>1 DEF Continue, Calls
<1>3. task'[t].tainted = tainted
  BY <1>1 DEF Continue, Calls
<1>4. Effective(t)' = Effective(t)
  BY <1>2 DEF Effective, ConstraintsSoFar, Fragment
<1>. QED
  BY <1>2, <1>3, <1>4 DEF MayRetain, ReusedIsAllowed

\* Deleting an entry (cache.py get).
LEMMA EvictKeepsRetention ==
    ASSUME TypeOK, ForbiddenNeverRetained, ApproximateKeptApart, NEW k, Evict(k)
    PROVE  ForbiddenNeverRetained' /\ ApproximateKeptApart'
<1>1. \A j \in DOMAIN entries' : j \in DOMAIN entries /\ lineage'[j] = lineage[j]
  BY DEF Evict, Delete, TypeOK, LineageTypeOK
<1>. QED
  BY <1>1 DEF ForbiddenNeverRetained, ApproximateKeptApart, AnswersTo

\* Storing under an allowing policy, as exact only what is untainted (gateway.py
\* _materialize).
LEMMA PutKeepsRetention ==
    ASSUME TypeOK, ForbiddenNeverRetained, ApproximateKeptApart,
           NEW t \in Threads, AtFragment(t), ConstraintsSoFar(t) # {}, MayRetain(t),
           Effective(t).mode = "allow",
           NEW k, k.exact => ~task[t].tainted, NEW exact, PutState(t, k, exact)
    PROVE  ForbiddenNeverRetained' /\ ApproximateKeptApart'
<1>1. CASE ~KeepsEntries(Backend)
  BY <1>1 DEF PutState, ForbiddenNeverRetained, ApproximateKeptApart, AnswersTo
<1>2. CASE KeepsEntries(Backend)
  <2>1. /\ DOMAIN entries' = DOMAIN entries \cup {k}
        /\ \A j \in DOMAIN entries' : j # k => j \in DOMAIN entries /\ lineage'[j] = lineage[j]
        /\ lineage'[k].own = OwnSources(t) /\ lineage'[k].inherited = influence[t].sources
    BY <1>2 DEF PutState, Put, TypeOK, LineageTypeOK
  <2>2. lineage'[k].approximate = influence[t].approximate
    BY <1>2 DEF PutState
  <2>3. \A s \in OwnSources(t) : s.constraints.mode = "allow"
    BY PrefixTypes, AllowedByAll DEF OwnSources, Effective
  <2>4. \A s \in influence[t].sources : s.constraints.mode = "allow"
    BY DEF MayRetain
  <2>5. ForbiddenNeverRetained'
    BY <2>1, <2>3, <2>4 DEF ForbiddenNeverRetained, AnswersTo
  <2>6. lineage'[k].approximate => ~k.exact
    BY <2>2 DEF MayRetain
  <2>7. ApproximateKeptApart'
    BY <2>1, <2>6 DEF ApproximateKeptApart
  <2>. QED
    BY <2>5, <2>7
<1>. QED
  BY <1>1, <1>2

-----------------------------------------------------------------------------
\* The steps of a call

\* A call that begins has reused nothing (gateway.py handle).
LEMMA ArriveKeepsRetention ==
    ASSUME RetentionInv, NEW t \in Threads, Arrive(t)
    PROVE  ForbiddenNeverRetained' /\ ApproximateKeptApart' /\ CallsMayRetain'
<1>1. PICK r \in Requests : Begin(t, r) \/ RefuseUnsortable(t, r) \/ RefuseRepeatedId(t, r)
  BY DEF Arrive
<1>2. Accept(t, r) /\ pc'[t] \in {"idle", "walk"}
  BY <1>1 DEF Begin, RefuseUnsortable, RefuseRepeatedId, Accept, RetentionInv, TypeOK, CallsTypeOK
<1>3. ForbiddenNeverRetained' /\ ApproximateKeptApart'
  BY <1>2 DEF RetentionInv, ForbiddenNeverRetained, ApproximateKeptApart, AnswersTo, Accept
<1>4. influence'[t].sources = {} /\ influence'[t].approximate = FALSE
  BY <1>2 DEF RetentionInv, TypeOK, InfluenceTypeOK, Accept, NoInfluence
<1>5. MayRetain(t)'
  BY <1>2, <1>4 DEF MayRetain
<1>. QED
  BY <1>3, <1>5, StepsAreLocal, StepMayRetain DEF RetentionInv

\* Every step of a call keeps retention as promised (gateway.py handle, _resolve
\* and _materialize).
LEMMA ProceedKeepsRetention ==
    ASSUME RetentionInv, NEW t \in Threads, Proceed(t)
    PROVE  ForbiddenNeverRetained' /\ ApproximateKeptApart' /\ CallsMayRetain'
<1>. USE Located
<1>1. /\ TypeOK /\ ForbiddenNeverRetained /\ ApproximateKeptApart /\ CallsMayRetain
      /\ OnlyMoves(t)
  BY StepsAreLocal DEF RetentionInv
<1>2. SUFFICES /\ ForbiddenNeverRetained' /\ ApproximateKeptApart'
               /\ pc'[t] # "idle" => MayRetain(t)'
  BY <1>1, StepMayRetain
<1>3. pc[t] # "idle" => MayRetain(t)
  BY <1>1 DEF CallsMayRetain
<1>4. ASSUME UNCHANGED <<entries, lineage>>
      PROVE  ForbiddenNeverRetained' /\ ApproximateKeptApart'
  BY <1>1, <1>4 DEF ForbiddenNeverRetained, ApproximateKeptApart, AnswersTo
<1>5. ASSUME pc[t] # "idle", UNCHANGED influence
      PROVE  ReusedIsAllowed(t) /\ (influence'[t].approximate => task[t].tainted)
  BY <1>3, <1>5 DEF MayRetain, ReusedIsAllowed
<1>6. /\ influence \in [Threads -> [sources : SUBSET Sources, approximate : BOOLEAN]]
      /\ task[t].tainted \in BOOLEAN
  BY <1>1 DEF TypeOK, InfluenceTypeOK, CallsTypeOK, Calls
<1>7. ASSUME NEW k, Present(k), pc[t] # "idle", NEW approximate, Inherit(t, k, approximate)
      PROVE  ReusedIsAllowed(t)
  <2>1. influence'[t].sources = influence[t].sources \cup AnswersTo(k)
    BY <1>6, <1>7, Zenon DEF Inherit, AnswersTo
  <2>2. \A s \in AnswersTo(k) : s.constraints.mode = "allow"
    BY <1>1, <1>7 DEF ForbiddenNeverRetained, Present
  <2>. QED
    BY <1>3, <1>7, <2>1, <2>2 DEF MayRetain, ReusedIsAllowed
<1>8. CASE \/ PassUngoverned(t) \/ BypassUnenforceable(t) \/ LeaveUnobserved(t)
           \/ WithholdForbidden(t) \/ Decline(t)
  <2>1. pc[t] # "idle" /\ UNCHANGED <<entries, lineage, influence>>
    BY <1>8 DEF PassUngoverned, BypassUnenforceable, LeaveUnobserved, WithholdForbidden,
                Decline, Admitted, ReachedPolicy, Reached
  <2>2. \E status : Report(t, status)
    BY <1>8 DEF PassUngoverned, BypassUnenforceable, LeaveUnobserved, WithholdForbidden,
                Decline, ReportComputed
  <2>. QED
    BY <1>1, <1>4, <1>5, <2>1, <2>2, ReportMayRetain
<1>9. CASE RejectMalformed(t) \/ RejectUnenforceable(t) \/ EvictMissing(t) \/ Return(t)
  <2>1. pc'[t] = "idle" /\ UNCHANGED <<entries, lineage>>
    BY <1>1, <1>9 DEF RejectMalformed, RejectUnenforceable, EvictMissing, Return, Raise,
                      TypeOK, CallsTypeOK
  <2>. QED
    BY <1>4, <2>1
<1>10. CASE SkipLookup(t) \/ ExactMiss(t) \/ ExactStale(t) \/ DonorMiss(t) \/ DonorStale(t)
  <2>1. pc[t] # "idle" /\ UNCHANGED <<entries, lineage, influence>>
    BY <1>10 DEF SkipLookup, ExactMiss, ExactStale, DonorMiss, DonorStale, LooksUp, Admitted,
                 ReachedPolicy, Reached
  <2>2. \E place \in {"evict", "donor", "evict_donor", "store"} :
           \E outcome : Continue(t, place, outcome, task[t].tainted)
    BY <1>10 DEF SkipLookup, ExactMiss, ExactStale, DonorMiss, DonorStale, AfterExactMiss
  <2>. QED
    BY <1>1, <1>4, <1>5, <1>6, <2>1, <2>2, ContinueMayRetain
<1>11. CASE EvictExact(t) \/ EvictDonor(t)
  <2>1. pc[t] # "idle" /\ UNCHANGED influence /\ \E k : Evict(k)
    BY <1>11 DEF EvictExact, EvictDonor
  <2>2. \E place \in {"evict", "donor", "evict_donor", "store"} :
           \E outcome : Continue(t, place, outcome, task[t].tainted)
    BY <1>11 DEF EvictExact, EvictDonor, AfterExactMiss
  <2>. QED
    BY <1>1, <1>5, <1>6, <2>1, <2>2, EvictKeepsRetention, ContinueMayRetain
<1>12. CASE ExactHit(t)
  <2>1. /\ pc[t] # "idle" /\ UNCHANGED <<entries, lineage>>
        /\ Present(ExactKey(t)) /\ Inherit(t, ExactKey(t), FALSE)
    BY <1>12 DEF ExactHit, LooksUp, Admitted, ReachedPolicy, Reached, Usable
  <2>2. ~lineage[ExactKey(t)].approximate
    BY <1>1, <2>1 DEF ApproximateKeptApart, Present, ExactKey, PrefixKey, CacheKey
  <2>3. influence'[t].approximate => influence[t].approximate
    BY <1>6, <2>1, <2>2, Zenon DEF Inherit
  <2>. QED
    BY <1>1, <1>3, <1>4, <1>7, <1>12, <2>1, <2>3, ReportMayRetain DEF ExactHit, MayRetain
<1>13. CASE DonorHit(t)
  <2>1. /\ pc[t] # "idle" /\ UNCHANGED <<entries, lineage>>
        /\ Present(DonorKey(t)) /\ Inherit(t, DonorKey(t), TRUE)
    BY <1>13 DEF DonorHit, Usable
  <2>2. ReusedIsAllowed(t)
    BY <1>7, <2>1
  <2>. QED
    BY <1>1, <1>4, <1>13, <2>1, <2>2, ContinueMayRetain DEF DonorHit
<1>14. CASE Store(t)
  <2>1. /\ AtFragment(t) /\ ConstraintsSoFar(t) # {} /\ pc[t] # "idle" /\ UNCHANGED influence
        /\ Effective(t).mode = "allow"
    BY <1>1, <1>14 DEF Store
  <2>2. ForbiddenNeverRetained' /\ ApproximateKeptApart'
    <3>. DEFINE k == PrefixKey(t, ~task[t].tainted)
    <3>1. PutState(t, k, ~task[t].tainted)
      BY <1>14 DEF Store
    <3>2. k.exact => ~task[t].tainted
      BY DEF PrefixKey, CacheKey
    <3>. QED
      BY <1>1, <1>3, <2>1, <3>1, <3>2, PutKeepsRetention
  <2>3. (\E status : Report(t, status)) \/ Continue(t, "donate", task[t].outcome, task[t].tainted)
    BY <1>14 DEF Store, ReportComputed
  <2>. QED
    BY <1>1, <1>5, <1>6, <2>1, <2>2, <2>3, ReportMayRetain, ContinueMayRetain
<1>15. CASE Donate(t)
  <2>1. /\ AtFragment(t) /\ ConstraintsSoFar(t) # {} /\ pc[t] # "idle" /\ UNCHANGED influence
    BY <1>1, <1>15 DEF Donate
  <2>2. Effective(t).mode = "allow"
    BY <1>3, <1>15 DEF Donate, MayRetain
  <2>3. ~DonorKey(t).exact
    BY DEF DonorKey, CacheKey
  <2>4. ForbiddenNeverRetained' /\ ApproximateKeptApart'
    BY <1>1, <1>3, <1>15, <2>1, <2>2, <2>3, PutKeepsRetention DEF Donate
  <2>5. \E status : Report(t, status)
    BY <1>15 DEF Donate, ReportComputed
  <2>. QED
    BY <1>1, <1>5, <2>1, <2>4, <2>5, ReportMayRetain
<1>. QED
  BY <1>8, <1>9, <1>10, <1>11, <1>12, <1>13, <1>14, <1>15 DEF Proceed

\* At the start nothing is retained and nothing reused (gateway.py Gateway).
LEMMA InitKeepsRetention == Init => RetentionInv
<1>1. Init => TypeOK
  BY InitTyped
<1>2. Init => ForbiddenNeverRetained /\ ApproximateKeptApart /\ CallsMayRetain
  BY DEF Init, EntriesInit, ForbiddenNeverRetained, ApproximateKeptApart, CallsMayRetain
<1>. QED
  BY <1>1, <1>2 DEF RetentionInv

\* No step of any thread ends the invariant (gateway.py handle, cache.py).
LEMMA NextKeepsRetention == RetentionInv /\ [Next]_vars => RetentionInv'
<1>. SUFFICES ASSUME RetentionInv, [Next]_vars PROVE RetentionInv'
  OBVIOUS
<1>1. TypeOK'
  BY NextTyped DEF RetentionInv
<1>2. ASSUME NEW t \in Threads, Arrive(t) \/ Proceed(t)
      PROVE  ForbiddenNeverRetained' /\ ApproximateKeptApart' /\ CallsMayRetain'
  BY <1>2, ArriveKeepsRetention, ProceedKeepsRetention
<1>3. ASSUME UNCHANGED <<entries, pc, task, lineage, influence>>
      PROVE  ForbiddenNeverRetained' /\ ApproximateKeptApart' /\ CallsMayRetain'
  <2>1. ForbiddenNeverRetained' /\ ApproximateKeptApart'
    BY <1>3 DEF RetentionInv, ForbiddenNeverRetained, ApproximateKeptApart, AnswersTo
  <2>2. CallsMayRetain'
    BY <1>3, OthersMayRetain DEF RetentionInv, CallsMayRetain
  <2>. QED
    BY <2>1, <2>2
<1>4. ForbiddenNeverRetained' /\ ApproximateKeptApart' /\ CallsMayRetain'
  BY <1>2, <1>3 DEF Next, Tick, Terminating, vars
<1>. QED
  BY <1>1, <1>4 DEF RetentionInv

\* No retained state depends on a contributor that forbids retention, those of
\* reused state included (gateway.py _materialize, compose.py compose).
THEOREM ForbiddenIsNeverRetained == Spec => []ForbiddenNeverRetained
<1>1. Spec => []RetentionInv
  BY InitKeepsRetention, NextKeepsRetention, PTL DEF Spec
<1>2. RetentionInv => ForbiddenNeverRetained
  BY DEF RetentionInv
<1>. QED
  BY <1>1, <1>2, PTL

\* State that approximate reuse influenced is never found by an exact lookup
\* (gateway.py handle, identity.py cache_key).
THEOREM ApproximateIsKeptApart == Spec => []ApproximateKeptApart
<1>1. Spec => []RetentionInv
  BY InitKeepsRetention, NextKeepsRetention, PTL DEF Spec
<1>2. RetentionInv => ApproximateKeptApart
  BY DEF RetentionInv
<1>. QED
  BY <1>1, <1>2, PTL

-----------------------------------------------------------------------------
\* Lifetimes, and the abstract promise

\* The deadline of an entry keeps within the max_age of each of its contributors.
DeadlinesHold ==
    \A k \in DOMAIN entries : \A s \in lineage[k].own :
        s.constraints.max_age # None =>
            /\ entries[k].expires_at # None
            /\ entries[k].expires_at <= s.at + s.constraints.max_age

LifetimeInv == RetentionInv /\ DeadlinesHold

\* Deleting an entry moves no deadline (cache.py get).
LEMMA EvictKeepsDeadlines ==
    ASSUME TypeOK, DeadlinesHold, NEW k, Evict(k)
    PROVE  DeadlinesHold'
<1>1. \A j \in DOMAIN entries' : /\ j \in DOMAIN entries
                                 /\ lineage'[j] = lineage[j] /\ entries'[j] = entries[j]
  BY DEF Evict, Delete, TypeOK, LineageTypeOK
<1>. QED
  BY <1>1 DEF DeadlinesHold

\* A new entry's deadline is counted from the clock reading of the call, with the
\* smallest max_age of its contributors (cache.py put, compose.py compose_max_age).
LEMMA PutKeepsDeadlines ==
    ASSUME TypeOK, DeadlinesHold, NEW t \in Threads, AtFragment(t), ConstraintsSoFar(t) # {},
           Effective(t).mode = "allow", NEW k, NEW exact, PutState(t, k, exact)
    PROVE  DeadlinesHold'
<1>1. CASE ~KeepsEntries(Backend)
  BY <1>1 DEF PutState, DeadlinesHold
<1>2. CASE KeepsEntries(Backend)
  <2>1. /\ DOMAIN entries' = DOMAIN entries \cup {k}
        /\ \A j \in DOMAIN entries' : j # k => /\ j \in DOMAIN entries
                                               /\ lineage'[j] = lineage[j]
                                               /\ entries'[j] = entries[j]
        /\ lineage'[k].own = OwnSources(t)
        /\ entries'[k].expires_at = ExpiresAt(task[t].now, Effective(t).max_age)
    BY <1>2 DEF PutState, Put, TypeOK, LineageTypeOK
  <2>2. ASSUME NEW s \in OwnSources(t), s.constraints.max_age # None
        PROVE  /\ entries'[k].expires_at # None
               /\ entries'[k].expires_at <= s.at + s.constraints.max_age
    <3>. DEFINE ages == {c.max_age : c \in ConstraintsSoFar(t)}
    <3>1. /\ s.constraints \in ConstraintsSoFar(t) /\ s.at = task[t].now
          /\ ConstraintsSoFar(t) \subseteq Constraints /\ task[t].now \in Nat
      BY PrefixTypes, CallTypes DEF OwnSources, AtFragment
    <3>2. ages \subseteq Nat \cup {None} /\ s.constraints.max_age \in ages
      BY <3>1 DEF Constraints
    <3>3. Effective(t).max_age = ComposeMaxAge(ages)
      BY DEF Effective, Compose
    <3>4. /\ Effective(t).max_age # None /\ Effective(t).max_age <= s.constraints.max_age
          /\ Effective(t).max_age \in Nat /\ s.constraints.max_age \in Nat
      BY <2>2, <3>2, <3>3, MaxAgeIsSmallest
    <3>5. entries'[k].expires_at = task[t].now + Effective(t).max_age
      BY <2>1, <3>4 DEF ExpiresAt
    <3>. QED
      BY <3>1, <3>4, <3>5, NoneAssumption
  <2>. QED
    BY <2>1, <2>2 DEF DeadlinesHold
<1>. QED
  BY <1>1, <1>2

\* The other steps move no deadline (gateway.py handle, cache.py).
LEMMA ProceedKeepsDeadlines ==
    ASSUME LifetimeInv, NEW t \in Threads, Proceed(t)
    PROVE  DeadlinesHold'
<1>. USE Located
<1>1. TypeOK /\ DeadlinesHold /\ (pc[t] # "idle" => MayRetain(t))
  BY DEF LifetimeInv, RetentionInv, CallsMayRetain
<1>2. CASE UNCHANGED <<entries, lineage>>
  BY <1>1, <1>2 DEF DeadlinesHold
<1>3. CASE EvictExact(t) \/ EvictDonor(t)
  BY <1>1, <1>3, EvictKeepsDeadlines DEF EvictExact, EvictDonor
<1>4. CASE Store(t)
  BY <1>1, <1>4, PutKeepsDeadlines DEF Store
<1>5. CASE Donate(t)
  <2>1. Effective(t).mode = "allow"
    BY <1>1, <1>5 DEF Donate, MayRetain
  <2>. QED
    BY <1>1, <1>5, <2>1, PutKeepsDeadlines DEF Donate
<1>6. CASE \/ PassUngoverned(t) \/ RejectMalformed(t) \/ RejectUnenforceable(t)
           \/ BypassUnenforceable(t) \/ LeaveUnobserved(t) \/ SkipLookup(t)
           \/ ExactHit(t) \/ ExactMiss(t) \/ ExactStale(t)
           \/ DonorHit(t) \/ DonorMiss(t) \/ DonorStale(t) \/ EvictMissing(t)
           \/ WithholdForbidden(t) \/ Decline(t) \/ Return(t)
  BY <1>2, <1>6 DEF PassUngoverned, RejectMalformed, RejectUnenforceable, BypassUnenforceable,
       LeaveUnobserved, SkipLookup, ExactHit, ExactMiss, ExactStale, DonorHit, DonorMiss,
       DonorStale, EvictMissing, WithholdForbidden, Decline, Return
<1>. QED
  BY <1>3, <1>4, <1>5, <1>6 DEF Proceed

\* There are no deadlines at the start (cache.py InMemoryCache).
LEMMA InitKeepsDeadlines == Init => LifetimeInv
BY InitKeepsRetention DEF LifetimeInv, Init, EntriesInit, DeadlinesHold

\* And every deadline holds after every step (gateway.py, cache.py).
LEMMA NextKeepsDeadlines == LifetimeInv /\ [Next]_vars => LifetimeInv'
<1>. SUFFICES ASSUME LifetimeInv, [Next]_vars PROVE LifetimeInv'
  OBVIOUS
<1>1. RetentionInv'
  BY NextKeepsRetention DEF LifetimeInv
<1>2. ASSUME UNCHANGED <<entries, lineage>> PROVE DeadlinesHold'
  BY <1>2 DEF LifetimeInv, DeadlinesHold
<1>3. ASSUME NEW t \in Threads, Arrive(t) PROVE UNCHANGED <<entries, lineage>>
  BY <1>3 DEF Arrive, Begin, RefuseUnsortable, RefuseRepeatedId, Accept
<1>4. DeadlinesHold'
  BY <1>2, <1>3, ProceedKeepsDeadlines DEF Next, Tick, Terminating, vars
<1>. QED
  BY <1>1, <1>4 DEF LifetimeInv

\* An entry a lookup answers with is within the max_age of its contributors at
\* the lookup's reading of the clock (cache.py get).
LEMMA UsableIsWithinMaxAge ==
    ASSUME LifetimeInv, NEW k, NEW now \in Nat, Usable(k, now), NEW s \in lineage[k].own
    PROVE  WithinMaxAge(s, now)
<1>1. k \in DOMAIN entries /\ TypeOK
  BY DEF Usable, Present, LifetimeInv, RetentionInv
<1>2. /\ entries[k].expires_at \in Nat \cup {None}
      /\ s \in Sources
  BY <1>1 DEF TypeOK, EntriesTypeOK, Entries, LineageTypeOK
<1>3. SUFFICES ASSUME s.constraints.max_age # None
               PROVE  now < s.at + s.constraints.max_age
  BY DEF WithinMaxAge
<1>4. s.at + s.constraints.max_age \in Nat
  BY <1>2, <1>3 DEF Sources, Constraints
<1>5. /\ entries[k].expires_at # None
      /\ entries[k].expires_at <= s.at + s.constraints.max_age
  BY <1>1, <1>3 DEF LifetimeInv, DeadlinesHold
<1>6. now < entries[k].expires_at
  BY <1>2, <1>5 DEF Usable, Expired
<1>. QED
  BY <1>2, <1>4, <1>5, <1>6

\* State is reused only within the max_age of each contributor of the call that
\* stored it (cache.py get, compose.py compose_max_age).
THEOREM ReuseIsWithinMaxAge == Spec => NoReusePastMaxAge
<1>. DEFINE Within == \A t \in Threads, k \in DOMAIN entries :
                         Reuses(t, k) => \A s \in lineage[k].own : WithinMaxAge(s, task[t].now)
<1>1. Spec => []LifetimeInv
  BY InitKeepsDeadlines, NextKeepsDeadlines, PTL DEF Spec
<1>2. LifetimeInv => Within
  <2>. SUFFICES ASSUME LifetimeInv, NEW t \in Threads, NEW k \in DOMAIN entries, Reuses(t, k),
                       NEW s \in lineage[k].own
                PROVE  WithinMaxAge(s, task[t].now)
    OBVIOUS
  <2>1. Usable(k, task[t].now)
    BY DEF Reuses, ExactHit, DonorHit
  <2>2. task[t].now \in Nat
    BY DEF LifetimeInv, RetentionInv, TypeOK, CallsTypeOK, Calls
  <2>. QED
    BY <2>1, <2>2, UsableIsWithinMaxAge
<1>3. LifetimeInv => [Within]_vars
  BY <1>2
<1>. QED
  BY <1>1, <1>3, PTL DEF NoReusePastMaxAge

-----------------------------------------------------------------------------
\* The gateway implements RetainedState

\* Requests are numbered and timed within the bounds of the behaviour.
WithinBounds ==
    /\ served <= MaxRequests /\ clock <= MaxTime
    /\ \A t \in Threads : task[t].request # None =>
          /\ task[t].request \in Requests
          /\ task[t].id \in 1..MaxRequests /\ task[t].now \in 0..MaxTime

PromiseInv == LifetimeInv /\ BoundaryInv /\ WithinBounds

\* What a call that begins is given (gateway.py handle, binding_openai.py prepare).
LEMMA ArriveBegins ==
    ASSUME TypeOK, NEW t \in Threads, Arrive(t)
    PROVE  \E r \in Requests :
              /\ Accept(t, r)
              /\ task'[t].request = r /\ task'[t].id = served + 1 /\ task'[t].now = clock
<1>1. PICK r \in Requests : Begin(t, r) \/ RefuseUnsortable(t, r) \/ RefuseRepeatedId(t, r)
  BY DEF Arrive
<1>2. PICK order, error : task' = [task EXCEPT ![t] = Call(r, order, error)]
  BY <1>1 DEF Begin, RefuseUnsortable, RefuseRepeatedId
<1>3. task'[t] = Call(r, order, error)
  BY <1>2 DEF TypeOK, CallsTypeOK
<1>. QED
  BY <1>1, <1>3 DEF Begin, RefuseUnsortable, RefuseRepeatedId, Call

\* Numbers and times stay within the bounds (gateway.py handle).
LEMMA NextKeepsBounds ==
    ASSUME TypeOK, WithinBounds, [Next]_vars
    PROVE  WithinBounds'
<1>1. ASSUME NEW t \in Threads, Arrive(t) PROVE WithinBounds'
  <2>1. PICK r \in Requests :
               /\ Accept(t, r)
               /\ task'[t].request = r /\ task'[t].id = served + 1 /\ task'[t].now = clock
    BY <1>1, ArriveBegins
  <2>2. \A u \in Threads \ {t} : task'[u] = task[u]
    BY <1>1, StepsAreLocal DEF OnlyMoves
  <2>3. served \in Nat /\ clock \in Nat /\ MaxRequests \in Nat /\ MaxTime \in Nat
    BY BoundsAssumption DEF TypeOK
  <2>. QED
    BY <2>1, <2>2, <2>3 DEF WithinBounds, Accept
<1>2. ASSUME NEW t \in Threads, Proceed(t) PROVE WithinBounds'
  <2>1. \A u \in Threads : /\ task'[u].request = task[u].request
                           /\ task'[u].id = task[u].id /\ task'[u].now = task[u].now
    BY <1>2, RequestStays, StepsAreLocal DEF OnlyMoves, KeepsRequest
  <2>2. UNCHANGED <<served, clock>>
    BY <1>2 DEF Proceed, PassUngoverned, RejectMalformed, RejectUnenforceable,
         BypassUnenforceable, LeaveUnobserved, SkipLookup, ExactHit, ExactMiss, ExactStale,
         EvictExact, DonorHit, DonorMiss, DonorStale, EvictDonor, EvictMissing,
         WithholdForbidden, Decline, Store, Donate, Return
  <2>. QED
    BY <2>1, <2>2 DEF WithinBounds
<1>3. CASE Tick
  BY <1>3, BoundsAssumption DEF Tick, WithinBounds, TypeOK
<1>4. CASE UNCHANGED vars
  BY <1>4 DEF vars, WithinBounds
<1>. QED
  BY <1>1, <1>2, <1>3, <1>4 DEF Next, Terminating

LEMMA InitKeepsPromise == Init => PromiseInv /\ Promise!Init
<1>. SUFFICES ASSUME Init PROVE PromiseInv /\ Promise!Init
  OBVIOUS
<1>1. LifetimeInv /\ BoundaryInv
  BY InitKeepsDeadlines, InitKeepsBoundary
<1>2. WithinBounds
  BY BoundsAssumption DEF Init, NoCall, WithinBounds
<1>3. Promise!Init
  <2>1. RetainedFor = [k \in {} |-> None]
    BY DEF Init, RetainedFor
  <2>2. ReaderBehind = [t \in Threads |-> None]
    BY DEF Init, ReaderBehind, ReaderOf, NoCall
  <2>3. DrawnBy = [t \in Threads |-> {}]
    BY DEF Init, DrawnBy, NoInfluence
  <2>. QED
    BY <2>1, <2>2, <2>3 DEF Promise!Init
<1>. QED
  BY <1>1, <1>2, <1>3 DEF PromiseInv

\* A step that keeps the cache's history, and what the call has reused, leaves
\* the promise's state alone (gateway.py handle).
LEMMA QuietSteps ==
    ASSUME TypeOK, NEW t \in Threads, Proceed(t), UNCHANGED <<lineage, influence>>
    PROVE  UNCHANGED Promise!vars
<1>1. \A u \in Threads : /\ task'[u].request = task[u].request
                         /\ task'[u].id = task[u].id /\ task'[u].now = task[u].now
  BY RequestStays, StepsAreLocal DEF OnlyMoves, KeepsRequest
<1>2. UNCHANGED ReaderBehind
  BY <1>1 DEF ReaderBehind, ReaderOf
<1>3. UNCHANGED RetainedFor /\ UNCHANGED DrawnBy
  BY DEF RetainedFor, DrawnBy
<1>. QED
  BY <1>2, <1>3 DEF Promise!vars

\* A call that arrives starts a reader (gateway.py handle).
LEMMA ArriveStarts ==
    ASSUME PromiseInv, WithinBounds', NEW t \in Threads, Arrive(t)
    PROVE  Promise!Start(t)
<1>1. TypeOK /\ WithinBounds
  BY DEF PromiseInv, BoundaryInv
<1>2. PICK r \in Requests :
             /\ Accept(t, r)
             /\ task'[t].request = r /\ task'[t].id = served + 1 /\ task'[t].now = clock
  BY <1>1, ArriveBegins
<1>3. \A u \in Threads \ {t} : task'[u] = task[u] /\ influence'[u] = influence[u]
  BY <1>1, StepsAreLocal DEF OnlyMoves
<1>. DEFINE reader == [auth |-> r.auth, request |-> task'[t].id, now |-> task'[t].now]
<1>4. r # None
  BY NoRequestAssumption
<1>5. ReaderOf(t)' = reader /\ \A u \in Threads \ {t} : ReaderOf(u)' = ReaderOf(u)
  BY <1>2, <1>3, <1>4 DEF ReaderOf
<1>6. ReaderBehind' = [ReaderBehind EXCEPT ![t] = reader]
  BY <1>5 DEF ReaderBehind
<1>7. reader \in [auth : {q.auth : q \in Requests}, request : 1..MaxRequests, now : 0..MaxTime]
  BY <1>2, <1>4 DEF WithinBounds
<1>8. DrawnBy' = [DrawnBy EXCEPT ![t] = {}]
  BY <1>1, <1>2, <1>3 DEF DrawnBy, Accept, NoInfluence, TypeOK, InfluenceTypeOK
<1>9. UNCHANGED RetainedFor
  BY <1>2 DEF Accept, RetainedFor
<1>. QED
  BY <1>6, <1>7, <1>8, <1>9 DEF Promise!Start

\* Being inside a boundary depends on who is calling and for which request, and is
\* the same for the promise (auth.py).
LEMMA SamePlace ==
    ASSUME NEW s, NEW x, NEW y, x.auth = y.auth, x.request = y.request, InBoundary(s, x)
    PROVE  Promise!InBoundary(s, y)
BY DEF InBoundary, Promise!InBoundary

LEMMA SameAge ==
    ASSUME NEW s, NEW now, WithinMaxAge(s, now)
    PROVE  Promise!WithinMaxAge(s, now)
BY DEF WithinMaxAge, Promise!WithinMaxAge

\* State a call reuses is admitted by all it answers to (gateway.py _resolve).
LEMMA HitReuses ==
    ASSUME PromiseInv, NEW t \in Threads, Proceed(t), pc[t] # "idle",
           NEW k, Usable(k, task[t].now), k.partition = Partition(t), Effective(t).share_max \in Scopes,
           NEW approximate, Inherit(t, k, approximate), UNCHANGED lineage
    PROVE  Promise!Reuse(t, k)
<1>1. /\ TypeOK /\ BoundaryHolds /\ ForbiddenNeverRetained /\ LifetimeInv /\ WithinBounds
      /\ k \in DOMAIN entries /\ k \in DOMAIN lineage
  BY DEF PromiseInv, BoundaryInv, LifetimeInv, RetentionInv, Usable, Present, TypeOK, LineageTypeOK
<1>2. /\ task[t].request \in Requests /\ task[t].now \in Nat
      /\ ReaderOf(t) = [auth |-> task[t].request.auth, request |-> task[t].id, now |-> task[t].now]
      /\ ReaderOf(t) # None
  BY <1>1, CallTypes, NoRequestAssumption DEF ReaderOf
<1>. DEFINE reader == ReaderOf(t)
            place == [auth |-> task[t].request.auth, request |-> task[t].id]
<1>3. ASSUME NEW s \in AnswersTo(k) PROVE Promise!Admits(s, reader)
  <2>1. place \in Readers
    BY <1>1, <1>2, NoRequestAssumption DEF WithinBounds, Readers
  <2>2. Addresses(place, k)
    BY DEF Addresses, Partition
  <2>3. InBoundary(s, place)
    BY <1>1, <1>3, <2>1, <2>2 DEF BoundaryHolds
  <2>4. Promise!InBoundary(s, reader)
    <3>1. place.auth = reader.auth /\ place.request = reader.request
      BY <1>2
    <3>. QED
      BY <2>3, <3>1, SamePlace
  <2>. QED
    BY <1>1, <1>3, <2>4 DEF ForbiddenNeverRetained, Promise!Admits
<1>4. \A s \in lineage[k].own : Promise!WithinMaxAge(s, reader.now)
  <2>1. reader.now = task[t].now
    BY <1>2
  <2>. QED
    BY <1>1, <1>2, <2>1, UsableIsWithinMaxAge, SameAge
<1>5. DrawnBy' = [DrawnBy EXCEPT ![t] = @ \cup lineage[k].own \cup lineage[k].inherited]
  <2>1. /\ influence'[t].sources = influence[t].sources \cup lineage[k].own \cup lineage[k].inherited
        /\ \A u \in Threads \ {t} : influence'[u] = influence[u]
    BY <1>1, StepsAreLocal, Zenon DEF Inherit, OnlyMoves, TypeOK, InfluenceTypeOK
  <2>. QED
    BY <2>1 DEF DrawnBy
<1>6. UNCHANGED <<RetainedFor, ReaderBehind>>
  <2>1. \A u \in Threads : /\ task'[u].request = task[u].request
                           /\ task'[u].id = task[u].id /\ task'[u].now = task[u].now
    BY <1>1, RequestStays, StepsAreLocal DEF OnlyMoves, KeepsRequest
  <2>. QED
    BY <2>1 DEF RetainedFor, ReaderBehind, ReaderOf
<1>7. ReaderBehind[t] = reader /\ RetainedFor[k] = [own |-> lineage[k].own, inherited |-> lineage[k].inherited]
  BY <1>1 DEF ReaderBehind, RetainedFor
<1>. QED
  BY <1>2, <1>3, <1>4, <1>5, <1>6, <1>7 DEF Promise!Reuse, AnswersTo

\* State a call stores is kept for its own contributors and for those it drew on
\* (gateway.py _materialize).
LEMMA PutRetains ==
    ASSUME PromiseInv, NEW t \in Threads, Proceed(t), pc[t] # "idle", UNCHANGED influence,
           NEW k, NEW exact, PutState(t, k, exact)
    PROVE  \/ UNCHANGED Promise!vars
           \/ k \in DOMAIN RetainedFor' /\ Promise!Retain(t, k, RetainedFor'[k].own)
<1>1. TypeOK
  BY DEF PromiseInv, BoundaryInv
<1>2. CASE ~KeepsEntries(Backend)
  BY <1>1, <1>2, QuietSteps DEF PutState
<1>3. CASE KeepsEntries(Backend)
  <2>1. /\ DOMAIN lineage' = DOMAIN lineage \cup {k}
        /\ \A j \in DOMAIN lineage' : j # k => lineage'[j] = lineage[j]
        /\ lineage'[k].own = OwnSources(t) /\ lineage'[k].inherited = influence[t].sources
    BY <1>3 DEF PutState
  <2>2. RetainedFor' = [j \in DOMAIN RetainedFor \cup {k} |->
                          IF j = k THEN [own |-> OwnSources(t), inherited |-> DrawnBy[t]]
                          ELSE RetainedFor[j]]
    BY <2>1 DEF RetainedFor, DrawnBy
  <2>3. UNCHANGED <<ReaderBehind, DrawnBy>>
    <3>1. \A u \in Threads : /\ task'[u].request = task[u].request
                             /\ task'[u].id = task[u].id /\ task'[u].now = task[u].now
      BY <1>1, RequestStays, StepsAreLocal DEF OnlyMoves, KeepsRequest
    <3>. QED
      BY <3>1 DEF ReaderBehind, ReaderOf, DrawnBy
  <2>4. /\ ReaderBehind[t] = [auth |-> task[t].request.auth, request |-> task[t].id,
                              now |-> task[t].now]
        /\ ReaderBehind[t] # None
    BY <1>1, CallTypes, NoRequestAssumption DEF ReaderBehind, ReaderOf
  <2>5. \A s \in OwnSources(t) : /\ s.auth = task[t].request.auth
                                 /\ s.request = task[t].id /\ s.at = task[t].now
    BY DEF OwnSources
  <2>6. RetainedFor'[k].own = OwnSources(t)
    BY <2>2
  <2>. QED
    BY <2>2, <2>3, <2>4, <2>5, <2>6 DEF Promise!Retain
<1>. QED
  BY <1>2, <1>3

\* Every step of a call is one of the promise, or none (gateway.py handle,
\* _resolve and _materialize, cache.py get).
LEMMA ProceedKeepsPromise ==
    ASSUME PromiseInv, NEW t \in Threads, Proceed(t)
    PROVE  [Promise!Next]_Promise!vars
<1>. USE Located
<1>1. TypeOK
  BY DEF PromiseInv, BoundaryInv
<1>2. CASE UNCHANGED <<lineage, influence>>
  BY <1>1, <1>2, QuietSteps
<1>3. CASE EvictExact(t) \/ EvictDonor(t)
  <2>1. PICK k : Present(k) /\ Evict(k) /\ UNCHANGED influence
    BY <1>3 DEF EvictExact, EvictDonor
  <2>2. k \in DOMAIN RetainedFor
    BY <1>1, <2>1 DEF Present, RetainedFor, TypeOK, LineageTypeOK
  <2>3. RetainedFor' = [j \in DOMAIN RetainedFor \ {k} |-> RetainedFor[j]]
    BY <2>1 DEF Evict, RetainedFor
  <2>4. UNCHANGED <<ReaderBehind, DrawnBy>>
    <3>1. \A u \in Threads : /\ task'[u].request = task[u].request
                             /\ task'[u].id = task[u].id /\ task'[u].now = task[u].now
      BY <1>1, RequestStays, StepsAreLocal DEF OnlyMoves, KeepsRequest
    <3>. QED
      BY <2>1, <3>1 DEF ReaderBehind, ReaderOf, DrawnBy
  <2>. QED
    BY <2>2, <2>3, <2>4 DEF Promise!Drop, Promise!Next
<1>4. CASE ExactHit(t)
  <2>1. /\ pc[t] # "idle" /\ Usable(ExactKey(t), task[t].now)
        /\ ExactKey(t).partition = Partition(t)
        /\ Inherit(t, ExactKey(t), FALSE) /\ UNCHANGED lineage
        /\ AtFragment(t) /\ ConstraintsSoFar(t) # {}
    BY <1>1, <1>4 DEF ExactHit, LooksUp, Admitted, ReachedPolicy, Reached, ExactKey, PrefixKey, CacheKey
  <2>2. Effective(t).share_max \in Scopes
    BY <1>1, <2>1, PolicyTypes DEF Policies
  <2>3. Promise!Reuse(t, ExactKey(t))
    BY <2>1, <2>2, HitReuses
  <2>4. ExactKey(t) \in DOMAIN RetainedFor
    BY <1>1, <2>1 DEF Usable, Present, RetainedFor, TypeOK, LineageTypeOK
  <2>. QED
    BY <2>3, <2>4 DEF Promise!Next
<1>5. CASE DonorHit(t)
  <2>1. /\ pc[t] # "idle" /\ Usable(DonorKey(t), task[t].now)
        /\ DonorKey(t).partition = Partition(t)
        /\ Inherit(t, DonorKey(t), TRUE) /\ UNCHANGED lineage
        /\ AtFragment(t) /\ ConstraintsSoFar(t) # {}
    BY <1>1, <1>5 DEF DonorHit, DonorKey, CacheKey
  <2>2. Effective(t).share_max \in Scopes
    BY <1>1, <2>1, PolicyTypes DEF Policies
  <2>3. Promise!Reuse(t, DonorKey(t))
    BY <2>1, <2>2, HitReuses
  <2>4. DonorKey(t) \in DOMAIN RetainedFor
    BY <1>1, <2>1 DEF Usable, Present, RetainedFor, TypeOK, LineageTypeOK
  <2>. QED
    BY <2>3, <2>4 DEF Promise!Next
<1>6. CASE Store(t) \/ Donate(t)
  <2>1. /\ pc[t] # "idle" /\ UNCHANGED influence
        /\ \E k, exact : PutState(t, k, exact)
    BY <1>6 DEF Store, Donate
  <2>. QED
    BY <2>1, PutRetains DEF Promise!Next
<1>7. CASE \/ PassUngoverned(t) \/ RejectMalformed(t) \/ RejectUnenforceable(t)
           \/ BypassUnenforceable(t) \/ LeaveUnobserved(t) \/ SkipLookup(t)
           \/ ExactMiss(t) \/ ExactStale(t) \/ DonorMiss(t) \/ DonorStale(t)
           \/ EvictMissing(t) \/ WithholdForbidden(t) \/ Decline(t) \/ Return(t)
  BY <1>2, <1>7 DEF PassUngoverned, RejectMalformed, RejectUnenforceable, BypassUnenforceable,
       LeaveUnobserved, SkipLookup, ExactMiss, ExactStale, DonorMiss, DonorStale, EvictMissing,
       WithholdForbidden, Decline, Return
<1>. QED
  BY <1>3, <1>4, <1>5, <1>6, <1>7 DEF Proceed

\* And so is every step of the gateway (gateway.py, cache.py).
LEMMA NextKeepsPromise == PromiseInv /\ [Next]_vars => PromiseInv' /\ [Promise!Next]_Promise!vars
<1>. SUFFICES ASSUME PromiseInv, [Next]_vars PROVE PromiseInv' /\ [Promise!Next]_Promise!vars
  OBVIOUS
<1>1. LifetimeInv' /\ BoundaryInv'
  BY NextKeepsDeadlines, NextKeepsBoundary DEF PromiseInv
<1>2. WithinBounds'
  BY NextKeepsBounds DEF PromiseInv, BoundaryInv
<1>3. ASSUME NEW t \in Threads, Arrive(t) PROVE [Promise!Next]_Promise!vars
  BY <1>2, <1>3, ArriveStarts DEF Promise!Next
<1>4. ASSUME UNCHANGED <<task, lineage, influence>> PROVE UNCHANGED Promise!vars
  BY <1>4 DEF Promise!vars, RetainedFor, ReaderBehind, ReaderOf, DrawnBy
<1>5. [Promise!Next]_Promise!vars
  BY <1>3, <1>4, ProceedKeepsPromise DEF Next, Tick, Terminating, vars
<1>. QED
  BY <1>1, <1>2, <1>5 DEF PromiseInv

\* The gateway implements RetainedState: under every interleaving, what is reused
\* is admitted by all that it answers to, and what is computed from it answers to
\* them too (gateway.py handle).
THEOREM ImplementsPromise == Spec => KeepsPromise
<1>1. Spec => Promise!Init /\ [][Promise!Next]_Promise!vars
  BY InitKeepsPromise, NextKeepsPromise, PTL DEF Spec
<1>. QED
  BY <1>1 DEF KeepsPromise, Promise!Spec

\* What the promise comes to: whoever draws on state is admitted by every contributor
\* it goes back to, however many calls it has passed through (gateway.py handle).
THEOREM DrawnOnAdmits == Spec => []Promise!DrawsOnAdmitting
<1>. DEFINE Whole == DOMAIN ReaderBehind = Threads /\ DOMAIN DrawnBy = Threads
<1>1. Promise!Init => Whole /\ Promise!DrawsOnAdmitting
  BY DEF Promise!Init, Promise!DrawsOnAdmitting
<1>2. Whole /\ Promise!DrawsOnAdmitting /\ [Promise!Next]_Promise!vars
         => (Whole /\ Promise!DrawsOnAdmitting)'
  <2>. SUFFICES ASSUME Whole, Promise!DrawsOnAdmitting, [Promise!Next]_Promise!vars
                PROVE  (Whole /\ Promise!DrawsOnAdmitting)'
    OBVIOUS
  <2>1. ASSUME NEW c \in Threads, Promise!Start(c) PROVE (Whole /\ Promise!DrawsOnAdmitting)'
    BY <2>1 DEF Promise!Start, Promise!DrawsOnAdmitting
  <2>2. ASSUME NEW c \in Threads, NEW k, Promise!Reuse(c, k)
        PROVE  (Whole /\ Promise!DrawsOnAdmitting)'
    BY <2>2 DEF Promise!Reuse, Promise!DrawsOnAdmitting
  <2>3. ASSUME UNCHANGED <<ReaderBehind, DrawnBy>> PROVE (Whole /\ Promise!DrawsOnAdmitting)'
    BY <2>3 DEF Promise!DrawsOnAdmitting
  <2>4. ASSUME Promise!Next PROVE (Whole /\ Promise!DrawsOnAdmitting)'
    BY <2>1, <2>2, <2>3, <2>4 DEF Promise!Next, Promise!Retain, Promise!Drop
  <2>. QED
    BY <2>3, <2>4 DEF Promise!vars
<1>. QED
  BY <1>1, <1>2, ImplementsPromise, PTL DEF KeepsPromise, Promise!Spec
=============================================================================
