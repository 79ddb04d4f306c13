--------------------------- MODULE BoundaryProofs ---------------------------
(***************************************************************************)
(* No request can address retained state from outside the boundary of a    *)
(* contributor to it: for every set of threads and requests, every         *)
(* backend, and any bounds on requests and time.                           *)
(*                                                                         *)
(* BoundaryHolds alone is not inductive.  A call reuses state under one    *)
(* policy and retains what it computed under a later one, so it has to be  *)
(* known that what it carries stays within bounds under the policies still *)
(* to come (CallsKeepBoundary), which holds because policies only narrow.  *)
(***************************************************************************)
EXTENDS GatewayProofs

BoundaryInv == TypeOK /\ BoundaryHolds /\ CallsKeepBoundary

\* Callers who share a partition under a scope share one under a wider scope
\* (auth.py partition_for).
LEMMA WiderPartitionsAgree ==
    ASSUME NEW a \in Scopes \ {"request"}, NEW b \in Scopes, ShareRank(a) <= ShareRank(b),
           NEW x, NEW y, NEW i, NEW j,
           PartitionFor(a, x, i) = PartitionFor(a, y, j)
    PROVE  PartitionFor(b, x, i) = PartitionFor(b, y, j)
<1>1. /\ b # "request"
      /\ b = "session" => x.session = y.session
      /\ b \in {"session", "principal"} => x.principal = y.principal
      /\ b \in {"session", "principal", "tenant"} => x.tenant = y.tenant
  BY PartitionsNest
<1>. QED
  BY <1>1 DEF PartitionFor, Scopes

\* The policy a call is under when it stands at a fragment is no wider than any
\* it has had before (compose.py compose, gateway.py handle).
LEMMA PolicyNarrows ==
    ASSUME TypeOK, NEW t \in Threads, AtFragment(t), GovernedSoFar(t) # {}
    PROVE  /\ ConstraintsSoFar(t) # {}
           /\ Effective(t).share_max \in Scopes
           /\ Compose(GovernedSoFar(t)).share_max \in Scopes
           /\ ShareRank(Effective(t).share_max) <= ShareRank(Compose(GovernedSoFar(t)).share_max)
<1>1. /\ ConstraintsSoFar(t) \subseteq Constraints
      /\ GovernedSoFar(t) \subseteq ConstraintsSoFar(t)
  BY PrefixTypes DEF GovernedSoFar, ConstraintsSoFar
<1>2. ConstraintsSoFar(t) # {} /\ GovernedSoFar(t) \subseteq Constraints
  BY <1>1
<1>3. Effective(t) \in Policies /\ Compose(GovernedSoFar(t)) \in Policies
  BY <1>1, <1>2, ComposeIsPolicy DEF Effective
<1>. QED
  BY <1>1, <1>2, <1>3, ComposeShrinks DEF Effective, Policies

\* A call that carries its reused state within bounds still does under the
\* policy of the fragment it stands at (gateway.py handle).
LEMMA CarriedUnderEffective ==
    ASSUME TypeOK, NEW t \in Threads, AtFragment(t), CarriesWithinBoundary(t),
           NEW s \in influence[t].sources, NEW a \in Scopes \ {"request"}, NEW reader \in Readers,
           ShareRank(a) <= ShareRank(Effective(t).share_max), SharesUnder(a, t, reader)
    PROVE  InBoundary(s, reader)
<1>1. GovernedSoFar(t) # {}
  BY DEF CarriesWithinBoundary
<1>2. ShareRank(a) <= ShareRank(Compose(GovernedSoFar(t)).share_max)
  <2>1. /\ Effective(t).share_max \in Scopes
        /\ Compose(GovernedSoFar(t)).share_max \in Scopes
        /\ ShareRank(Effective(t).share_max) <= ShareRank(Compose(GovernedSoFar(t)).share_max)
    BY <1>1, PolicyNarrows
  <2>2. \A b \in Scopes : ShareRank(b) \in Nat
    BY DEF Scopes, ShareRank
  <2>. QED
    BY <2>1, <2>2
<1>. QED
  BY <1>2 DEF CarriesWithinBoundary

\* State reused from the call's own partition is within bounds for all who share
\* state with the call under its policy or a narrower one (gateway.py _resolve).
LEMMA ReusedUnderEffective ==
    ASSUME TypeOK, BoundaryHolds, NEW t \in Threads, AtFragment(t), ConstraintsSoFar(t) # {},
           NEW k, Present(k), k.partition = Partition(t),
           NEW s \in AnswersTo(k), NEW a \in Scopes \ {"request"}, NEW reader \in Readers,
           ShareRank(a) <= ShareRank(Effective(t).share_max), SharesUnder(a, t, reader)
    PROVE  InBoundary(s, reader)
<1>. DEFINE e == Effective(t).share_max
<1>1. e \in Scopes
  BY PolicyTypes DEF Policies
<1>2. PartitionFor(e, reader.auth, reader.request) = k.partition
  <2>1. PartitionFor(a, reader.auth, reader.request)
          = PartitionFor(a, task[t].request.auth, task[t].id)
    BY DEF SharesUnder
  <2>2. PartitionFor(e, reader.auth, reader.request)
          = PartitionFor(e, task[t].request.auth, task[t].id)
    BY <1>1, <2>1, WiderPartitionsAgree
  <2>. QED
    BY <2>2 DEF Partition
<1>3. Addresses(reader, k)
  BY <1>1, <1>2 DEF Addresses
<1>. QED
  BY <1>3 DEF BoundaryHolds, Present

-----------------------------------------------------------------------------
\* What a call may carry on from the fragment it stands at

\* These contributors' boundaries include all who can share state with the call
\* under its policy or a narrower one.
WithinUnderEffective(t, sources) ==
    \A s \in sources :
        /\ ConstraintsSoFar(t) # {}
        /\ \A a \in Scopes \ {"request"}, reader \in Readers :
              ShareRank(a) <= ShareRank(Effective(t).share_max) /\ SharesUnder(a, t, reader)
                  => InBoundary(s, reader)

\* What the call has reused so far is such (gateway.py handle).
LEMMA CarriedIsWithin ==
    ASSUME TypeOK, NEW t \in Threads, AtFragment(t), CarriesWithinBoundary(t)
    PROVE  WithinUnderEffective(t, influence[t].sources)
<1>1. ASSUME NEW s \in influence[t].sources PROVE ConstraintsSoFar(t) # {}
  <2>1. GovernedSoFar(t) # {}
    BY <1>1 DEF CarriesWithinBoundary
  <2>. QED
    BY <2>1, PolicyNarrows
<1>. QED
  BY <1>1, CarriedUnderEffective DEF WithinUnderEffective

\* So is what it reuses now (gateway.py _resolve).
LEMMA InheritedIsWithin ==
    ASSUME TypeOK, BoundaryHolds, NEW t \in Threads, AtFragment(t), ConstraintsSoFar(t) # {},
           CarriesWithinBoundary(t), NEW k, Present(k), k.partition = Partition(t),
           NEW approximate, Inherit(t, k, approximate)
    PROVE  WithinUnderEffective(t, influence'[t].sources)
<1>1. influence'[t].sources = influence[t].sources \cup AnswersTo(k)
  BY Zenon DEF Inherit, AnswersTo, TypeOK, InfluenceTypeOK
<1>2. WithinUnderEffective(t, AnswersTo(k))
  BY ReusedUnderEffective DEF WithinUnderEffective
<1>3. WithinUnderEffective(t, influence[t].sources)
  BY CarriedIsWithin
<1>. QED
  BY <1>1, <1>2, <1>3 DEF WithinUnderEffective

\* A thread that takes no step carries what it carried.
LEMMA OthersCarry ==
    ASSUME NEW u \in Threads, CarriesWithinBoundary(u), task'[u] = task[u], pc'[u] = pc[u],
           influence'[u] = influence[u]
    PROVE  CarriesWithinBoundary(u)'
BY DEF CarriesWithinBoundary, GovernedSoFar, SharesUnder, Effective, ConstraintsSoFar, Fragment

\* Moving on to the next fragment (gateway.py handle).
LEMMA ReportCarries ==
    ASSUME TypeOK, NEW t \in Threads, AtFragment(t), NEW status, Report(t, status),
           WithinUnderEffective(t, influence'[t].sources)
    PROVE  CarriesWithinBoundary(t)'
<1>1. task \in [Threads -> Calls] /\ pc \in [Threads -> Places]
  BY DEF TypeOK, CallsTypeOK
<1>2. /\ task'[t].constraints = ConstraintsSoFar(t)
      /\ task'[t].request = task[t].request /\ task'[t].id = task[t].id
      /\ pc'[t] = "walk"
  BY <1>1 DEF Report, Calls
<1>3. GovernedSoFar(t)' = ConstraintsSoFar(t)
  BY <1>2 DEF GovernedSoFar
<1>4. \A a, reader : SharesUnder(a, t, reader)' <=> SharesUnder(a, t, reader)
  BY <1>2 DEF SharesUnder
<1>. QED
  BY <1>2, <1>3, <1>4 DEF CarriesWithinBoundary, WithinUnderEffective, Effective

\* Going on with the same fragment (gateway.py handle).
LEMMA ContinueCarries ==
    ASSUME TypeOK, NEW t \in Threads, AtFragment(t), NEW outcome, NEW tainted,
           NEW place \in Places \ {"idle", "walk"}, Continue(t, place, outcome, tainted),
           WithinUnderEffective(t, influence'[t].sources),
           place = "donate" => Effective(t).share_max # "request"
    PROVE  CarriesWithinBoundary(t)'
<1>1. task \in [Threads -> Calls] /\ pc \in [Threads -> Places]
  BY DEF TypeOK, CallsTypeOK
<1>2. /\ task'[t].constraints = task[t].constraints
      /\ task'[t].order = task[t].order /\ task'[t].pos = task[t].pos
      /\ task'[t].request = task[t].request /\ task'[t].id = task[t].id
      /\ pc'[t] = place
  BY <1>1 DEF Continue, Calls
<1>3. ConstraintsSoFar(t)' = ConstraintsSoFar(t)
  BY <1>2 DEF ConstraintsSoFar, Fragment
<1>4. GovernedSoFar(t)' = ConstraintsSoFar(t) /\ Effective(t)' = Effective(t)
  BY <1>2, <1>3 DEF GovernedSoFar, Effective
<1>5. \A a, reader : SharesUnder(a, t, reader)' <=> SharesUnder(a, t, reader)
  BY <1>2 DEF SharesUnder
<1>. QED
  BY <1>2, <1>4, <1>5 DEF CarriesWithinBoundary, WithinUnderEffective, Effective

-----------------------------------------------------------------------------
\* What the cache holds after an access

\* Deleting an entry widens nothing (cache.py get).
LEMMA EvictKeepsBoundary ==
    ASSUME TypeOK, BoundaryHolds, NEW k, Evict(k)
    PROVE  BoundaryHolds'
<1>1. \A j \in DOMAIN entries' : j \in DOMAIN entries /\ lineage'[j] = lineage[j]
  BY DEF Evict, Delete, TypeOK, LineageTypeOK
<1>. QED
  BY <1>1 DEF BoundaryHolds, AnswersTo

\* Retained state is within the boundary of all it answers to (gateway.py
\* _materialize, cache.py put).
LEMMA PutKeepsBoundary ==
    ASSUME TypeOK, BoundaryHolds, NEW t \in Threads, AtFragment(t), ConstraintsSoFar(t) # {},
           CarriesWithinBoundary(t), Effective(t).share_max # "request",
           NEW k, k.partition = Partition(t), NEW exact, PutState(t, k, exact)
    PROVE  BoundaryHolds'
<1>. DEFINE e == Effective(t).share_max
<1>1. CASE ~KeepsEntries(Backend)
  BY <1>1 DEF PutState, BoundaryHolds, AnswersTo
<1>2. CASE KeepsEntries(Backend)
  <2>1. /\ DOMAIN entries' = DOMAIN entries \cup {k}
        /\ \A j \in DOMAIN entries' : j # k => j \in DOMAIN entries /\ lineage'[j] = lineage[j]
        /\ AnswersTo(k)' = OwnSources(t) \cup influence[t].sources
    BY <1>2 DEF PutState, Put, AnswersTo, TypeOK, LineageTypeOK
  <2>2. ASSUME NEW reader \in Readers, Addresses(reader, k), NEW s \in AnswersTo(k)'
        PROVE  InBoundary(s, reader)
    <3>1. e \in Scopes \ {"request"}
      BY PolicyTypes DEF Policies
    <3>2. PICK a \in Scopes : PartitionFor(a, reader.auth, reader.request) = Partition(t)
      BY <2>2 DEF Addresses
    <3>3. PartitionFor(e, reader.auth, reader.request)
            = PartitionFor(e, task[t].request.auth, task[t].id)
      BY <3>2, PartitionScope DEF Partition
    <3>4. CASE s \in OwnSources(t)
      <4>1. /\ s \in Sources /\ s.constraints \in ConstraintsSoFar(t)
            /\ s.auth = task[t].request.auth
        BY <3>4, PolicyTypes DEF OwnSources
      <4>2. ShareRank(e) <= ShareRank(s.constraints.share_max)
        BY <4>1, PrefixTypes, ComposeNarrows DEF Effective
      <4>. QED
        BY <3>1, <3>3, <4>1, <4>2, SamePartitionInBoundary
    <3>5. CASE s \in influence[t].sources
      <4>1. SharesUnder(e, t, reader)
        BY <3>3 DEF SharesUnder
      <4>2. ShareRank(e) <= ShareRank(e)
        BY <3>1 DEF ShareRank, Scopes
      <4>. QED
        BY <3>1, <3>5, <4>1, <4>2, CarriedUnderEffective
    <3>. QED
      BY <2>1, <2>2, <3>4, <3>5
  <2>. QED
    BY <2>1, <2>2 DEF BoundaryHolds, Addresses, AnswersTo
<1>. QED
  BY <1>1, <1>2

-----------------------------------------------------------------------------
\* The steps of a call

\* So a step keeps what the other calls carry (gateway.py handle).
LEMMA StepCarries ==
    ASSUME CallsKeepBoundary, NEW t \in Threads, OnlyMoves(t),
           pc'[t] # "idle" => CarriesWithinBoundary(t)'
    PROVE  CallsKeepBoundary'
<1>1. ASSUME NEW u \in Threads, u # t, pc'[u] # "idle" PROVE CarriesWithinBoundary(u)'
  <2>1. task'[u] = task[u] /\ pc'[u] = pc[u] /\ influence'[u] = influence[u]
    BY <1>1 DEF OnlyMoves
  <2>. QED
    BY <1>1, <2>1, OthersCarry DEF CallsKeepBoundary
<1>. QED
  BY <1>1 DEF CallsKeepBoundary

\* A call that begins carries nothing (gateway.py handle).
LEMMA ArriveKeepsBoundary ==
    ASSUME BoundaryInv, NEW t \in Threads, Arrive(t)
    PROVE  BoundaryHolds' /\ CallsKeepBoundary'
<1>1. PICK r \in Requests : Begin(t, r) \/ RefuseUnsortable(t, r) \/ RefuseRepeatedId(t, r)
  BY DEF Arrive
<1>2. Accept(t, r) /\ pc'[t] \in {"idle", "walk"}
  BY <1>1 DEF Begin, RefuseUnsortable, RefuseRepeatedId, Accept, BoundaryInv, TypeOK, CallsTypeOK
<1>3. BoundaryHolds'
  BY <1>2 DEF BoundaryInv, BoundaryHolds, AnswersTo, Accept
<1>4. influence'[t].sources = {}
  BY <1>2 DEF BoundaryInv, TypeOK, InfluenceTypeOK, Accept, NoInfluence
<1>5. CarriesWithinBoundary(t)'
  BY <1>2, <1>4 DEF CarriesWithinBoundary
<1>. QED
  BY <1>3, <1>5, StepsAreLocal, StepCarries DEF BoundaryInv

\* Every step of a call keeps the boundary (gateway.py handle, _resolve and
\* _materialize).
LEMMA ProceedKeepsBoundary ==
    ASSUME BoundaryInv, NEW t \in Threads, Proceed(t)
    PROVE  BoundaryHolds' /\ CallsKeepBoundary'
<1>. USE Located
<1>1. TypeOK /\ BoundaryHolds /\ CallsKeepBoundary /\ OnlyMoves(t)
  BY StepsAreLocal DEF BoundaryInv
<1>2. SUFFICES BoundaryHolds' /\ (pc'[t] # "idle" => CarriesWithinBoundary(t)')
  BY <1>1, StepCarries
<1>3. pc[t] # "idle" => CarriesWithinBoundary(t)
  BY <1>1 DEF CallsKeepBoundary
<1>4. ASSUME UNCHANGED <<entries, lineage>> PROVE BoundaryHolds'
  BY <1>1, <1>4 DEF BoundaryHolds, AnswersTo
<1>5. ASSUME AtFragment(t), UNCHANGED influence
      PROVE  WithinUnderEffective(t, influence'[t].sources)
  BY <1>1, <1>3, <1>5, CarriedIsWithin DEF AtFragment
<1>6. CASE PassUngoverned(t) \/ BypassUnenforceable(t) \/ LeaveUnobserved(t)
  <2>1. AtFragment(t) /\ UNCHANGED <<entries, lineage, influence>>
    BY <1>1, <1>6 DEF PassUngoverned, BypassUnenforceable, LeaveUnobserved, Admitted
  <2>2. \E status : Report(t, status)
    BY <1>6 DEF PassUngoverned, BypassUnenforceable, LeaveUnobserved
  <2>. QED
    BY <1>1, <1>4, <1>5, <2>1, <2>2, ReportCarries
<1>7. CASE RejectMalformed(t) \/ RejectUnenforceable(t) \/ EvictMissing(t)
  <2>1. pc'[t] = "idle" /\ UNCHANGED <<entries, lineage>>
    BY <1>1, <1>7 DEF RejectMalformed, RejectUnenforceable, EvictMissing, Raise, TypeOK, CallsTypeOK
  <2>. QED
    BY <1>4, <2>1
<1>8. CASE SkipLookup(t) \/ ExactMiss(t) \/ ExactStale(t) \/ DonorMiss(t) \/ DonorStale(t)
  <2>1. AtFragment(t) /\ UNCHANGED <<entries, lineage, influence>>
    BY <1>1, <1>8 DEF SkipLookup, ExactMiss, ExactStale, DonorMiss, DonorStale, LooksUp, Admitted
  <2>2. \E place \in {"evict", "donor", "evict_donor", "store"} :
           \E outcome, tainted : Continue(t, place, outcome, tainted)
    BY <1>8 DEF SkipLookup, ExactMiss, ExactStale, DonorMiss, DonorStale, AfterExactMiss
  <2>. QED
    BY <1>1, <1>4, <1>5, <2>1, <2>2, ContinueCarries DEF Places
<1>9. CASE EvictExact(t) \/ EvictDonor(t)
  <2>1. AtFragment(t) /\ UNCHANGED influence /\ \E k : Evict(k)
    BY <1>1, <1>9 DEF EvictExact, EvictDonor
  <2>2. \E place \in {"evict", "donor", "evict_donor", "store"} :
           \E outcome, tainted : Continue(t, place, outcome, tainted)
    BY <1>9 DEF EvictExact, EvictDonor, AfterExactMiss
  <2>. QED
    BY <1>1, <1>5, <2>1, <2>2, EvictKeepsBoundary, ContinueCarries DEF Places
<1>10. CASE ExactHit(t)
  <2>1. AtFragment(t) /\ ConstraintsSoFar(t) # {} /\ UNCHANGED <<entries, lineage>>
    BY <1>1, <1>10 DEF ExactHit, LooksUp, Admitted
  <2>2. /\ Present(ExactKey(t)) /\ ExactKey(t).partition = Partition(t)
        /\ Inherit(t, ExactKey(t), FALSE)
    BY <1>10 DEF ExactHit, Usable, ExactKey, PrefixKey, CacheKey
  <2>3. WithinUnderEffective(t, influence'[t].sources)
    BY <1>1, <1>3, <2>1, <2>2, InheritedIsWithin DEF AtFragment
  <2>. QED
    BY <1>1, <1>4, <1>10, <2>1, <2>3, ReportCarries DEF ExactHit
<1>11. CASE DonorHit(t)
  <2>1. AtFragment(t) /\ ConstraintsSoFar(t) # {} /\ UNCHANGED <<entries, lineage>>
    BY <1>1, <1>11 DEF DonorHit
  <2>2. /\ Present(DonorKey(t)) /\ DonorKey(t).partition = Partition(t)
        /\ Inherit(t, DonorKey(t), TRUE)
    BY <1>11 DEF DonorHit, Usable, DonorKey, CacheKey
  <2>3. WithinUnderEffective(t, influence'[t].sources)
    BY <1>1, <1>3, <2>1, <2>2, InheritedIsWithin DEF AtFragment
  <2>. QED
    BY <1>1, <1>4, <1>11, <2>1, <2>3, ContinueCarries DEF DonorHit, Places
<1>12. CASE WithholdForbidden(t) \/ Decline(t)
  <2>1. AtFragment(t) /\ UNCHANGED <<entries, lineage, influence>>
    BY <1>1, <1>12 DEF WithholdForbidden, Decline
  <2>2. \E status : Report(t, status)
    BY <1>12 DEF WithholdForbidden, Decline, ReportComputed
  <2>. QED
    BY <1>1, <1>4, <1>5, <2>1, <2>2, ReportCarries
<1>13. CASE Store(t)
  <2>1. /\ AtFragment(t) /\ ConstraintsSoFar(t) # {} /\ UNCHANGED influence
        /\ Effective(t).share_max # "request"
    BY <1>1, <1>13 DEF Store
  <2>2. BoundaryHolds'
    <3>. DEFINE k == PrefixKey(t, ~task[t].tainted)
    <3>1. PutState(t, k, ~task[t].tainted) /\ k.partition = Partition(t)
      BY <1>13 DEF Store, PrefixKey, CacheKey
    <3>. QED
      BY <1>1, <1>3, <2>1, <3>1, PutKeepsBoundary DEF AtFragment
  <2>3. (\E status : Report(t, status)) \/ Continue(t, "donate", task[t].outcome, task[t].tainted)
    BY <1>13 DEF Store, ReportComputed
  <2>. QED
    BY <1>1, <1>5, <2>1, <2>2, <2>3, ReportCarries, ContinueCarries DEF Places
<1>14. CASE Donate(t)
  <2>1. AtFragment(t) /\ ConstraintsSoFar(t) # {} /\ UNCHANGED influence
    BY <1>1, <1>14 DEF Donate
  <2>2. Effective(t).share_max # "request"
    BY <1>3, <1>14 DEF Donate, CarriesWithinBoundary
  <2>3. DonorKey(t).partition = Partition(t)
    BY DEF DonorKey, CacheKey
  <2>4. BoundaryHolds'
    BY <1>1, <1>3, <1>14, <2>1, <2>2, <2>3, PutKeepsBoundary DEF Donate, AtFragment
  <2>5. \E status : Report(t, status)
    BY <1>14 DEF Donate, ReportComputed
  <2>. QED
    BY <1>1, <1>5, <2>1, <2>4, <2>5, ReportCarries
<1>15. CASE Return(t)
  <2>1. pc'[t] = "idle" /\ UNCHANGED <<entries, lineage>>
    BY <1>1, <1>15 DEF Return, TypeOK, CallsTypeOK
  <2>. QED
    BY <1>4, <2>1
<1>. QED
  BY <1>6, <1>7, <1>8, <1>9, <1>10, <1>11, <1>12, <1>13, <1>14, <1>15 DEF Proceed

\* The boundary holds at the start, when nothing is retained.
LEMMA InitKeepsBoundary == Init => BoundaryInv
<1>1. Init => TypeOK
  BY InitTyped
<1>2. Init => BoundaryHolds /\ CallsKeepBoundary
  BY DEF Init, EntriesInit, BoundaryHolds, CallsKeepBoundary
<1>. QED
  BY <1>1, <1>2 DEF BoundaryInv

\* And no step ends it (gateway.py, cache.py).
LEMMA NextKeepsBoundary == BoundaryInv /\ [Next]_vars => BoundaryInv'
<1>. SUFFICES ASSUME BoundaryInv, [Next]_vars PROVE BoundaryInv'
  OBVIOUS
<1>1. TypeOK'
  BY NextTyped DEF BoundaryInv
<1>2. ASSUME NEW t \in Threads, Arrive(t) \/ Proceed(t)
      PROVE  BoundaryHolds' /\ CallsKeepBoundary'
  BY <1>2, ArriveKeepsBoundary, ProceedKeepsBoundary
<1>3. ASSUME UNCHANGED <<entries, pc, task, lineage, influence>>
      PROVE  BoundaryHolds' /\ CallsKeepBoundary'
  <2>1. BoundaryHolds'
    BY <1>3 DEF BoundaryInv, BoundaryHolds, AnswersTo
  <2>2. CallsKeepBoundary'
    BY <1>3, OthersCarry DEF BoundaryInv, CallsKeepBoundary
  <2>. QED
    BY <2>1, <2>2
<1>4. BoundaryHolds' /\ CallsKeepBoundary'
  BY <1>2, <1>3 DEF Next, Tick, Terminating, vars
<1>. QED
  BY <1>1, <1>4 DEF BoundaryInv

\* No request can address retained state from outside the boundary of any
\* contributor it depends on (gateway.py handle, auth.py partition_for).
THEOREM BoundaryAlwaysHolds == Spec => []BoundaryHolds
<1>1. Spec => []BoundaryInv
  BY InitKeepsBoundary, NextKeepsBoundary, PTL DEF Spec
<1>2. BoundaryInv => BoundaryHolds
  BY DEF BoundaryInv
<1>. QED
  BY <1>1, <1>2, PTL

\* What a call carries stays within bounds under every policy still to come
\* (gateway.py handle).
THEOREM CallsAlwaysKeepBoundary == Spec => []CallsKeepBoundary
<1>1. Spec => []BoundaryInv
  BY InitKeepsBoundary, NextKeepsBoundary, PTL DEF Spec
<1>2. BoundaryInv => CallsKeepBoundary
  BY DEF BoundaryInv
<1>. QED
  BY <1>1, <1>2, PTL
=============================================================================
