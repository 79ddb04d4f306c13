------------------------- MODULE GatewayProperties -------------------------
(***************************************************************************)
(* What the gateway promises the contributors of retained state and the    *)
(* callers it reports to.                                                  *)
(***************************************************************************)
EXTENDS Gateway

-----------------------------------------------------------------------------
\* What policy a prefix is under

\* The constraints of the fragments up to place i, read off the request itself.
ContributorsUpTo(t, i) == {task[t].order[j].intent : j \in 1..i} \ {None}

\* The policy p allows nothing that c does not allow.
AtLeastAsStrict(p, c) ==
    /\ c.mode = "forbid" => p.mode = "forbid"
    /\ ShareRank(p.share_max) <= ShareRank(c.share_max)
    /\ ReuseRank(p.reuse) <= ReuseRank(c.reuse)
    /\ (p.mode = "allow" /\ c.max_age # None) => (p.max_age # None /\ p.max_age <= c.max_age)

WeakensNone(p, C) == \A c \in C : AtLeastAsStrict(p, c)

PoliciesWithAgesOf(C) == [mode : Modes, max_age : {c.max_age : c \in C} \cup {None},
                          reuse : ReuseLevels, share_max : Scopes]

\* The effective policy of a fragment is the most permissive one that weakens no
\* contributor of its prefix: at least as strict as each, and every other policy
\* that is so is at least as strict as it (gateway.py handle, compose.py compose).
GreatestLowerBound ==
    \A t \in Threads : ReachedPolicy(t) =>
        LET C == ContributorsUpTo(t, task[t].pos)
        IN  /\ WeakensNone(Effective(t), C)
            /\ \A p \in PoliciesWithAgesOf(C) :
                  WeakensNone(p, C) => AtLeastAsStrict(p, Effective(t))

\* The policy a status reports is never relaxed at a later fragment of the call,
\* and no later fragment is without one (gateway.py handle, FragmentStatus).
Tighter(s, r) ==
    /\ s.effective_reuse # None
    /\ r.effective_retention_mode = "forbid" => s.effective_retention_mode = "forbid"
    /\ ShareRank(s.effective_share) <= ShareRank(r.effective_share)
    /\ ReuseRank(s.effective_reuse) <= ReuseRank(r.effective_reuse)

NeverRelaxed ==
    \A t \in Threads : \A i, j \in DOMAIN task[t].statuses :
        (i < j /\ task[t].statuses[i].effective_reuse # None)
            => Tighter(task[t].statuses[j], task[t].statuses[i])

-----------------------------------------------------------------------------
\* Whose requests may see state

\* What places a request inside a sharing boundary or outside it.
Readers == [auth : {r.auth : r \in Requests}, request : 1..MaxRequests]

\* Under some effective share_max the reader looks up keys of k's partition.
Addresses(reader, k) ==
    \E share_max \in Scopes : PartitionFor(share_max, reader.auth, reader.request) = k.partition

AnswersTo(k) == lineage[k].own \cup lineage[k].inherited

\* No request can address retained state from outside the boundary of any
\* contributor it depends on, those of the requests whose state was reused to
\* compute it included (gateway.py handle, auth.py partition_for).
BoundaryHolds ==
    \A k \in DOMAIN entries, reader \in Readers :
        Addresses(reader, k) => \A s \in AnswersTo(k) : InBoundary(s, reader)

\* A call that goes on to retain state will not carry what it reused out of its
\* boundary: every caller who can share state with it under the policy the call
\* has by now, or any narrower one, is inside the boundary of each contributor it
\* drew on (gateway.py handle: the effective policy only narrows on the way).
GovernedSoFar(t) == IF pc[t] = "walk" THEN task[t].constraints ELSE ConstraintsSoFar(t)

SharesUnder(share_max, t, reader) ==
    PartitionFor(share_max, reader.auth, reader.request)
        = PartitionFor(share_max, task[t].request.auth, task[t].id)

CarriesWithinBoundary(t) ==
    /\ \A s \in influence[t].sources :
          /\ GovernedSoFar(t) # {}
          /\ \A share_max \in Scopes \ {"request"}, reader \in Readers :
                /\ ShareRank(share_max) <= ShareRank(Compose(GovernedSoFar(t)).share_max)
                /\ SharesUnder(share_max, t, reader)
                => InBoundary(s, reader)
    /\ pc[t] = "donate" => Effective(t).share_max # "request"

CallsKeepBoundary == \A t \in Threads : pc[t] # "idle" => CarriesWithinBoundary(t)

\* No retained state depends on a contributor that forbids retention
\* (gateway.py _materialize, compose.py compose).
ForbiddenNeverRetained ==
    \A k \in DOMAIN entries : \A s \in AnswersTo(k) : s.constraints.mode = "allow"

\* State that approximate reuse influenced, in its own call or in one whose
\* state it was computed from, is never found by an exact lookup
\* (gateway.py handle, tainted_approximate; identity.py cache_key).
ApproximateKeptApart ==
    \A k \in DOMAIN entries : lineage[k].approximate => ~k.exact

\* The step in which the call of t reads state it will reuse.
Reuses(t, k) == (ExactHit(t) /\ k = ExactKey(t)) \/ (DonorHit(t) /\ k = DonorKey(t))

\* State is reused only while now < materialized_at + max_age holds for each
\* contributor of the call that materialized it, at the reading of the clock
\* of the call that reuses it (cache.py get, compose.py compose_max_age).
NoReusePastMaxAge ==
    [][\A t \in Threads, k \in DOMAIN entries :
          Reuses(t, k) => \A s \in lineage[k].own : WithinMaxAge(s, task[t].now)]_vars

\* State is reused only where the same namespaces were supplied as where it was
\* computed, by exact and by approximate lookups (identity.py cache_key).
SuppliedNamespaces(C) == {c.namespace : c \in C} \ {None}
ReuseWithinNamespaces ==
    [][\A t \in Threads, k \in DOMAIN entries :
          Reuses(t, k) => SuppliedNamespaces({s.constraints : s \in lineage[k].own})
                             = SuppliedNamespaces(ConstraintsSoFar(t))]_vars

\* An entry that answered a lookup keeps the deadline it had: storing what was
\* computed from it does not restart its max_age (gateway.py handle, "Re-storing
\* on a hit would reset materialized_at").
ReadNeverRestarts ==
    [][\A t \in Threads :
          (pc[t] = "donate" /\ task[t].outcome = "approximate_hit" /\ Present(DonorKey(t)))
              => entries'[DonorKey(t)] = entries[DonorKey(t)]]_vars

\* The cache, the calls and the partitions implement what RetainedState
\* promises: every reuse is admitted by all that the state answers to, and
\* state computed from it answers to them too (gateway.py handle).
ReaderOf(t) == IF task[t].request = None THEN None
               ELSE [auth |-> task[t].request.auth, request |-> task[t].id, now |-> task[t].now]

\* Python's None is no request and no record of one.
ASSUME NoRequestAssumption ==
    None \notin Requests \cup [auth : AuthContext, request : Nat, now : Nat]

RetainedFor == [k \in DOMAIN lineage |-> [own |-> lineage[k].own, inherited |-> lineage[k].inherited]]
ReaderBehind == [t \in Threads |-> ReaderOf(t)]
DrawnBy == [t \in Threads |-> influence[t].sources]

Promise == INSTANCE RetainedState WITH
               Callers  <- Threads,
               Readers  <- [auth : {r.auth : r \in Requests}, request : 1..MaxRequests,
                            now : 0..MaxTime],
               retained <- RetainedFor,
               reader   <- ReaderBehind,
               drawn    <- DrawnBy

KeepsPromise == Promise!Spec

-----------------------------------------------------------------------------
\* What other calls cannot do to a call, and to the cache

\* A call is wait-free: each of its steps brings it closer to its end, and no step of
\* another one takes it back, however often others replace or delete the entries it
\* reads (gateway.py handle and _resolve, cache.py get).
WaitFree ==
    [][\A t \in Threads : pc[t] # "idle" =>
          \/ pc'[t] = pc[t] /\ task'[t] = task[t]
          \/ StepsLeft(t)' \in 0..(StepsLeft(t) - 1)]_vars

\* Where one thread serves all, an entry leaves the cache only once its own deadline has
\* passed: looking up one key costs no other its state, and no reading of the clock
\* ends a lifetime early (cache.py get).
DeletedWhenDue ==
    [][\A k \in DOMAIN entries \ DOMAIN entries' : Expired(entries[k], clock)]_vars

-----------------------------------------------------------------------------
\* What callers are told

Ended(t) == pc[t] = "idle" /\ task[t].request # None

\* What a request must hold for its call to fail: an id used twice, an intent
\* that does not parse, or, where the gateway rejects, a prefix the backend
\* cannot enforce.
GivesCause(t) ==
    LET r == task[t].request
    IN  \/ RepeatsId(r)
        \/ \E i \in DOMAIN r.fragments : r.fragments[i].intent = Malformed
        \/ /\ OnUnenforceable = "reject"
           /\ \E i \in DOMAIN task[t].order :
                 LET C == {task[t].order[j].intent : j \in 1..i} \ {None}
                 IN  C # {} /\ ~Enforceable(Compose(C), Backend)

\* A call fails exactly when its own request gives cause, whatever other calls
\* do meanwhile (gateway.py handle, cache.py get).
FailsForCause ==
    \A t \in Threads : Ended(t) => (task[t].error # None <=> GivesCause(t))

\* Retained state is under a policy the backend enforces, all of its
\* contributors considered (gateway.py _check_enforceable, backends.py put).
StoredIsEnforceable ==
    \A k \in DOMAIN entries :
        /\ Enforceable(Compose({s.constraints : s \in lineage[k].own}), Backend)
        /\ entries[k].expires_at # None => SupportsMaxAge(Backend)

\* State a call that returned has left in the cache was reported to its caller as
\* retained, under the boundary and the namespaces it is kept under
\* (gateway.py _materialize and FragmentStatus).
StoredIsReported ==
    \A t \in Threads, k \in DOMAIN entries :
        (Ended(t) /\ task[t].error = None /\ \E s \in lineage[k].own : s.request = task[t].id)
            => \E i \in DOMAIN task[t].statuses :
                  LET s == task[t].statuses[i]
                  IN  /\ s.retention = "retained"
                      /\ s.outcome # "exact_hit"
                      /\ s.effective_share = k.partition.scope
                      /\ s.namespaces = k.namespaces

\* What a call that returned has reported as retained is in the cache, under the
\* boundary and the namespaces reported, and as exact state where it was reported
\* exact, as long as nothing expires (draft, retained: "The implementation retained
\* the state for possible later reuse"; gateway.py _materialize, which does not look
\* at what put answers).
KeptAs(t, i, k) ==
    LET s == task[t].statuses[i]
    IN  /\ k.contents = [j \in 1..i |-> task[t].order[j].content]
        /\ k.namespaces = s.namespaces
        /\ k.partition = PartitionFor(s.effective_share, task[t].request.auth, task[t].id)
        /\ s.exact => k.exact

RetainedIsKept ==
    \A t \in Threads : (Ended(t) /\ task[t].error = None) =>
        \A i \in DOMAIN task[t].statuses :
            task[t].statuses[i].retention = "retained" =>
                \E k \in DOMAIN entries : KeptAs(t, i, k)

\* A call that returned has handled each fragment of its request exactly once, and says
\* so: hoisting only moves fragments (gateway.py plan_order and handle).
EachFragmentOnce ==
    \A t \in Threads : (Ended(t) /\ task[t].error = None) =>
        LET fs == task[t].request.fragments
        IN  \E place \in Bijection(DOMAIN fs, DOMAIN task[t].statuses) :
               \A i \in DOMAIN fs : task[t].order[place[i]] = fs[i]

\* Hoisting under a declared equivalence costs no fragment any of its own sharing
\* boundary: after it, each is reported under the share_max it supplied
\* (gateway.py plan_order, compose.py intersect_share_max).
HoistingKeepsOwnShare ==
    \A t \in Threads :
        (Ended(t) /\ task[t].error = None /\ task[t].request.equivalence_declared) =>
            \A i \in DOMAIN task[t].order :
                LET f == task[t].order[i]
                IN  f.intent # None => task[t].statuses[i].effective_share = f.intent.share_max
=============================================================================
