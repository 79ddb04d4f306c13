------------------------------ MODULE Gateway ------------------------------
(***************************************************************************)
(* Gateway.handle (gateway.py), run by several handler threads at once     *)
(* over one backend.  A request is a sequence of fragments; the walk over  *)
(* them composes the constraints met so far, looks the prefix up under the *)
(* effective policy, and materializes what it had to compute.              *)
(*                                                                         *)
(* A step of a thread is one access to the shared cache together with the  *)
(* local computation before it.  Two variables are history: lineage and    *)
(* influence record whose constraints a piece of state answers to, which   *)
(* the program does not keep and the properties are about.                 *)
(***************************************************************************)
EXTENDS InMemoryCache

CONSTANTS Threads,          \* handler threads that share the gateway
          Requests,         \* the requests callers may send
          Backend,          \* name of the backend of this gateway
          OnUnenforceable,  \* "bypass" or "reject"
          Malformed,        \* an intent text parse_cache_intent raises on
          MaxRequests,      \* bound: requests accepted in a behaviour
          MaxTime           \* bound: last reading of the clock

Fragments == [id : STRING \cup {None}, content : STRING,
              intent : Constraints \cup {None, Malformed},
              approx_class : STRING \cup {None}]

ASSUME RequestsAssumption ==
    Requests \subseteq [auth : AuthContext, fragments : Seq(Fragments),
                        equivalence_declared : BOOLEAN]
ASSUME BackendAssumption == Backend \in Backends
ASSUME OnUnenforceableAssumption == OnUnenforceable \in {"bypass", "reject"}
ASSUME MalformedAssumption == Malformed # None /\ {None, Malformed} \cap Constraints = {}
ASSUME BoundsAssumption == MaxRequests \in Nat /\ MaxTime \in Nat

VARIABLES clock,      \* the monotonic clock prepare reads
          served,     \* requests accepted so far; the last one's request id
          pc,         \* where each thread is in handle
          task,       \* locals of the call of handle each thread runs or ran last
          lineage,    \* history: for each entry, whose constraints it answers to
          influence   \* history: what each call has reused so far

vars == <<entries, clock, served, pc, task, lineage, influence>>

-----------------------------------------------------------------------------
\* Planning the order (plan_order)

\* Mutant: the narrowest first.
HoistRankNarrow(f) == IF f.intent = None THEN 5 ELSE ShareRank(f.intent.share_max)

\* The place of a fragment when hoisting shared ones: its own share_max, the
\* widest first, and fragments without intent last.
HoistRank(f) == IF f.intent = None THEN 5 ELSE 4 - ShareRank(f.intent.share_max)

\* Mutant: ties are not broken, and one fragment stands in for another of its rank.
SortsLoosely(p, fs) ==
    \A i, j \in DOMAIN fs : i < j => HoistRank(fs[p[i]]) <= HoistRank(fs[p[j]])

\* The stable sort by HoistRank, as the index each place takes its fragment from.
StablySorts(p, fs) ==
    \A i, j \in DOMAIN fs : i < j =>
        \/ HoistRank(fs[p[i]]) < HoistRank(fs[p[j]])
        \/ HoistRank(fs[p[i]]) = HoistRank(fs[p[j]]) /\ p[i] < p[j]

\* plan_order has one result; it is the only member.
PlannedOrders(r) ==
    IF ~r.equivalence_declared THEN {r.fragments}
    ELSE {[i \in DOMAIN r.fragments |-> r.fragments[p[i]]] :
            p \in {q \in [DOMAIN r.fragments -> DOMAIN r.fragments] : StablySorts(q, r.fragments)}}

\* Sorting parses every intent, so it raises before the walk begins.
SortRaises(r) == r.equivalence_declared /\ \E i \in DOMAIN r.fragments : r.fragments[i].intent = Malformed

RepeatsId(r) == \E i, j \in DOMAIN r.fragments :
                   i # j /\ r.fragments[i].id # None /\ r.fragments[i].id = r.fragments[j].id

-----------------------------------------------------------------------------
\* The walk of a thread, at the fragment it has reached

Fragment(t) == task[t].order[task[t].pos]

\* Mutant: a fragment that supplies constraints starts afresh.
ConstraintsHere(t) ==
    IF Fragment(t).intent = None THEN task[t].constraints ELSE {Fragment(t).intent}

ConstraintsSoFar(t) == task[t].constraints \cup ({Fragment(t).intent} \ {None})
ContentsSoFar(t) == Append(task[t].contents, Fragment(t).content)

\* Mutant: only the last namespace counts.
NamespaceHere(t) ==
    IF Fragment(t).intent = None \/ Fragment(t).intent.namespace = None THEN task[t].namespaces
    ELSE <<Fragment(t).intent.namespace>>

NamespacesSoFar(t) ==
    IF Fragment(t).intent = None \/ Fragment(t).intent.namespace = None THEN task[t].namespaces
    ELSE Append(task[t].namespaces, Fragment(t).intent.namespace)

Effective(t) == Compose(ConstraintsSoFar(t))

\* Mutant: the partition of the fragment's own share_max.
OwnPartition(t) ==
    PartitionFor(IF Fragment(t).intent = None THEN Effective(t).share_max
                 ELSE Fragment(t).intent.share_max, task[t].request.auth, task[t].id)

Partition(t) == PartitionFor(Effective(t).share_max, task[t].request.auth, task[t].id)

PrefixKey(t, exact) == CacheKey(ContentsSoFar(t), NamespacesSoFar(t), Partition(t), exact)
ExactKey(t) == PrefixKey(t, TRUE)
DonorKey(t) == CacheKey(<<Fragment(t).approx_class>>, NamespacesSoFar(t), Partition(t), FALSE)

LooksForDonor(t) == Effective(t).reuse = "approximate" /\ Fragment(t).approx_class # None

RetentionIf(t, otherwise) == IF Effective(t).mode = "forbid" THEN "forbidden" ELSE otherwise

\* Mutant: the boundary the fragment asked for instead of the one used.
GovernedAsAsked(t, outcome, retention, exact) ==
    [outcome |-> outcome,
     effective_share |-> IF Fragment(t).intent = None THEN Effective(t).share_max
                         ELSE Fragment(t).intent.share_max,
     retention |-> retention,
     exact |-> exact, effective_reuse |-> Effective(t).reuse,
     effective_retention_mode |-> Effective(t).mode, namespaces |-> NamespacesSoFar(t)]

\* The status of a governed fragment.
Governed(t, outcome, retention, exact) ==
    [outcome |-> outcome, effective_share |-> Effective(t).share_max, retention |-> retention,
     exact |-> exact, effective_reuse |-> Effective(t).reuse,
     effective_retention_mode |-> Effective(t).mode, namespaces |-> NamespacesSoFar(t)]

\* The status of a fragment that inherits nothing.
Ungoverned == [outcome |-> "bypass", effective_share |-> "request", retention |-> "declined",
               exact |-> TRUE, effective_reuse |-> None, effective_retention_mode |-> None,
               namespaces |-> <<>>]

\* Append the status and go on with the next fragment.
Report(t, status) ==
    /\ task' = [task EXCEPT ![t].statuses = Append(@, status),
                            ![t].pos = @ + 1,
                            ![t].constraints = ConstraintsSoFar(t),
                            ![t].contents = ContentsSoFar(t),
                            ![t].namespaces = NamespacesSoFar(t)]
    /\ pc' = [pc EXCEPT ![t] = "walk"]

\* handle raises: the call ends and no status is returned.
Raise(t, error) ==
    /\ task' = [task EXCEPT ![t].error = error]
    /\ pc' = [pc EXCEPT ![t] = "idle"]

\* handle goes on at place, with what _resolve has found so far.
Continue(t, place, outcome, tainted) ==
    /\ task' = [task EXCEPT ![t].outcome = outcome, ![t].tainted = tainted]
    /\ pc' = [pc EXCEPT ![t] = place]

-----------------------------------------------------------------------------
\* History

NoInfluence == [sources |-> {}, approximate |-> FALSE]

OwnSources(t) == [constraints : ConstraintsSoFar(t), auth : {task[t].request.auth},
                  request : {task[t].id}, at : {task[t].now}]

\* State computed from reused state answers to everything that state did.
Inherit(t, k, approximate) ==
    influence' = [influence EXCEPT ![t] =
        [sources |-> @.sources \cup lineage[k].own \cup lineage[k].inherited,
         approximate |-> @.approximate \/ approximate \/ lineage[k].approximate]]

-----------------------------------------------------------------------------
\* Calls of the backend

Evict(k) == /\ Delete(k)
            /\ lineage' = [j \in DOMAIN lineage \ {k} |-> lineage[j]]

PutState(t, k, exact) ==
    IF KeepsEntries(Backend)
    THEN /\ Put(k, task[t].now, Effective(t).max_age, exact)
         /\ lineage' = [j \in DOMAIN lineage \cup {k} |->
                          IF j = k THEN [own |-> OwnSources(t),
                                         inherited |-> influence[t].sources,
                                         approximate |-> influence[t].approximate]
                          ELSE lineage[j]]
    ELSE UNCHANGED <<entries, lineage>>

-----------------------------------------------------------------------------
\* A call begins

\* The call made for request r, once the fragments are in order.
Call(r, order, error) ==
    [request |-> r, id |-> served + 1, now |-> clock, order |-> order, pos |-> 1,
     constraints |-> {}, contents |-> <<>>, namespaces |-> <<>>, outcome |-> None,
     tainted |-> FALSE, statuses |-> <<>>, error |-> error]

Accept(t, r) == /\ pc[t] = "idle"
                /\ served < MaxRequests
                /\ served' = served + 1
                /\ influence' = [influence EXCEPT ![t] = NoInfluence]
                /\ UNCHANGED <<entries, clock, lineage>>

\* Mutant: ids are not compared.
BeginUnchecked(t, r) ==
    /\ Accept(t, r)
    /\ ~SortRaises(r)
    /\ \E order \in PlannedOrders(r) : task' = [task EXCEPT ![t] = Call(r, order, None)]
    /\ pc' = [pc EXCEPT ![t] = "walk"]

\* The order is planned and the ids are distinct.
Begin(t, r) == /\ Accept(t, r)
               /\ ~SortRaises(r)
               /\ ~RepeatsId(r)
               /\ \E order \in PlannedOrders(r) : task' = [task EXCEPT ![t] = Call(r, order, None)]
               /\ pc' = [pc EXCEPT ![t] = "walk"]

RefuseUnsortable(t, r) == /\ Accept(t, r)
                          /\ SortRaises(r)
                          /\ task' = [task EXCEPT ![t] = Call(r, <<>>, "Invalid")]
                          /\ UNCHANGED pc

RefuseRepeatedId(t, r) == /\ Accept(t, r)
                          /\ ~SortRaises(r)
                          /\ RepeatsId(r)
                          /\ task' = [task EXCEPT ![t] = Call(r, <<>>, "DuplicateFragmentId")]
                          /\ UNCHANGED pc

-----------------------------------------------------------------------------
\* One fragment of the walk, up to the first access to the cache

Reached(t) == pc[t] = "walk" /\ task[t].pos <= Len(task[t].order)

\* The fragment has an effective policy to be handled under.
ReachedPolicy(t) == /\ Reached(t)
                    /\ Fragment(t).intent # Malformed
                    /\ ConstraintsSoFar(t) # {}

\* Mutant: nothing keeps an unenforceable fragment from being handled.
AdmittedUnchecked(t) == ReachedPolicy(t)

Admitted(t) == ReachedPolicy(t) /\ Enforceable(Effective(t), Backend)

\* No intent here nor before: no policy under which state could be reused.
PassUngoverned(t) == /\ Reached(t)
                     /\ ConstraintsSoFar(t) = {}
                     /\ Report(t, Ungoverned)
                     /\ UNCHANGED <<entries, clock, served, lineage, influence>>

RejectMalformed(t) == /\ Reached(t)
                      /\ Fragment(t).intent = Malformed
                      /\ Raise(t, "Invalid")
                      /\ UNCHANGED <<entries, clock, served, lineage, influence>>

RejectUnenforceable(t) == /\ ReachedPolicy(t)
                          /\ ~Enforceable(Effective(t), Backend)
                          /\ OnUnenforceable = "reject"
                          /\ Raise(t, "UnenforceableConstraint")
                          /\ UNCHANGED <<entries, clock, served, lineage, influence>>

\* Mutant: bypass also where the gateway is to reject.
BypassAlways(t) == /\ ReachedPolicy(t)
                   /\ ~Enforceable(Effective(t), Backend)
                   /\ Report(t, Governed(t, "bypass", RetentionIf(t, "declined"), TRUE))
                   /\ UNCHANGED <<entries, clock, served, lineage, influence>>

BypassUnenforceable(t) == /\ ReachedPolicy(t)
                          /\ ~Enforceable(Effective(t), Backend)
                          /\ OnUnenforceable = "bypass"
                          /\ Report(t, Governed(t, "bypass", RetentionIf(t, "declined"), TRUE))
                          /\ UNCHANGED <<entries, clock, served, lineage, influence>>

\* The backend cannot tell a hit from a miss; nothing is looked up or stored.
LeaveUnobserved(t) ==
    /\ Admitted(t)
    /\ ~ObservesOutcomes(Backend)
    /\ Report(t, Governed(t, "unobserved", RetentionIf(t, "unobserved"), ~task[t].tainted))
    /\ UNCHANGED <<entries, clock, served, lineage, influence>>

\* reuse: none.  No lookup happens.
SkipLookup(t) == /\ Admitted(t)
                 /\ ObservesOutcomes(Backend)
                 /\ Effective(t).reuse = "none"
                 /\ Continue(t, "store", "bypass", task[t].tainted)
                 /\ UNCHANGED <<entries, clock, served, lineage, influence>>

LooksUp(t) == Admitted(t) /\ ObservesOutcomes(Backend) /\ Effective(t).reuse # "none"

-----------------------------------------------------------------------------
\* The exact lookup, then the donor lookup (_resolve)

\* Exact state is not stored again: a read never restarts max_age.
ExactHit(t) == /\ LooksUp(t)
               /\ Usable(ExactKey(t), task[t].now)
               /\ Report(t, Governed(t, "exact_hit", "retained", ~task[t].tainted))
               /\ Inherit(t, ExactKey(t), FALSE)
               /\ UNCHANGED <<entries, clock, served, lineage>>

\* Mutant: the outcome is left unset.
AfterExactMissUnset(t) ==
    Continue(t, IF LooksForDonor(t) THEN "donor" ELSE "store", None, task[t].tainted)

\* Where a call goes after an exact lookup that found nothing to use.
AfterExactMiss(t) ==
    Continue(t, IF LooksForDonor(t) THEN "donor" ELSE "store", "miss", task[t].tainted)

ExactMiss(t) == /\ LooksUp(t)
                /\ Absent(ExactKey(t))
                /\ AfterExactMiss(t)
                /\ UNCHANGED <<entries, clock, served, lineage, influence>>

\* get has read an entry past its deadline and will delete it.
ExactStale(t) == /\ LooksUp(t)
                 /\ Stale(ExactKey(t), task[t].now)
                 /\ Continue(t, "evict", None, task[t].tainted)
                 /\ UNCHANGED <<entries, clock, served, lineage, influence>>

EvictExact(t) == /\ pc[t] = "evict"
                 /\ Present(ExactKey(t))
                 /\ Evict(ExactKey(t))
                 /\ AfterExactMiss(t)
                 /\ UNCHANGED <<clock, served, influence>>

\* Mutant: the call is not tainted.
DonorHitUntainted(t) == /\ pc[t] = "donor"
                        /\ Usable(DonorKey(t), task[t].now)
                        /\ Continue(t, "store", "approximate_hit", task[t].tainted)
                        /\ Inherit(t, DonorKey(t), TRUE)
                        /\ UNCHANGED <<entries, clock, served, lineage>>

DonorHit(t) == /\ pc[t] = "donor"
               /\ Usable(DonorKey(t), task[t].now)
               /\ Continue(t, "store", "approximate_hit", TRUE)
               /\ Inherit(t, DonorKey(t), TRUE)
               /\ UNCHANGED <<entries, clock, served, lineage>>

DonorMiss(t) == /\ pc[t] = "donor"
                /\ Absent(DonorKey(t))
                /\ Continue(t, "store", "miss", task[t].tainted)
                /\ UNCHANGED <<entries, clock, served, lineage, influence>>

DonorStale(t) == /\ pc[t] = "donor"
                 /\ Stale(DonorKey(t), task[t].now)
                 /\ Continue(t, "evict_donor", "miss", task[t].tainted)
                 /\ UNCHANGED <<entries, clock, served, lineage, influence>>

EvictDonor(t) == /\ pc[t] = "evict_donor"
                 /\ Present(DonorKey(t))
                 /\ Evict(DonorKey(t))
                 /\ Continue(t, "store", "miss", task[t].tainted)
                 /\ UNCHANGED <<clock, served, influence>>

\* Mutant: the missing entry is looked for again, for ever.
EvictMissingSpins(t) == /\ \/ pc[t] = "evict" /\ Absent(ExactKey(t))
                           \/ pc[t] = "evict_donor" /\ Absent(DonorKey(t))
                        /\ UNCHANGED vars

\* Mutant: the lookup is tried again.
EvictMissingRetries(t) == /\ \/ pc[t] = "evict" /\ Absent(ExactKey(t))
                             \/ pc[t] = "evict_donor" /\ Absent(DonorKey(t))
                          /\ Continue(t, IF pc[t] = "evict" THEN "walk" ELSE "donor", None,
                                      task[t].tainted)
                          /\ UNCHANGED <<entries, clock, served, lineage, influence>>

\* Another thread deleted the entry between this one's read and its del.
EvictMissing(t) == /\ \/ pc[t] = "evict" /\ Absent(ExactKey(t))
                      \/ pc[t] = "evict_donor" /\ Absent(DonorKey(t))
                   /\ Raise(t, "KeyError")
                   /\ UNCHANGED <<entries, clock, served, lineage, influence>>

-----------------------------------------------------------------------------
\* Materializing what was computed (_materialize)

ReportComputed(t, retention) ==
    Report(t, Governed(t, task[t].outcome, retention, ~task[t].tainted))

WithholdForbidden(t) == /\ pc[t] = "store"
                        /\ Effective(t).mode = "forbid"
                        /\ ReportComputed(t, "forbidden")
                        /\ UNCHANGED <<entries, clock, served, lineage, influence>>

Decline(t) == /\ pc[t] = "store"
              /\ Effective(t).mode = "allow"
              /\ Effective(t).share_max = "request"
              /\ ReportComputed(t, "declined")
              /\ UNCHANGED <<entries, clock, served, lineage, influence>>

\* Mutant: a forbidding mode does not keep state from being stored.
StoreAnyway(t) == /\ pc[t] = "store"
                  /\ Effective(t).share_max # "request"
                  /\ PutState(t, PrefixKey(t, ~task[t].tainted), ~task[t].tainted)
                  /\ ReportComputed(t, "retained")
                  /\ UNCHANGED <<clock, served, influence>>

\* Mutant: tainted state is reported retained and not stored.
StoreUntainted(t) ==
    /\ pc[t] = "store"
    /\ Effective(t).mode = "allow"
    /\ Effective(t).share_max # "request"
    /\ IF task[t].tainted THEN UNCHANGED <<entries, lineage>>
       ELSE PutState(t, PrefixKey(t, TRUE), TRUE)
    /\ IF Fragment(t).approx_class = None THEN ReportComputed(t, "retained")
       ELSE Continue(t, "donate", task[t].outcome, task[t].tainted)
    /\ UNCHANGED <<clock, served, influence>>

Store(t) == /\ pc[t] = "store"
            /\ Effective(t).mode = "allow"
            /\ Effective(t).share_max # "request"
            /\ PutState(t, PrefixKey(t, ~task[t].tainted), ~task[t].tainted)
            /\ IF Fragment(t).approx_class = None THEN ReportComputed(t, "retained")
               ELSE Continue(t, "donate", task[t].outcome, task[t].tainted)
            /\ UNCHANGED <<clock, served, influence>>

\* The state is also published as a donor for its class.
Donate(t) == /\ pc[t] = "donate"
             /\ PutState(t, DonorKey(t), FALSE)
             /\ ReportComputed(t, "retained")
             /\ UNCHANGED <<clock, served, influence>>

Return(t) == /\ pc[t] = "walk"
             /\ task[t].pos > Len(task[t].order)
             /\ pc' = [pc EXCEPT ![t] = "idle"]
             /\ UNCHANGED <<entries, clock, served, task, lineage, influence>>

-----------------------------------------------------------------------------
Tick == /\ clock < MaxTime
        /\ clock' = clock + 1
        /\ UNCHANGED <<entries, served, pc, task, lineage, influence>>

\* Every call the bounds admit has ended.
Terminating == /\ served = MaxRequests
               /\ \A t \in Threads : pc[t] = "idle"
               /\ UNCHANGED vars

NoCall == [request |-> None, id |-> 0, now |-> 0, order |-> <<>>, pos |-> 1,
           constraints |-> {}, contents |-> <<>>, namespaces |-> <<>>, outcome |-> None,
           tainted |-> FALSE, statuses |-> <<>>, error |-> None]

Init == /\ EntriesInit
        /\ clock = 0
        /\ served = 0
        /\ pc = [t \in Threads |-> "idle"]
        /\ task = [t \in Threads |-> NoCall]
        /\ lineage = [k \in {} |-> None]
        /\ influence = [t \in Threads |-> NoInfluence]

\* What a call does once it has begun.
Proceed(t) == \/ PassUngoverned(t) \/ RejectMalformed(t)
              \/ RejectUnenforceable(t) \/ BypassUnenforceable(t)
              \/ LeaveUnobserved(t) \/ SkipLookup(t)
              \/ ExactHit(t) \/ ExactMiss(t) \/ ExactStale(t) \/ EvictExact(t)
              \/ DonorHit(t) \/ DonorMiss(t) \/ DonorStale(t) \/ EvictDonor(t)
              \/ EvictMissing(t)
              \/ WithholdForbidden(t) \/ Decline(t) \/ Store(t) \/ Donate(t)
              \/ Return(t)

Arrive(t) == \E r \in Requests : Begin(t, r) \/ RefuseUnsortable(t, r) \/ RefuseRepeatedId(t, r)

Next == (\E t \in Threads : Arrive(t) \/ Proceed(t)) \/ Tick \/ Terminating

Spec == Init /\ [][Next]_vars

-----------------------------------------------------------------------------
\* How many steps of its own the call of t has left at most: six for each fragment
\* and the return.
PlacesLeft == [walk |-> 6, evict |-> 5, donor |-> 4, evict_donor |-> 3, store |-> 2, donate |-> 1]
StepsLeft(t) == IF pc[t] = "idle" THEN 0
                ELSE 6 * (Len(task[t].order) - task[t].pos) + PlacesLeft[pc[t]] + 1

-----------------------------------------------------------------------------
Places == {"idle", "walk", "evict", "donor", "evict_donor", "store", "donate"}
Outcomes == {"bypass", "miss", "exact_hit", "approximate_hit", "unobserved"}
Retentions == {"forbidden", "declined", "retained", "unobserved"}
Errors == {"Invalid", "DuplicateFragmentId", "UnenforceableConstraint", "KeyError"}

\* None is not among the values of an enumeration: a lookup that has yet to end has
\* no outcome, a fragment that inherits nothing no reuse level, a call that has not
\* raised no error.
ASSUME NoneIsOther == None \notin Outcomes \cup ReuseLevels \cup Errors

Statuses == [outcome : Outcomes, effective_share : Scopes, retention : Retentions,
             exact : BOOLEAN, effective_reuse : ReuseLevels \cup {None},
             effective_retention_mode : Modes \cup {None}, namespaces : Seq(STRING)]

Calls == [request : Requests \cup {None}, id : Nat, now : Nat, order : Seq(Fragments),
          pos : Nat \ {0}, constraints : SUBSET Constraints, contents : Seq(STRING),
          namespaces : Seq(STRING), outcome : Outcomes \cup {None}, tainted : BOOLEAN,
          statuses : Seq(Statuses), error : Errors \cup {None}]

\* A thread in the middle of a call is at a fragment of a real request, and
\* past the head of the loop that fragment has a policy to be handled under.
InCall(t) == /\ task[t].request \in Requests
             /\ pc[t] # "walk" => /\ task[t].pos <= Len(task[t].order)
                                  /\ Fragment(t).intent # Malformed
                                  /\ ConstraintsSoFar(t) # {}
             /\ pc[t] = "store" => task[t].outcome # None
             /\ pc[t] \in {"donor", "evict_donor", "donate"} => Fragment(t).approx_class # None
             /\ pc[t] = "donate" => task[t].outcome # None

CallsTypeOK == /\ pc \in [Threads -> Places]
               /\ task \in [Threads -> Calls]
               /\ \A t \in Threads : pc[t] # "idle" => InCall(t)

LineageTypeOK ==
    /\ DOMAIN lineage = DOMAIN entries
    /\ lineage \in [DOMAIN lineage -> [own : SUBSET Sources, inherited : SUBSET Sources,
                                      approximate : BOOLEAN]]

InfluenceTypeOK ==
    influence \in [Threads -> [sources : SUBSET Sources, approximate : BOOLEAN]]

TypeOK == /\ clock \in Nat /\ served \in Nat
          /\ EntriesTypeOK
          /\ CallsTypeOK
          /\ LineageTypeOK
          /\ InfluenceTypeOK
=============================================================================
