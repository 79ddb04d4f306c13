--------------------------- MODULE GatewayProofs ---------------------------
(***************************************************************************)
(* Type correctness of the gateway, and that no request can address        *)
(* retained state from outside the boundary of a contributor to it, for    *)
(* every set of threads and requests, every backend, and any bounds.       *)
(***************************************************************************)
EXTENDS GatewayProperties, CachePolicyProofs

-----------------------------------------------------------------------------
\* Types of what a call computes at a fragment

\* A thread in the middle of a call, at a fragment that parsed.
AtFragment(t) == /\ pc[t] # "idle"
                 /\ task[t].pos <= Len(task[t].order)
                 /\ Fragment(t).intent # Malformed

\* The locals of a call in progress are typed (gateway.py handle).
LEMMA CallTypes ==
    ASSUME TypeOK, NEW t \in Threads, pc[t] # "idle"
    PROVE  /\ task[t] \in Calls
           /\ task[t].request \in Requests
           /\ task[t].request.auth \in AuthContext
           /\ task[t].id \in Nat
           /\ task[t].now \in Nat
BY RequestsAssumption DEF TypeOK, CallsTypeOK, InCall, Calls

\* What handle accumulates over the prefix is typed (gateway.py handle).
LEMMA PrefixTypes ==
    ASSUME TypeOK, NEW t \in Threads, AtFragment(t)
    PROVE  /\ Fragment(t) \in Fragments
           /\ Fragment(t).intent \in Constraints \cup {None}
           /\ ConstraintsSoFar(t) \in SUBSET Constraints
           /\ ContentsSoFar(t) \in Seq(STRING)
           /\ NamespacesSoFar(t) \in Seq(STRING)
<1>1. /\ task[t].order \in Seq(Fragments) /\ task[t].pos \in Nat \ {0}
      /\ task[t].constraints \in SUBSET Constraints
      /\ task[t].contents \in Seq(STRING) /\ task[t].namespaces \in Seq(STRING)
  BY DEF TypeOK, CallsTypeOK, Calls
<1>2. Fragment(t) \in Fragments
  BY <1>1 DEF AtFragment, Fragment
<1>3. Fragment(t).intent \in Constraints \cup {None}
  BY <1>2 DEF AtFragment, Fragments
<1>4. ConstraintsSoFar(t) \in SUBSET Constraints
  BY <1>1, <1>3 DEF ConstraintsSoFar
<1>5. ContentsSoFar(t) \in Seq(STRING)
  <2>1. Fragment(t).content \in STRING
    BY <1>2 DEF Fragments
  <2>. QED
    BY <1>1, <2>1 DEF ContentsSoFar
<1>6. NamespacesSoFar(t) \in Seq(STRING)
  <2>1. CASE Fragment(t).intent = None \/ Fragment(t).intent.namespace = None
    BY <1>1, <2>1 DEF NamespacesSoFar
  <2>2. CASE ~(Fragment(t).intent = None \/ Fragment(t).intent.namespace = None)
    <3>1. Fragment(t).intent.namespace \in STRING
      BY <1>3, <2>2 DEF Constraints
    <3>2. Append(task[t].namespaces, Fragment(t).intent.namespace) \in Seq(STRING)
      BY <1>1, <3>1
    <3>. QED
      BY <2>2, <3>2 DEF NamespacesSoFar
  <2>. QED
    BY <2>1, <2>2
<1>. QED
  BY <1>2, <1>3, <1>4, <1>5, <1>6

\* So are the effective policy, the partition and the keys (gateway.py handle).
LEMMA PolicyTypes ==
    ASSUME TypeOK, NEW t \in Threads, AtFragment(t), ConstraintsSoFar(t) # {}
    PROVE  /\ Effective(t) \in Policies
           /\ Partition(t) \in Partitions
           /\ \A exact \in BOOLEAN : PrefixKey(t, exact) \in CacheKeys
           /\ ExactKey(t) \in CacheKeys
           /\ Fragment(t).approx_class # None => DonorKey(t) \in CacheKeys
           /\ OwnSources(t) \in SUBSET Sources
<1>1. /\ ConstraintsSoFar(t) \in SUBSET Constraints /\ Fragment(t) \in Fragments
      /\ ContentsSoFar(t) \in Seq(STRING) /\ NamespacesSoFar(t) \in Seq(STRING)
  BY PrefixTypes
<1>2. Effective(t) \in Policies
  BY <1>1, ComposeIsPolicy DEF Effective
<1>3. Partition(t) \in Partitions
  <2>1. Effective(t).share_max \in Scopes
    BY <1>2 DEF Policies
  <2>. QED
    BY <2>1, CallTypes, PartitionType DEF Partition, AtFragment
<1>4. \A exact \in BOOLEAN : PrefixKey(t, exact) \in CacheKeys
  BY <1>1, <1>3 DEF PrefixKey, CacheKey, CacheKeys
<1>5. ExactKey(t) \in CacheKeys
  BY <1>4 DEF ExactKey
<1>6. ASSUME Fragment(t).approx_class # None
      PROVE  DonorKey(t) \in CacheKeys
  <2>1. Fragment(t).approx_class \in STRING
    BY <1>1, <1>6 DEF Fragments
  <2>2. <<Fragment(t).approx_class>> \in Seq(STRING)
    BY <2>1
  <2>. QED
    BY <1>1, <1>3, <2>2 DEF DonorKey, CacheKey, CacheKeys
<1>7. OwnSources(t) \in SUBSET Sources
  BY <1>1, CallTypes DEF OwnSources, Sources, AtFragment
<1>. QED
  BY <1>2, <1>3, <1>4, <1>5, <1>6, <1>7

\* And every status reported (gateway.py FragmentStatus).
LEMMA StatusTypes ==
    ASSUME TypeOK, NEW t \in Threads, AtFragment(t), ConstraintsSoFar(t) # {},
           NEW outcome \in Outcomes, NEW retention \in Retentions, NEW exact \in BOOLEAN
    PROVE  Governed(t, outcome, retention, exact) \in Statuses
BY PrefixTypes, PolicyTypes DEF Governed, Statuses, Policies

-----------------------------------------------------------------------------
\* Types of what the pieces of a step leave behind

\* A call whose thread takes no step stays where it was (gateway.py handle).
LEMMA OthersStay ==
    ASSUME NEW u \in Threads, task'[u] = task[u], pc'[u] = pc[u], InCall(u)
    PROVE  InCall(u)'
BY DEF InCall, Fragment, ConstraintsSoFar

\* A step of one thread that leaves its own locals typed leaves all of them
\* typed (gateway.py handle).
LEMMA StepTyped ==
    ASSUME TypeOK, NEW t \in Threads, NEW call \in Calls, NEW place \in Places,
           task' = [task EXCEPT ![t] = call], pc' = [pc EXCEPT ![t] = place],
           place # "idle" => InCall(t)'
    PROVE  CallsTypeOK'
<1>1. pc \in [Threads -> Places] /\ task \in [Threads -> Calls]
      /\ \A u \in Threads : pc[u] # "idle" => InCall(u)
  BY DEF TypeOK, CallsTypeOK
<1>2. pc' \in [Threads -> Places] /\ task' \in [Threads -> Calls]
  BY <1>1
<1>3. ASSUME NEW u \in Threads, pc'[u] # "idle" PROVE InCall(u)'
  <2>1. CASE u = t
    BY <1>1, <1>3, <2>1
  <2>2. CASE u # t
    <3>1. task'[u] = task[u] /\ pc'[u] = pc[u]
      BY <1>1, <2>2
    <3>. QED
      BY <1>1, <1>3, <3>1, OthersStay
  <2>. QED
    BY <2>1, <2>2
<1>. QED
  BY <1>2, <1>3 DEF CallsTypeOK

\* Appending a status and moving on (gateway.py handle).
LEMMA ReportTyped ==
    ASSUME TypeOK, NEW t \in Threads, AtFragment(t), NEW status \in Statuses, Report(t, status)
    PROVE  CallsTypeOK'
<1>. DEFINE c == task[t]
            call == [c EXCEPT !.statuses = Append(@, status), !.pos = @ + 1,
                              !.constraints = ConstraintsSoFar(t),
                              !.contents = ContentsSoFar(t),
                              !.namespaces = NamespacesSoFar(t)]
<1>1. /\ c \in Calls /\ c.request \in Requests
      /\ task \in [Threads -> Calls] /\ pc \in [Threads -> Places]
  BY CallTypes DEF AtFragment, TypeOK, CallsTypeOK
<1>2. call \in Calls
  <2>1. Append(c.statuses, status) \in Seq(Statuses) /\ c.pos + 1 \in Nat \ {0}
    BY <1>1 DEF Calls
  <2>. QED
    BY <1>1, <2>1, PrefixTypes DEF Calls
<1>3. task' = [task EXCEPT ![t] = call] /\ pc' = [pc EXCEPT ![t] = "walk"]
  BY <1>1 DEF Report
<1>4. InCall(t)'
  <2>1. task'[t] = call /\ pc'[t] = "walk"
    BY <1>1, <1>3
  <2>2. call.request = c.request
    BY <1>1 DEF Calls
  <2>. QED
    BY <1>1, <2>1, <2>2 DEF InCall
<1>. QED
  BY <1>2, <1>3, <1>4, StepTyped DEF Places

\* Raising (gateway.py handle, errors.py).
LEMMA RaiseTyped ==
    ASSUME TypeOK, NEW t \in Threads, NEW error \in Errors, Raise(t, error)
    PROVE  CallsTypeOK'
<1>. DEFINE call == [task[t] EXCEPT !.error = error]
<1>1. task \in [Threads -> Calls] /\ pc \in [Threads -> Places]
  BY DEF TypeOK, CallsTypeOK
<1>2. call \in Calls
  BY <1>1 DEF Calls
<1>3. task' = [task EXCEPT ![t] = call] /\ pc' = [pc EXCEPT ![t] = "idle"]
  BY <1>1 DEF Raise
<1>. QED
  BY <1>2, <1>3, StepTyped DEF Places

\* Going on with the same fragment (gateway.py handle, _resolve).
LEMMA ContinueTyped ==
    ASSUME TypeOK, NEW t \in Threads, AtFragment(t), ConstraintsSoFar(t) # {},
           NEW place \in Places \ {"idle", "walk"}, NEW outcome \in Outcomes \cup {None},
           NEW tainted \in BOOLEAN, Continue(t, place, outcome, tainted),
           place \in {"store", "donate"} => outcome # None,
           place \in {"donor", "evict_donor", "donate"} => Fragment(t).approx_class # None
    PROVE  CallsTypeOK'
<1>. DEFINE c == task[t]
            call == [c EXCEPT !.outcome = outcome, !.tainted = tainted]
<1>1. /\ c \in Calls /\ c.request \in Requests
      /\ task \in [Threads -> Calls] /\ pc \in [Threads -> Places]
  BY CallTypes DEF AtFragment, TypeOK, CallsTypeOK
<1>2. call \in Calls
  BY <1>1 DEF Calls
<1>3. task' = [task EXCEPT ![t] = call] /\ pc' = [pc EXCEPT ![t] = place]
  BY <1>1 DEF Continue
<1>4. InCall(t)'
  <2>1. task'[t] = call /\ pc'[t] = place
    BY <1>1, <1>3
  <2>2. /\ call.request = c.request /\ call.pos = c.pos /\ call.order = c.order
        /\ call.constraints = c.constraints /\ call.outcome = outcome
    BY <1>1 DEF Calls
  <2>3. /\ Fragment(t)' = Fragment(t)
        /\ ConstraintsSoFar(t)' = ConstraintsSoFar(t)
    BY <2>1, <2>2 DEF Fragment, ConstraintsSoFar
  <2>. QED
    BY <1>1, <2>1, <2>2, <2>3 DEF InCall, AtFragment
<1>. QED
  BY <1>2, <1>3, <1>4, StepTyped

\* Going on to _materialize with the outcome of _resolve (gateway.py handle).
LEMMA ResolvedTyped ==
    ASSUME TypeOK, NEW t \in Threads, AtFragment(t), ConstraintsSoFar(t) # {},
           NEW outcome \in Outcomes, NEW tainted \in BOOLEAN,
           Continue(t, "store", outcome, tainted)
    PROVE  CallsTypeOK'
<1>1. outcome # None
  BY NoneIsOther
<1>2. /\ "store" \in Places \ {"idle", "walk"}
      /\ "store" \notin {"donor", "evict_donor", "donate"}
      /\ outcome \in Outcomes \cup {None}
  BY DEF Places
<1>. QED
  BY <1>1, <1>2, ContinueTyped

\* Deleting an entry (cache.py get).
LEMMA EvictTyped ==
    ASSUME TypeOK, NEW k, Evict(k)
    PROVE  EntriesTypeOK' /\ LineageTypeOK'
BY DEF TypeOK, EntriesTypeOK, LineageTypeOK, Evict, Delete

\* Putting one, by a call that has a policy (cache.py put).
LEMMA PutTyped ==
    ASSUME TypeOK, NEW t \in Threads, AtFragment(t), ConstraintsSoFar(t) # {},
           NEW k \in CacheKeys, NEW exact \in BOOLEAN, PutState(t, k, exact)
    PROVE  EntriesTypeOK' /\ LineageTypeOK'
<1>1. CASE ~KeepsEntries(Backend)
  BY <1>1 DEF PutState, TypeOK, EntriesTypeOK, LineageTypeOK
<1>2. CASE KeepsEntries(Backend)
  <2>. DEFINE entry == [materialized_at |-> task[t].now,
                        expires_at |-> ExpiresAt(task[t].now, Effective(t).max_age),
                        exact |-> exact]
              answers == [own |-> OwnSources(t), inherited |-> influence[t].sources,
                          approximate |-> influence[t].approximate]
  <2>1. entry \in Entries
    <3>1. task[t].now \in Nat /\ Effective(t).max_age \in Nat \cup {None}
      BY CallTypes, PolicyTypes DEF AtFragment, Policies
    <3>2. ExpiresAt(task[t].now, Effective(t).max_age) \in Nat \cup {None}
      BY <3>1 DEF ExpiresAt
    <3>. QED
      BY <3>1, <3>2 DEF Entries
  <2>2. answers \in [own : SUBSET Sources, inherited : SUBSET Sources, approximate : BOOLEAN]
    BY PolicyTypes DEF TypeOK, InfluenceTypeOK
  <2>3. /\ entries' = [j \in DOMAIN entries \cup {k} |-> IF j = k THEN entry ELSE entries[j]]
        /\ lineage' = [j \in DOMAIN lineage \cup {k} |-> IF j = k THEN answers ELSE lineage[j]]
    BY <1>2 DEF PutState, Put
  <2>4. EntriesTypeOK'
    BY <2>1, <2>3 DEF TypeOK, EntriesTypeOK
  <2>5. LineageTypeOK'
    BY <2>2, <2>3 DEF TypeOK, LineageTypeOK
  <2>. QED
    BY <2>4, <2>5
<1>. QED
  BY <1>1, <1>2

\* Reusing an entry that is there (gateway.py _resolve).
LEMMA InheritTyped ==
    ASSUME TypeOK, NEW t \in Threads, NEW k, Present(k), NEW approximate \in BOOLEAN,
           Inherit(t, k, approximate)
    PROVE  InfluenceTypeOK'
<1>. DEFINE i == influence[t]
            new == [sources |-> i.sources \cup lineage[k].own \cup lineage[k].inherited,
                    approximate |-> i.approximate \/ approximate \/ lineage[k].approximate]
<1>1. influence \in [Threads -> [sources : SUBSET Sources, approximate : BOOLEAN]]
  BY DEF TypeOK, InfluenceTypeOK
<1>2. lineage[k] \in [own : SUBSET Sources, inherited : SUBSET Sources, approximate : BOOLEAN]
  BY DEF TypeOK, LineageTypeOK, Present
<1>3. new \in [sources : SUBSET Sources, approximate : BOOLEAN]
  <2>1. i \in [sources : SUBSET Sources, approximate : BOOLEAN]
    BY <1>1
  <2>2. (i.approximate \/ approximate \/ lineage[k].approximate) \in BOOLEAN
    OBVIOUS
  <2>3. i.sources \cup lineage[k].own \cup lineage[k].inherited \in SUBSET Sources
    BY <1>2, <2>1
  <2>. QED
    BY <2>2, <2>3
<1>4. influence' = [influence EXCEPT ![t] = new]
  BY Zenon DEF Inherit
<1>. QED
  BY <1>1, <1>3, <1>4 DEF InfluenceTypeOK

-----------------------------------------------------------------------------
\* Type correctness

\* Planning permutes the request's fragments (gateway.py plan_order).
LEMMA PlansTyped ==
    ASSUME NEW r \in Requests, NEW order \in PlannedOrders(r)
    PROVE  order \in Seq(Fragments)
<1>1. r.fragments \in Seq(Fragments)
  BY RequestsAssumption
<1>2. CASE ~r.equivalence_declared
  BY <1>1, <1>2 DEF PlannedOrders
<1>3. CASE r.equivalence_declared
  <2>1. PICK p \in [DOMAIN r.fragments -> DOMAIN r.fragments] :
               order = [i \in DOMAIN r.fragments |-> r.fragments[p[i]]]
    BY <1>3 DEF PlannedOrders
  <2>2. Len(r.fragments) \in Nat /\ DOMAIN r.fragments = 1..Len(r.fragments)
    BY <1>1
  <2>3. \A i \in DOMAIN r.fragments : r.fragments[p[i]] \in Fragments
    BY <1>1, <2>1
  <2>. QED
    BY <2>1, <2>2, <2>3
<1>. QED
  BY <1>2, <1>3

\* The locals of a new call are typed (gateway.py handle).
LEMMA CallTyped ==
    ASSUME TypeOK, NEW r \in Requests, NEW order \in Seq(Fragments),
           NEW error \in Errors \cup {None}
    PROVE  Call(r, order, error) \in Calls
<1>1. clock \in Nat /\ served + 1 \in Nat
  BY DEF TypeOK
<1>2. << >> \in Seq(STRING) /\ << >> \in Seq(Statuses)
  OBVIOUS
<1>. QED
  BY <1>1, <1>2 DEF Call, Calls

\* Accepting a request leaves the locals typed, whatever becomes of it
\* (gateway.py handle).
LEMMA BeginTyped ==
    ASSUME TypeOK, NEW t \in Threads, NEW r \in Requests, NEW order \in Seq(Fragments),
           NEW error \in Errors \cup {None}, NEW place \in {"idle", "walk"},
           task' = [task EXCEPT ![t] = Call(r, order, error)],
           pc' = [pc EXCEPT ![t] = place]
    PROVE  CallsTypeOK'
<1>1. Call(r, order, error) \in Calls
  BY CallTyped
<1>2. place # "idle" => InCall(t)'
  <2>1. task'[t] = Call(r, order, error) /\ pc'[t] = place
    BY DEF TypeOK, CallsTypeOK
  <2>. QED
    BY <2>1 DEF InCall, Call
<1>. QED
  BY <1>1, <1>2, StepTyped DEF Places

\* Where a thread stands when it touches the cache or reports: at a fragment that
\* parsed and, the head of the loop aside, under some policy (gateway.py handle).
LEMMA Located ==
    ASSUME TypeOK, NEW t \in Threads
    PROVE  /\ ReachedPolicy(t) => AtFragment(t) /\ ConstraintsSoFar(t) # {}
           /\ Reached(t) /\ ConstraintsSoFar(t) = {} => AtFragment(t)
           /\ pc[t] \notin {"idle", "walk"} => AtFragment(t) /\ ConstraintsSoFar(t) # {}
<1>1. ReachedPolicy(t) => AtFragment(t) /\ ConstraintsSoFar(t) # {}
  BY DEF ReachedPolicy, Reached, AtFragment
<1>2. Reached(t) /\ ConstraintsSoFar(t) = {} => AtFragment(t)
  BY MalformedAssumption DEF Reached, AtFragment, ConstraintsSoFar
<1>3. pc[t] \notin {"idle", "walk"} => AtFragment(t) /\ ConstraintsSoFar(t) # {}
  BY DEF TypeOK, CallsTypeOK, InCall, AtFragment
<1>. QED
  BY <1>1, <1>2, <1>3

\* The initial state is typed (gateway.py Gateway, cache.py InMemoryCache).
LEMMA InitTyped == Init => TypeOK
<1>. SUFFICES ASSUME Init PROVE TypeOK
  OBVIOUS
<1>1. EntriesTypeOK /\ LineageTypeOK
  BY DEF Init, EntriesInit, EntriesTypeOK, LineageTypeOK
<1>2. NoCall \in Calls
  <2>1. << >> \in Seq(STRING) /\ << >> \in Seq(Statuses) /\ << >> \in Seq(Fragments)
    OBVIOUS
  <2>. QED
    BY <2>1 DEF NoCall, Calls
<1>3. CallsTypeOK
  BY <1>2 DEF Init, CallsTypeOK, Places
<1>4. InfluenceTypeOK
  BY DEF Init, NoInfluence, InfluenceTypeOK
<1>. QED
  BY <1>1, <1>3, <1>4 DEF Init, TypeOK

\* A step that only moves one call keeps everything typed (gateway.py handle).
LEMMA CallStepTyped ==
    ASSUME TypeOK, CallsTypeOK', UNCHANGED <<entries, clock, served, lineage, influence>>
    PROVE  TypeOK'
BY DEF TypeOK, EntriesTypeOK, LineageTypeOK, InfluenceTypeOK

\* Every way a request is accepted or refused keeps the state typed
\* (gateway.py handle, plan_order).
LEMMA ArriveTyped ==
    ASSUME TypeOK, NEW t \in Threads, Arrive(t)
    PROVE  TypeOK'
<1>1. PICK r \in Requests : Begin(t, r) \/ RefuseUnsortable(t, r) \/ RefuseRepeatedId(t, r)
  BY DEF Arrive
<1>2. Accept(t, r)
  BY <1>1 DEF Begin, RefuseUnsortable, RefuseRepeatedId
<1>3. /\ served' \in Nat /\ InfluenceTypeOK'
      /\ UNCHANGED <<entries, clock, lineage>>
  <2>1. NoInfluence \in [sources : SUBSET Sources, approximate : BOOLEAN]
    BY DEF NoInfluence
  <2>. QED
    BY <1>2, <2>1 DEF Accept, TypeOK, InfluenceTypeOK
<1>4. pc[t] = "idle" /\ pc \in [Threads -> Places]
  BY <1>2 DEF Accept, TypeOK, CallsTypeOK
<1>5. CASE Begin(t, r)
  <2>1. PICK order \in PlannedOrders(r) : task' = [task EXCEPT ![t] = Call(r, order, None)]
    BY <1>5 DEF Begin
  <2>2. pc' = [pc EXCEPT ![t] = "walk"]
    BY <1>5 DEF Begin
  <2>. QED
    BY <1>3, <2>1, <2>2, PlansTyped, BeginTyped DEF TypeOK, EntriesTypeOK, LineageTypeOK
<1>6. CASE RefuseUnsortable(t, r) \/ RefuseRepeatedId(t, r)
  <2>1. PICK error \in Errors : task' = [task EXCEPT ![t] = Call(r, << >>, error)]
    BY <1>6 DEF RefuseUnsortable, RefuseRepeatedId, Errors
  <2>2. pc' = [pc EXCEPT ![t] = "idle"]
    BY <1>4, <1>6 DEF RefuseUnsortable, RefuseRepeatedId
  <2>3. << >> \in Seq(Fragments)
    OBVIOUS
  <2>. QED
    BY <1>3, <2>1, <2>2, <2>3, BeginTyped DEF TypeOK, EntriesTypeOK, LineageTypeOK
<1>. QED
  BY <1>1, <1>5, <1>6

\* Every step of a call keeps the state typed (gateway.py handle, _resolve and
\* _materialize, cache.py get and put).
LEMMA ProceedTyped ==
    ASSUME TypeOK, NEW t \in Threads, Proceed(t)
    PROVE  TypeOK'
<1>. USE Located
<1>0. /\ {"bypass", "miss", "approximate_hit"} \subseteq Outcomes
      /\ pc[t] \in {"donor", "evict_donor"} => pc[t] \notin {"idle", "walk"}
  BY DEF Outcomes
<1>1. /\ task[t].tainted \in BOOLEAN /\ (~task[t].tainted) \in BOOLEAN
      /\ pc[t] \in {"store", "donate"} => task[t].outcome \in Outcomes
      /\ pc[t] \in {"donor", "evict_donor", "donate"} => Fragment(t).approx_class # None
  BY DEF TypeOK, CallsTypeOK, InCall, Calls
<1>2. \A otherwise \in Retentions : RetentionIf(t, otherwise) \in Retentions
  BY DEF RetentionIf, Retentions
<1>3. CASE PassUngoverned(t)
  <2>1. Ungoverned \in Statuses
    <3>1. << >> \in Seq(STRING)
      OBVIOUS
    <3>. QED
      BY <3>1 DEF Ungoverned, Statuses, Outcomes, Scopes, Retentions
  <2>2. CallsTypeOK'
    BY <1>3, <2>1, ReportTyped DEF PassUngoverned
  <2>. QED
    BY <1>3, <2>2, CallStepTyped DEF PassUngoverned
<1>4. CASE RejectMalformed(t)
  <2>1. CallsTypeOK'
    BY <1>4, RaiseTyped DEF RejectMalformed, Errors
  <2>. QED
    BY <1>4, <2>1, CallStepTyped DEF RejectMalformed
<1>5. CASE RejectUnenforceable(t)
  <2>1. CallsTypeOK'
    BY <1>5, RaiseTyped DEF RejectUnenforceable, Errors
  <2>. QED
    BY <1>5, <2>1, CallStepTyped DEF RejectUnenforceable
<1>6. CASE BypassUnenforceable(t)
  <2>1. Governed(t, "bypass", RetentionIf(t, "declined"), TRUE) \in Statuses
    BY <1>2, <1>6, StatusTypes DEF BypassUnenforceable, Outcomes, Retentions
  <2>2. CallsTypeOK'
    BY <1>6, <2>1, ReportTyped DEF BypassUnenforceable
  <2>. QED
    BY <1>6, <2>2, CallStepTyped DEF BypassUnenforceable
<1>7. CASE LeaveUnobserved(t)
  <2>1. Governed(t, "unobserved", RetentionIf(t, "unobserved"), ~task[t].tainted) \in Statuses
    BY <1>1, <1>2, <1>7, StatusTypes DEF LeaveUnobserved, Admitted, Outcomes, Retentions
  <2>2. CallsTypeOK'
    BY <1>7, <2>1, ReportTyped DEF LeaveUnobserved, Admitted
  <2>. QED
    BY <1>7, <2>2, CallStepTyped DEF LeaveUnobserved
<1>8. CASE SkipLookup(t)
  <2>1. CallsTypeOK'
    BY <1>1, <1>8, <1>0, ResolvedTyped DEF SkipLookup, Admitted
  <2>. QED
    BY <1>8, <2>1, CallStepTyped DEF SkipLookup
<1>9. CASE ExactHit(t)
  <2>1. Governed(t, "exact_hit", "retained", ~task[t].tainted) \in Statuses
    BY <1>1, <1>9, StatusTypes DEF ExactHit, LooksUp, Admitted, Outcomes, Retentions
  <2>2. CallsTypeOK'
    BY <1>9, <2>1, ReportTyped DEF ExactHit, LooksUp, Admitted
  <2>3. InfluenceTypeOK'
    BY <1>9, InheritTyped DEF ExactHit, Usable
  <2>. QED
    BY <1>9, <2>2, <2>3 DEF ExactHit, TypeOK, EntriesTypeOK, LineageTypeOK
<1>10. ASSUME AtFragment(t), ConstraintsSoFar(t) # {}, AfterExactMiss(t) PROVE CallsTypeOK'
  <2>1. CASE LooksForDonor(t)
    BY <1>1, <1>10, <2>1, NoneIsOther, ContinueTyped
       DEF AfterExactMiss, LooksForDonor, Outcomes, Places
  <2>2. CASE ~LooksForDonor(t)
    BY <1>1, <1>10, <1>0, <2>2, ResolvedTyped DEF AfterExactMiss
  <2>. QED
    BY <2>1, <2>2
<1>11. CASE ExactMiss(t)
  <2>1. CallsTypeOK'
    BY <1>10, <1>11 DEF ExactMiss, LooksUp, Admitted
  <2>. QED
    BY <1>11, <2>1, CallStepTyped DEF ExactMiss
<1>12. CASE ExactStale(t)
  <2>1. CallsTypeOK'
    BY <1>1, <1>12, ContinueTyped DEF ExactStale, LooksUp, Admitted, Places
  <2>. QED
    BY <1>12, <2>1, CallStepTyped DEF ExactStale
<1>13. CASE EvictExact(t)
  <2>1. CallsTypeOK'
    BY <1>10, <1>13 DEF EvictExact
  <2>2. EntriesTypeOK' /\ LineageTypeOK'
    BY <1>13, EvictTyped DEF EvictExact
  <2>. QED
    BY <1>13, <2>1, <2>2 DEF EvictExact, TypeOK, InfluenceTypeOK
<1>14. CASE DonorHit(t)
  <2>1. CallsTypeOK'
    BY <1>14, <1>0, ResolvedTyped DEF DonorHit
  <2>2. InfluenceTypeOK'
    BY <1>14, InheritTyped DEF DonorHit, Usable
  <2>. QED
    BY <1>14, <2>1, <2>2 DEF DonorHit, TypeOK, EntriesTypeOK, LineageTypeOK
<1>15. CASE DonorMiss(t)
  <2>1. CallsTypeOK'
    BY <1>1, <1>15, <1>0, ResolvedTyped DEF DonorMiss
  <2>. QED
    BY <1>15, <2>1, CallStepTyped DEF DonorMiss
<1>16. CASE DonorStale(t)
  <2>1. CallsTypeOK'
    BY <1>1, <1>16, ContinueTyped DEF DonorStale, Outcomes, Places
  <2>. QED
    BY <1>16, <2>1, CallStepTyped DEF DonorStale
<1>17. CASE EvictDonor(t)
  <2>1. CallsTypeOK'
    BY <1>1, <1>17, <1>0, ResolvedTyped DEF EvictDonor
  <2>2. EntriesTypeOK' /\ LineageTypeOK'
    BY <1>17, EvictTyped DEF EvictDonor
  <2>. QED
    BY <1>17, <2>1, <2>2 DEF EvictDonor, TypeOK, InfluenceTypeOK
<1>18. CASE EvictMissing(t)
  <2>1. CallsTypeOK'
    BY <1>18, RaiseTyped DEF EvictMissing, Errors
  <2>. QED
    BY <1>18, <2>1, CallStepTyped DEF EvictMissing
<1>19. ASSUME pc[t] \in {"store", "donate"}, NEW retention \in Retentions,
              ReportComputed(t, retention)
       PROVE  CallsTypeOK'
  <2>1. Governed(t, task[t].outcome, retention, ~task[t].tainted) \in Statuses
    BY <1>1, <1>19, StatusTypes
  <2>. QED
    BY <1>19, <2>1, ReportTyped DEF ReportComputed
<1>20. CASE WithholdForbidden(t)
  <2>1. CallsTypeOK'
    BY <1>19, <1>20 DEF WithholdForbidden, Retentions
  <2>. QED
    BY <1>20, <2>1, CallStepTyped DEF WithholdForbidden
<1>21. CASE Decline(t)
  <2>1. CallsTypeOK'
    BY <1>19, <1>21 DEF Decline, Retentions
  <2>. QED
    BY <1>21, <2>1, CallStepTyped DEF Decline
<1>22. CASE Store(t)
  <2>1. PrefixKey(t, ~task[t].tainted) \in CacheKeys
    BY <1>1, <1>22, PolicyTypes DEF Store
  <2>2. EntriesTypeOK' /\ LineageTypeOK'
    BY <1>1, <1>22, <2>1, PutTyped DEF Store
  <2>3. CASE Fragment(t).approx_class = None
    <3>1. CallsTypeOK'
      BY <1>19, <1>22, <2>3 DEF Store, Retentions
    <3>. QED
      BY <1>22, <2>2, <3>1 DEF Store, TypeOK, InfluenceTypeOK
  <2>4. CASE Fragment(t).approx_class # None
    <3>1. CallsTypeOK'
      <4>1. Continue(t, "donate", task[t].outcome, task[t].tainted)
        BY <1>22, <2>4 DEF Store
      <4>2. task[t].outcome # None
        BY <1>22 DEF Store, TypeOK, CallsTypeOK, InCall
      <4>. QED
        BY <1>1, <1>22, <2>4, <4>1, <4>2, ContinueTyped DEF Store, Places
    <3>. QED
      BY <1>22, <2>2, <3>1 DEF Store, TypeOK, InfluenceTypeOK
  <2>. QED
    BY <2>3, <2>4
<1>23. CASE Donate(t)
  <2>1. DonorKey(t) \in CacheKeys
    BY <1>1, <1>23, PolicyTypes DEF Donate
  <2>2. EntriesTypeOK' /\ LineageTypeOK'
    BY <1>23, <2>1, PutTyped DEF Donate
  <2>3. CallsTypeOK'
    BY <1>19, <1>23 DEF Donate, Retentions
  <2>. QED
    BY <1>23, <2>2, <2>3 DEF Donate, TypeOK, InfluenceTypeOK
<1>24. CASE Return(t)
  <2>1. task[t] \in Calls /\ task' = [task EXCEPT ![t] = task[t]]
    BY <1>24 DEF Return, TypeOK, CallsTypeOK
  <2>2. CallsTypeOK'
    BY <1>24, <2>1, StepTyped DEF Return, Places
  <2>. QED
    BY <1>24, <2>2, CallStepTyped DEF Return
<1>. QED
  BY <1>3, <1>4, <1>5, <1>6, <1>7, <1>8, <1>9, <1>11, <1>12, <1>13, <1>14, <1>15, <1>16,
     <1>17, <1>18, <1>20, <1>21, <1>22, <1>23, <1>24 DEF Proceed

\* Every step of the gateway keeps the state typed (gateway.py, cache.py).
LEMMA NextTyped == TypeOK /\ [Next]_vars => TypeOK'
<1>. SUFFICES ASSUME TypeOK, [Next]_vars PROVE TypeOK'
  OBVIOUS
<1>1. ASSUME NEW t \in Threads, Arrive(t) \/ Proceed(t) PROVE TypeOK'
  BY <1>1, ArriveTyped, ProceedTyped
<1>2. ASSUME UNCHANGED <<entries, served, pc, task, lineage, influence>>, clock' \in Nat
      PROVE  TypeOK'
  <2>1. CallsTypeOK'
    BY <1>2 DEF TypeOK, CallsTypeOK, InCall, Fragment, ConstraintsSoFar
  <2>. QED
    BY <1>2, <2>1 DEF TypeOK, EntriesTypeOK, LineageTypeOK, InfluenceTypeOK
<1>3. CASE Tick
  BY <1>2, <1>3 DEF Tick, TypeOK
<1>4. CASE UNCHANGED vars
  BY <1>2, <1>4 DEF vars, TypeOK
<1>. QED
  BY <1>1, <1>3, <1>4 DEF Next, Terminating

\* The gateway's state, calls and history stay typed: each entry has its
\* lineage, and no thread stands past the end of its fragments or at a lookup
\* without a policy (gateway.py handle).
THEOREM TypeCorrect == Spec => []TypeOK
BY InitTyped, NextTyped, PTL DEF Spec

-----------------------------------------------------------------------------
\* What a step of a call does

\* Only the call of t moves.
OnlyMoves(t) == \A u \in Threads \ {t} :
                   task'[u] = task[u] /\ pc'[u] = pc[u] /\ influence'[u] = influence[u]

\* Threads share nothing but the cache and the clock (gateway.py handle).
LEMMA StepsAreLocal ==
    ASSUME TypeOK, NEW t \in Threads, Arrive(t) \/ Proceed(t)
    PROVE  OnlyMoves(t)
<1>1. /\ pc \in [Threads -> Places] /\ task \in [Threads -> Calls]
      /\ DOMAIN influence = Threads
  BY DEF TypeOK, CallsTypeOK, InfluenceTypeOK
<1>2. ASSUME NEW status, Report(t, status)
      PROVE  \A u \in Threads \ {t} : task'[u] = task[u] /\ pc'[u] = pc[u]
  BY <1>1, <1>2 DEF Report
<1>3. ASSUME NEW error, Raise(t, error)
      PROVE  \A u \in Threads \ {t} : task'[u] = task[u] /\ pc'[u] = pc[u]
  BY <1>1, <1>3 DEF Raise
<1>4. ASSUME NEW place, NEW outcome, NEW tainted, Continue(t, place, outcome, tainted)
      PROVE  \A u \in Threads \ {t} : task'[u] = task[u] /\ pc'[u] = pc[u]
  BY <1>1, <1>4 DEF Continue
<1>5. ASSUME NEW k, NEW approximate, Inherit(t, k, approximate)
      PROVE  \A u \in Threads \ {t} : influence'[u] = influence[u]
  BY <1>1, <1>5, Zenon DEF Inherit
<1>6. CASE Arrive(t)
  <2>1. PICK r \in Requests : Begin(t, r) \/ RefuseUnsortable(t, r) \/ RefuseRepeatedId(t, r)
    BY <1>6 DEF Arrive
  <2>2. \A u \in Threads \ {t} : influence'[u] = influence[u]
    BY <1>1, <2>1 DEF Begin, RefuseUnsortable, RefuseRepeatedId, Accept
  <2>3. \A u \in Threads \ {t} : task'[u] = task[u] /\ pc'[u] = pc[u]
    BY <1>1, <2>1 DEF Begin, RefuseUnsortable, RefuseRepeatedId
  <2>. QED
    BY <2>2, <2>3 DEF OnlyMoves
<1>7. CASE \/ PassUngoverned(t) \/ BypassUnenforceable(t) \/ LeaveUnobserved(t)
           \/ WithholdForbidden(t) \/ Decline(t) \/ Donate(t)
  BY <1>2, <1>7 DEF PassUngoverned, BypassUnenforceable, LeaveUnobserved, WithholdForbidden,
                    Decline, Donate, ReportComputed, OnlyMoves
<1>8. CASE RejectMalformed(t) \/ RejectUnenforceable(t) \/ EvictMissing(t)
  BY <1>3, <1>8 DEF RejectMalformed, RejectUnenforceable, EvictMissing, OnlyMoves
<1>9. CASE \/ SkipLookup(t) \/ ExactMiss(t) \/ ExactStale(t) \/ EvictExact(t)
           \/ DonorMiss(t) \/ DonorStale(t) \/ EvictDonor(t)
  BY <1>4, <1>9 DEF SkipLookup, ExactMiss, ExactStale, EvictExact, AfterExactMiss, DonorMiss,
                    DonorStale, EvictDonor, OnlyMoves
<1>10. CASE Store(t)
  BY <1>2, <1>4, <1>10 DEF Store, ReportComputed, OnlyMoves
<1>11. CASE ExactHit(t)
  BY <1>2, <1>5, <1>11 DEF ExactHit, OnlyMoves
<1>12. CASE DonorHit(t)
  BY <1>4, <1>5, <1>12 DEF DonorHit, OnlyMoves
<1>13. CASE Return(t)
  BY <1>1, <1>13 DEF Return, OnlyMoves
<1>. QED
  BY <1>6, <1>7, <1>8, <1>9, <1>10, <1>11, <1>12, <1>13 DEF Proceed

\* A call works for one request from its beginning to its end (gateway.py handle).
KeepsRequest(t) == /\ task'[t].request = task[t].request
                   /\ task'[t].id = task[t].id
                   /\ task'[t].now = task[t].now
                   /\ task'[t].order = task[t].order

\* At the head of the loop, a policy the backend cannot enforce is bypassed.
BypassesUnenforceable(t, outcome) ==
    (pc[t] = "walk" /\ ~Enforceable(Effective(t), Backend))
        => outcome = "bypass" /\ OnUnenforceable = "bypass"

\* The status says what policy the fragment is under, if any.
SaysPolicy(t, status) ==
    /\ AtFragment(t)
    /\ IF ConstraintsSoFar(t) = {} THEN status = Ungoverned
       ELSE \E outcome \in Outcomes, retention \in Retentions, exact \in BOOLEAN :
               /\ status = Governed(t, outcome, retention, exact)
               /\ BypassesUnenforceable(t, outcome)

GoesOn(t) == \E place \in Places \ {"idle", "walk"} :
                \E outcome, tainted : Continue(t, place, outcome, tainted)

\* A step of a call reports on the fragment it stands at, raises, goes on with
\* the same fragment, or returns (gateway.py handle).
LEMMA StepShapes ==
    ASSUME TypeOK, NEW t \in Threads, Proceed(t)
    PROVE  \/ \E status : Report(t, status) /\ SaysPolicy(t, status)
           \/ \E error \in Errors : Raise(t, error)
           \/ /\ GoesOn(t) /\ AtFragment(t) /\ ConstraintsSoFar(t) # {}
              /\ pc[t] = "walk" => Enforceable(Effective(t), Backend)
           \/ Return(t)
<1>. USE Located
<1>1. /\ task[t].tainted \in BOOLEAN
      /\ pc[t] \in {"store", "donate"} => task[t].outcome \in Outcomes
  BY DEF TypeOK, CallsTypeOK, InCall, Calls
<1>2. \A otherwise \in Retentions : RetentionIf(t, otherwise) \in Retentions
  BY DEF RetentionIf, Retentions
<1>3. CASE PassUngoverned(t)
  BY <1>3 DEF PassUngoverned, SaysPolicy
<1>4. CASE BypassUnenforceable(t)
  <2>1. Report(t, Governed(t, "bypass", RetentionIf(t, "declined"), TRUE))
        /\ AtFragment(t) /\ ConstraintsSoFar(t) # {} /\ BypassesUnenforceable(t, "bypass")
    BY <1>4 DEF BypassUnenforceable, BypassesUnenforceable
  <2>. QED
    BY <1>2, <2>1 DEF SaysPolicy, Outcomes, Retentions
<1>5. CASE LeaveUnobserved(t)
  <2>1. Report(t, Governed(t, "unobserved", RetentionIf(t, "unobserved"), ~task[t].tainted))
        /\ AtFragment(t) /\ ConstraintsSoFar(t) # {} /\ BypassesUnenforceable(t, "unobserved")
    BY <1>5 DEF LeaveUnobserved, Admitted, BypassesUnenforceable
  <2>. QED
    BY <1>1, <1>2, <2>1 DEF SaysPolicy, Outcomes, Retentions
<1>6. CASE ExactHit(t)
  <2>1. Report(t, Governed(t, "exact_hit", "retained", ~task[t].tainted))
        /\ AtFragment(t) /\ ConstraintsSoFar(t) # {} /\ BypassesUnenforceable(t, "exact_hit")
    BY <1>6 DEF ExactHit, LooksUp, Admitted, BypassesUnenforceable
  <2>. QED
    BY <1>1, <2>1 DEF SaysPolicy, Outcomes, Retentions
<1>7. ASSUME pc[t] \in {"store", "donate"}, NEW retention \in Retentions,
             ReportComputed(t, retention)
      PROVE  \E status : Report(t, status) /\ SaysPolicy(t, status)
  <2>1. /\ Report(t, Governed(t, task[t].outcome, retention, ~task[t].tainted))
        /\ AtFragment(t) /\ ConstraintsSoFar(t) # {}
        /\ BypassesUnenforceable(t, task[t].outcome)
    BY <1>7 DEF ReportComputed, BypassesUnenforceable
  <2>. QED
    BY <1>1, <1>7, <2>1 DEF SaysPolicy
<1>8. CASE WithholdForbidden(t) \/ Decline(t) \/ Donate(t)
  BY <1>7, <1>8 DEF WithholdForbidden, Decline, Donate, Retentions
<1>9. CASE Store(t)
  <2>1. CASE Fragment(t).approx_class = None
    BY <1>7, <1>9, <2>1 DEF Store, Retentions
  <2>2. CASE Fragment(t).approx_class # None
    <3>1. Continue(t, "donate", task[t].outcome, task[t].tainted) /\ "donate" \in Places
      BY <1>9, <2>2 DEF Store, Places
    <3>. QED
      BY <1>9, <3>1 DEF Store, GoesOn
  <2>. QED
    BY <2>1, <2>2
<1>10. CASE RejectMalformed(t) \/ RejectUnenforceable(t) \/ EvictMissing(t)
  BY <1>10 DEF RejectMalformed, RejectUnenforceable, EvictMissing, Errors
<1>11. CASE SkipLookup(t) \/ ExactMiss(t) \/ ExactStale(t)
  <2>1. AtFragment(t) /\ ConstraintsSoFar(t) # {} /\ Enforceable(Effective(t), Backend)
    BY <1>11 DEF SkipLookup, ExactMiss, ExactStale, LooksUp, Admitted
  <2>. QED
    BY <1>11, <2>1 DEF SkipLookup, ExactMiss, ExactStale, AfterExactMiss, GoesOn, Places
<1>12. CASE EvictExact(t) \/ DonorHit(t) \/ DonorMiss(t) \/ DonorStale(t) \/ EvictDonor(t)
  <2>1. AtFragment(t) /\ ConstraintsSoFar(t) # {} /\ pc[t] # "walk"
    BY <1>12 DEF EvictExact, DonorHit, DonorMiss, DonorStale, EvictDonor
  <2>. QED
    BY <1>12, <2>1 DEF EvictExact, DonorHit, DonorMiss, DonorStale, EvictDonor, AfterExactMiss,
                       GoesOn, Places
<1>. QED
  BY <1>3, <1>4, <1>5, <1>6, <1>8, <1>9, <1>10, <1>11, <1>12 DEF Proceed

\* Whatever the step, it is for the same request, in the same order (gateway.py
\* handle).
LEMMA RequestStays ==
    ASSUME TypeOK, NEW t \in Threads, Proceed(t)
    PROVE  KeepsRequest(t)
<1>1. task \in [Threads -> Calls]
  BY DEF TypeOK, CallsTypeOK
<1>2. ASSUME NEW status, Report(t, status) PROVE KeepsRequest(t)
  BY <1>1, <1>2 DEF Report, KeepsRequest, Calls
<1>3. ASSUME NEW error, Raise(t, error) PROVE KeepsRequest(t)
  BY <1>1, <1>3 DEF Raise, KeepsRequest, Calls
<1>4. ASSUME GoesOn(t) PROVE KeepsRequest(t)
  BY <1>1, <1>4 DEF GoesOn, Continue, KeepsRequest, Calls
<1>5. ASSUME Return(t) PROVE KeepsRequest(t)
  BY <1>5 DEF Return, KeepsRequest
<1>. QED
  BY <1>2, <1>3, <1>4, <1>5, StepShapes
=============================================================================
