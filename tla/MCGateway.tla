----------------------------- MODULE MCGateway -----------------------------
(***************************************************************************)
(* Callers, fragments and requests for the runs of Gateway.                *)
(***************************************************************************)
EXTENDS GatewayProperties, TLC

Auth(tenant, principal, session) == [tenant |-> tenant, principal |-> principal, session |-> session]

\* Two sessions of one principal, another principal of the tenant, and another
\* tenant that uses the same principal and session names.
Alice1 == Auth("acme", "alice", "s1")
Alice2 == Auth("acme", "alice", "s2")
Bob    == Auth("acme", "bob", "s1")
Other  == Auth("other", "alice", "s1")

Policy(mode, max_age, reuse, share_max) ==
    [mode |-> mode, max_age |-> max_age, reuse |-> reuse, share_max |-> share_max, namespace |-> None]

Frag(content, intent) == [id |-> None, content |-> content, intent |-> intent, approx_class |-> None]

Bare(content) == Frag(content, None)
Shared(content, share_max) == Frag(content, Policy("allow", None, "exact", share_max))
InNamespace(f, namespace) == [f EXCEPT !.intent.namespace = namespace]
Aged(content, max_age) == Frag(content, Policy("allow", max_age, "exact", "tenant"))
Similar(content, max_age) ==
    [Frag(content, Policy("allow", max_age, "approximate", "tenant")) EXCEPT !.approx_class = "faq"]
Warming(content, max_age) == Frag(content, Policy("allow", max_age, "none", "tenant"))
Forbidding(content) == Frag(content, Policy("forbid", None, "exact", "tenant"))
Broken(content) == Frag(content, Malformed)
Named(f, id) == [f EXCEPT !.id = id]

Requested(auths, shapes, declared) ==
    [auth : auths, fragments : shapes, equivalence_declared : declared]

\* Composition: every two of the constraints whose max_age is absent, 0 or 5, with a
\* fragment that inherits from both, and every three that differ in one member or in
\* mode and max_age, which the schema admits only beside "allow".
Lifetimes == {<<"allow", None>>, <<"allow", 0>>, <<"allow", 5>>, <<"forbid", None>>}
Supplied(l, reuse, share_max) == Frag("doc", Policy(l[1], l[2], reuse, share_max))
EverySupplied == {Supplied(l, r, s) : l \in Lifetimes, r \in ReuseLevels, s \in Scopes}
Triples(fs) == {<<a, b, c>> : a, b, c \in fs}
CompositionShapes ==
    {<<a, b, Bare("ask")>> : a, b \in EverySupplied}
    \cup Triples({Supplied(l, "exact", "tenant") : l \in Lifetimes})
    \cup Triples({Supplied(<<"allow", None>>, r, "tenant") : r \in ReuseLevels})
    \cup Triples({Supplied(<<"allow", None>>, "exact", s) : s \in Scopes})
CompositionRequests == Requested({Alice1}, CompositionShapes, {FALSE})

\* Boundaries: every pair of scopes over one prefix, inherited by bare
\* fragments and by namespaced ones.
BoundaryShapes ==
    {<<Shared("sys", a), Shared("doc", b)>> : a, b \in Scopes}
    \cup {<<Bare("sys"), Shared("doc", "tenant"), Bare("ask")>>,
          <<Warming("sys", None), Bare("doc")>>,
          <<Shared("sys", "tenant"), InNamespace(Shared("doc", "public"), "n1")>>,
          <<InNamespace(Shared("sys", "tenant"), "n1"), Bare("doc")>>}
BoundaryRequests == Requested({Alice1, Alice2, Bob, Other}, BoundaryShapes, {FALSE})

\* Similarity classes shared across namespaces and boundaries.
DonorShapes ==
    {<<InNamespace(Similar("q1", None), n), Shared("doc", b)>> : n \in {None, "n1"}, b \in {"public", "session"}}
    \cup {<<Similar("q2", None), Shared("doc", "tenant")>>,
          <<Shared("sys", "principal"), Similar("q2", None)>>,
          <<InNamespace(Shared("sys", "tenant"), "n2"), InNamespace(Similar("q2", None), "n1")>>}
DonorRequests == Requested({Alice1, Bob}, DonorShapes, {FALSE})

\* Refusals, and orders planned under a declared equivalence.
RefusalShapes ==
    {<<Shared("doc", "session"), Bare("ask"), Shared("sys", "public")>>,
     <<Shared("doc", "tenant"), Shared("sys", "public"), Shared("q1", "tenant")>>,
     <<Shared("sys", "tenant"), Broken("doc")>>,
     <<Named(Shared("sys", "tenant"), "a"), Named(Shared("doc", "public"), "a")>>}
RefusalRequests == Requested({Alice1, Bob}, RefusalShapes, BOOLEAN)

\* Keys with deadlines at 0, 1 or never, met before, at and after them, beside keys of the
\* same call that have another one.
AgedShapes == {<<Aged("doc", 1), Similar("q1", 0)>>, <<Aged("doc", 0), Bare("ask")>>,
               <<Similar("q1", 1), Aged("doc", 5)>>, <<Shared("doc", "tenant"), Aged("ask", 1)>>}
AgedRequests == Requested({Alice1}, AgedShapes, {FALSE})

\* One call at a time: boundaries, donors, refusals and deadlines.
SequentialRequests == BoundaryRequests \cup DonorRequests \cup RefusalRequests \cup AgedRequests

\* Donors that expire, for one caller.
LifetimeShapes == {<<Similar("q1", 1), Aged("doc", None)>>, <<Similar("q2", 2), Aged("doc", None)>>}
LifetimeRequests == Requested({Alice1}, LifetimeShapes, {FALSE})

\* Engines that cannot bound lifetimes: unenforceable prefixes before, between and
\* after enforceable ones.
SaltShapes ==
    {<<Shared("sys", "tenant"), Aged("doc", 1)>>,
     <<Aged("sys", 1), Forbidding("doc")>>,
     <<Aged("sys", 1), Shared("doc", "tenant"), Bare("ask")>>,
     <<Similar("sys", None), Shared("doc", "public"), Bare("ask")>>,
     <<Similar("sys", 2), Warming("doc", None)>>,
     <<Shared("sys", "tenant"), Shared("doc", "principal"), Bare("ask")>>,
     <<Shared("sys", "tenant"), Broken("doc")>>}
\* A gateway that rejects: state stored before the fragment a request fails at.
RejectedShapes ==
    {<<Shared("sys", "principal"), Shared("doc", "public"), Aged("ask", 1)>>,
     <<Shared("sys", "tenant"), Similar("doc", None)>>,
     <<Shared("sys", "public"), Shared("doc", "public"), Forbidding("ask")>>,
     <<Shared("sys", "tenant"), Shared("doc", "session"), Broken("ask")>>}
RejectedRequests ==
    Requested({Alice1, Bob}, SaltShapes \cup RejectedShapes, {FALSE})
    \cup Requested({Alice2, Other}, RejectedShapes, {FALSE})

\* Threads: calls over the same few keys, with deadlines that compose to the
\* smaller one, a bound of zero, and retention forbidden late in the prefix.
ThreadShapes ==
    {<<Shared("sys", "session"), Aged("doc", 1)>>,
     <<Similar("q1", 1), Aged("doc", None)>>,
     <<Similar("q2", None)>>}
ThreadRequests ==
    Requested({Alice1, Bob}, ThreadShapes, {FALSE})
    \cup Requested({Alice1}, {<<Aged("q1", 1), Forbidding("doc")>>, <<Aged("doc", 0)>>}, {FALSE})
ThreadSymmetry == Permutations(Threads)

=============================================================================
