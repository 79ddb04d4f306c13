--------------------------- MODULE ProxyProperties ---------------------------
(***************************************************************************)
(* What the proxy owes its clients: that the engine, which knows of no     *)
(* policy, shares state only as the contributors allow, and that the       *)
(* answer says what was done.                                              *)
(***************************************************************************)
EXTENDS Proxy

-----------------------------------------------------------------------------
\* What the engine does with salts

\* The contributors of the whole request j.
JobSources(j) == UNION {jobs[j].owns[i] : i \in DOMAIN jobs[j].owns}

\* What each block answers to, and for each request its reader and what it drew on.
BlocksFor == [k \in DOMAIN blocks |-> [own |-> blocks[k].own, inherited |-> blocks[k].inherited]]
JobReader == [j \in 1..MaxRequests |-> IF j \in DOMAIN jobs THEN jobs[j].reader ELSE None]
DrawnByJob == [j \in 1..MaxRequests |-> IF j \in DOMAIN jobs THEN jobs[j].drawn ELSE {}]

\* Requests through the engine implement what RetainedState promises: each
\* block is found only by requests that all its contributors admit, those of the
\* blocks it was computed from included, although the engine compares nothing
\* but salts (binding_openai.py _lower_request_salt, vllm_backend.py salt_for).
EnginePromise == INSTANCE RetainedState WITH
    Callers  <- 1..MaxRequests,
    Readers  <- [auth : {Tokens[c] : c \in DOMAIN Tokens}, request : 1..MaxRequests, now : 0..MaxTime],
    retained <- BlocksFor, reader <- JobReader, drawn <- DrawnByJob

EngineKeepsPromise == EnginePromise!Spec

\* Some contributor asks for fresh computation, or some prefix is one the
\* backend cannot serve.
MustBeFresh(j) ==
    \/ \E s \in JobSources(j) : \/ s.constraints.mode = "forbid"
                               \/ s.constraints.reuse = "none"
                               \/ s.constraints.share_max = "request"
    \/ \E i \in DOMAIN jobs[j].owns :
          /\ jobs[j].owns[i] # {}
          /\ ~Enforceable(Compose({s.constraints : s \in jobs[j].owns[i]}), Backend)

\* Such a request finds nothing in the engine, in none of its fragments, and
\* nothing it leaves there is found by another, a repetition of it included
\* (binding_openai.py _lower_request_salt, must_bypass).
BypassIsFresh ==
    \A j \in DOMAIN jobs : MustBeFresh(j) =>
        jobs[j].reused = {} /\ \A other \in DOMAIN jobs : j \notin jobs[other].reused

\* The namespaces of a request and the order they come up in.
NamespaceChain(j) ==
    {{s.constraints.namespace : s \in jobs[j].owns[i]} \ {None} : i \in DOMAIN jobs[j].owns}
        \ {{}}

\* The engine shares blocks only between requests with the same namespaces in
\* the same order (binding_openai.py _lower_request_salt, namespace).
ReuseWithinRequestNamespaces ==
    \A j \in DOMAIN jobs : \A donor \in jobs[j].reused : NamespaceChain(donor) = NamespaceChain(j)

\* Requests without any policy share blocks only among themselves: whatever a
\* body says of cache_salt, they do not reach the state of a governed request,
\* nor a governed one theirs (binding_openai.py strip_binding_members, prepare).
GovernedKeptApart ==
    \A j \in DOMAIN jobs : \A donor \in jobs[j].reused : JobSources(donor) = {} <=> JobSources(j) = {}

-----------------------------------------------------------------------------
\* What clients are answered

\* Thread t has ended a connection that got as far as prepare.
Served(t) == /\ stage[t] = "free"
             /\ conn[t] # None
             /\ Authorized(conn[t])
             /\ conn[t].body.text = "json"
             /\ ~Rejected(conn[t].body)

Completed(t) == Served(t) /\ reply[t].code = 200

ItemsAt(t) == ItemsOf(conn[t].body)
HasPolicyAt(t, i) == \E j \in 1..i : ItemsAt(t)[j].intent # None

\* The requests that could meet this one in the engine.
OtherRequests(j) ==
    [auth : {Tokens[c] : c \in DOMAIN Tokens}, request : (1..MaxRequests) \ {j}]

\* Some policy leads the request of that reader to the partition of j's salt.
Reaches(reader, j) ==
    \E share_max \in Scopes :
        PartitionFor(share_max, reader.auth, reader.request) = jobs[j].salt.partition

WithinShare(share_max, reader, j) ==
    InBoundary([constraints |-> [share_max |-> share_max], auth |-> jobs[j].reader.auth,
                request |-> j], reader)

\* The effective_share a client reads for a governed fragment is the boundary
\* the engine really draws, no wider and no narrower: another request can come
\* by the same salt exactly if it is inside (binding_openai.py
\* _lower_request_salt, "the boundary actually used").
StatusBoundaryIsActual ==
    \A t \in Threads : Completed(t) =>
        \A i \in DOMAIN reply[t].cache_status : HasPolicyAt(t, i) =>
            /\ jobs[task[t].id].salt # None
            /\ \A reader \in OtherRequests(task[t].id) :
                  Reaches(reader, task[t].id)
                      <=> WithinShare(reply[t].cache_status[i].effective_share, reader, task[t].id)

\* The first element whose intent does not parse.
Defects(b) == {i \in DOMAIN ItemsOf(b) : ItemsOf(b)[i].intent \in {Malformed, Unsupported}}
FirstDefect(b, kind) == Defects(b) # {} /\ ItemsOf(b)[Min(Defects(b))].intent = kind

\* Over a backend that loses no race, the code of a refusal is the one of a defect the
\* body has, whichever except clause the error ends in: a body with several defects is
\* refused for the first the walk comes to, and repeated ids or what the backend cannot
\* enforce are never said of a body that has none (binding_openai.py prepare).
CodeTellsDefect ==
    \A t \in Threads : stage[t] = "free" /\ reply[t].code = 400 =>
        LET b == conn[t].body
        IN  \/ /\ reply[t].error = "cache_intent_invalid"
               /\ Rejected(b) \/ FirstDefect(b, Malformed)
            \/ /\ reply[t].error = "cache_intent_unsupported_version"
               /\ ~Rejected(b) /\ FirstDefect(b, Unsupported)
            \/ /\ reply[t].error = "cache_intent_unenforceable"
               /\ ~Rejected(b)
               /\ \/ RepeatsId(RequestOf(b, Tokens[conn[t].token]))
                  \/ OnUnenforceable = "reject"

\* The capability object permits this constraint.
Advertised(c) == /\ c.mode \in CapabilitiesDocument.retention_modes
                 /\ c.max_age # None => CapabilitiesDocument.retention_max_age
                 /\ c.reuse \in CapabilitiesDocument.reuse
                 /\ c.share_max \in CapabilitiesDocument.share_max

AsksToShare(c) == c.mode = "allow" /\ c.reuse # "none" /\ c.share_max # "request"

KeepsToAdvertised(intent) ==
    \/ intent = None
    \/ intent \notin {Malformed, Unsupported} /\ Advertised(intent) /\ AsksToShare(intent)

\* A client that keeps to what the capability object advertises and asks for
\* sharing is neither rejected nor bypassed, whatever its constraints compose to
\* (binding_openai.py capabilities_document, gateway.py _check_enforceable).
AdvertisedIsServed ==
    \A t \in Threads :
        (/\ Served(t)
         /\ ~RepeatsId(RequestOf(conn[t].body, Tokens[conn[t].token]))
         /\ \A i \in DOMAIN ItemsAt(t) : KeepsToAdvertised(ItemsAt(t)[i].intent))
        => /\ reply[t].code # 400
           /\ \A i \in DOMAIN reply[t].cache_status :
                 HasPolicyAt(t, i) => reply[t].cache_status[i].outcome # "bypass"

\* The steps a handler thread has left at most: those of the call inside prepare, then
\* forwarding and answering.
TurnsLeft(t) == CASE stage[t] = "free"      -> 0
                  [] stage[t] = "waiting"   -> 1
                  [] stage[t] = "preparing" -> StepsLeft(t) + 2

\* Whatever happens between two steps of a handler thread, clients, other threads, the
\* clock and the engine included, never adds to the work it has left, and each of its
\* steps but waiting on does away with some: nothing is tried twice (proxy.py do_POST,
\* gateway.py handle).
ConnectionsCountDown ==
    [][\A t \in Threads : stage[t] # "free" =>
          \/ stage'[t] = stage[t] /\ pc'[t] = pc[t] /\ task'[t] = task[t]
          \/ TurnsLeft(t)' \in 0..(TurnsLeft(t) - 1)]_allVars

\* A request fails for a repeated id only if two of its fragments declared the
\* same id (errors.py DuplicateFragmentId).
DuplicatesAreDeclared ==
    \A t \in Threads :
        (Served(t) /\ task[t].error = "DuplicateFragmentId") =>
            \E i, j \in DOMAIN ItemsAt(t) :
                i # j /\ ItemsAt(t)[i].id # None /\ ItemsAt(t)[i].id = ItemsAt(t)[j].id
=============================================================================
