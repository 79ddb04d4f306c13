------------------------------ MODULE MCProxy ------------------------------
(***************************************************************************)
(* Tokens, bodies and connections for the runs of Proxy.                   *)
(***************************************************************************)
EXTENDS ProxyProperties, TLC

Auth(tenant, principal, session) == [tenant |-> tenant, principal |-> principal, session |-> session]

\* The table of proxy.py and a colleague in the same tenant.
MCTokens == [c \in {"acme-key", "acme-bob-key", "other-key"} |->
               CASE c = "acme-key"     -> Auth("acme", "alice", "s-acme")
                 [] c = "acme-bob-key" -> Auth("acme", "bob", "s-acme")
                 [] c = "other-key"    -> Auth("other-corp", "bob", "s-other")]

Policy(mode, max_age, reuse, share_max, namespace) ==
    [mode |-> mode, max_age |-> max_age, reuse |-> reuse, share_max |-> share_max,
     namespace |-> namespace]

Item(content, intent) == [content |-> content, intent |-> intent, id |-> None,
                          reuse_within |-> None, part_intent |-> FALSE]
Bare(content) == Item(content, None)
Shared(content, share_max) == Item(content, Policy("allow", None, "exact", share_max, None))
Spaced(content, share_max, n) == Item(content, Policy("allow", None, "exact", share_max, n))
Aged(content) == Item(content, Policy("allow", 1, "exact", "tenant", None))
Warming(content) == Item(content, Policy("allow", None, "none", "tenant", None))
Similar(content) == Item(content, Policy("allow", None, "approximate", "tenant", None))
Forbidding(content) == Item(content, Policy("forbid", None, "exact", "tenant", None))
Named(item, id) == [item EXCEPT !.id = id]

Body(tools, messages) == [text |-> "json", tools |-> tools, messages |-> messages, cache_salt |-> None]
Chat(messages) == Body(<<>>, messages)

\* A body that names the salt of tenant acme.
AcmeSalt == [partition |-> PartitionFor("tenant", MCTokens["acme-key"], 1), namespaces |-> <<>>]
Salted(body) == [body EXCEPT !.cache_salt = AcmeSalt]

Post(token, body) == [method |-> "POST", path |-> "/v1/chat/completions", token |-> token, body |-> body]
Posts(tokens, bodies) == {Post(token, body) : token \in tokens, body \in bodies}
Get(path) == [method |-> "GET", path |-> path, token |-> None, body |-> None]

RequestsOf(connections) ==
    {RequestOf(c.body, MCTokens[c.token]) :
        c \in {d \in connections : d.token # None /\ d.body # None}}
BodiesOf(connections) == {c.body : c \in connections} \ {None}

-----------------------------------------------------------------------------
\* Whatever a connection can be, and requests that end in every way.
AnswerConnections ==
    Posts({"acme-key", "other-key"},
          {Body(<<Shared("tool:search", "public")>>, <<Shared("message:sys", "tenant"), Bare("message:ask")>>)})
    \cup Posts({"acme-key"},
          {Chat(<<Named(Shared("message:sys", "tenant"), "a"), Named(Shared("message:doc", "public"), "a")>>),
           Chat(<<Shared("message:sys", "principal"), Item("message:doc", Unsupported)>>),
           Chat(<<Item("message:sys", Malformed), Item("message:doc", Unsupported)>>),
           Chat(<<Item("message:sys", Unsupported), Item("message:doc", Malformed)>>),
           Chat(<<[Bare("message:ask") EXCEPT !.part_intent = TRUE]>>),
           [Chat(<<>>) EXCEPT !.text = "broken"],
           [Chat(<<>>) EXCEPT !.text = "undecodable"]})
    \cup {Post(None, Chat(<<Bare("message:ask")>>)), Get("/v1/chat/completions"),
          Get("/v1/cache_intent_capabilities"),
          [Get("/v1/cache_intent_capabilities") EXCEPT !.method = "POST"]}

\* Policies that narrow within a request, over inputs that others share.
BoundaryConnections ==
    Posts({"acme-key", "acme-bob-key"},
          {Chat(<<Shared("message:sys", "session"), Bare("message:doc")>>),
           Chat(<<Shared("message:sys", "public"), Shared("message:doc", "principal")>>)})

\* Requests that must be fresh between requests that share, a repetition of each.
FreshConnections ==
    Posts({"acme-key"},
          {Chat(<<Shared("message:sys", "tenant"), Aged("message:doc")>>),
           Chat(<<Shared("message:sys", "tenant"), Warming("message:doc")>>),
           Chat(<<Shared("message:sys", "tenant"), Forbidding("message:doc")>>),
           Chat(<<Shared("message:sys", "tenant"), Similar("message:doc")>>),
           Chat(<<Similar("message:sys"), Shared("message:doc", "tenant")>>),
           Chat(<<Shared("message:sys", "request"), Bare("message:doc")>>),
           Chat(<<Shared("message:sys", "tenant"), Bare("message:doc")>>),
           Chat(<<Bare("message:sys"), Bare("message:doc")>>)})

\* Namespaces in all places and orders over one input, and bodies that bring a
\* salt of their own.
SpaceConnections ==
    Posts({"acme-key"},
          {Chat(<<Spaced("message:sys", "tenant", a), Spaced("message:doc", "tenant", b)>>) :
              a, b \in {None, "n1", "n2"}}
          \cup {Chat(<<Bare("message:sys"), Spaced("message:doc", "tenant", "n1")>>),
                Salted(Chat(<<Bare("message:sys"), Bare("message:doc")>>)),
                Salted(Chat(<<Shared("message:sys", "public"), Bare("message:doc")>>))})
    \cup Posts({"other-key"}, {Salted(Chat(<<Bare("message:sys"), Bare("message:doc")>>)),
                               Chat(<<Shared("message:sys", "tenant"), Bare("message:doc")>>)})

ServedConnections ==
    AnswerConnections \cup BoundaryConnections \cup FreshConnections \cup SpaceConnections
ServedRequests == RequestsOf(ServedConnections)
ServedBodies == BodiesOf(ServedConnections)

\* Prefixes that grow and policies that narrow along three requests.
EngineConnections ==
    Posts({"acme-key", "other-key"},
          {Chat(<<Shared("message:sys", "public"), Shared("message:doc", "tenant")>>),
           Chat(<<Shared("message:sys", "tenant"), Bare("message:doc")>>)})
    \cup Posts({"acme-bob-key"},
          {Chat(<<Shared("message:sys", "tenant"), Bare("message:doc")>>),
           Chat(<<Bare("message:sys"), Shared("message:doc", "principal")>>)})
EngineRequests == RequestsOf(EngineConnections)
EngineBodies == BodiesOf(EngineConnections)

\* Fragments without an id beside one that names itself as they would be named.
OddConnections ==
    Posts({"acme-key"},
          {Chat(<<Bare("message:sys"), Named(Shared("message:doc", "tenant"), "message[0]")>>),
           Chat(<<Named(Shared("message:sys", "tenant"), "a"), Named(Shared("message:doc", "tenant"), "a")>>),
           Chat(<<Bare("message:sys"), Named(Shared("message:doc", "tenant"), "b")>>)})
OddRequests == RequestsOf(OddConnections)
OddBodies == BodiesOf(OddConnections)
=============================================================================
