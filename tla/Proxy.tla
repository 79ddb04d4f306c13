------------------------------- MODULE Proxy -------------------------------
(***************************************************************************)
(* The HTTP proxy (proxy.py): handler threads that each serve one          *)
(* connection, authenticate it, run prepare over the shared gateway, wait  *)
(* for the engine and answer.  It composes Binding, which says what        *)
(* prepare makes of a body, Gateway, whose actions are the steps of the    *)
(* handle call inside prepare, and Engine, which works on its own.         *)
(***************************************************************************)
EXTENDS Binding, Engine

CONSTANTS Tokens,       \* bearer token -> AuthContext, the TOKENS table
          Connections   \* the HTTP requests clients may send

ASSUME TokensAssumption == Tokens \in [DOMAIN Tokens -> AuthContext]
ASSUME ConnectionsAssumption ==
    /\ None \notin Connections
    /\ Connections \subseteq [method : {"GET", "POST"},
                              path : {"/v1/chat/completions", "/v1/cache_intent_capabilities"},
                              token : DOMAIN Tokens \cup {None}, body : Bodies \cup {None}]

VARIABLES stage,   \* where in do_GET or do_POST each handler thread is
          conn,    \* the connection each thread serves or served last
          reply    \* what the client of that connection was answered

proxyVars == <<stage, conn, reply>>
allVars == <<vars, engineVars, proxyVars>>

Answered(code, error, cache_status) == [code |-> code, error |-> error, cache_status |-> cache_status]
NoReply == Answered(None, None, <<>>)

-----------------------------------------------------------------------------
\* A connection is taken by a free thread

\* The thread answers c at once, without touching the gateway.
Dismiss(t, c, answer) == /\ stage[t] = "free"
                         /\ conn' = [conn EXCEPT ![t] = c]
                         /\ reply' = [reply EXCEPT ![t] = answer]
                         /\ UNCHANGED <<vars, engineVars, stage>>

\* do_GET
Describe(t, c) == /\ c.method = "GET"
                  /\ c.path = "/v1/cache_intent_capabilities"
                  /\ Dismiss(t, c, Answered(200, None, <<>>))

NotFound(t, c) == /\ \/ c.method = "GET" /\ c.path # "/v1/cache_intent_capabilities"
                     \/ c.method = "POST" /\ c.path # "/v1/chat/completions"
                  /\ Dismiss(t, c, Answered(404, "not_found", <<>>))

Completion(c) == c.method = "POST" /\ c.path = "/v1/chat/completions"

Unauthorized(t, c) == /\ Completion(c)
                      /\ c.token = None
                      /\ Dismiss(t, c, Answered(401, "unauthorized", <<>>))

Authorized(c) == Completion(c) /\ c.token # None

\* Such a connection has a body, if an empty one, and the requests of the gateway are
\* at least what these bodies become.
ASSUME OpenedAssumption ==
    \A c \in Connections : Authorized(c) =>
        /\ c.body \in Bodies
        /\ c.body.text = "json" /\ ~Rejected(c.body)
              => RequestOf(c.body, Tokens[c.token]) \in Requests

\* decode raises out of do_POST.
ChokeOnBody(t, c) == /\ Authorized(c)
                     /\ c.body.text = "undecodable"
                     /\ Dismiss(t, c, NoReply)

RejectBody(t, c) == /\ Authorized(c)
                    /\ c.body.text # "undecodable"
                    /\ Rejected(c.body)
                    /\ Dismiss(t, c, Answered(400, "cache_intent_invalid", <<>>))

\* prepare calls handle, which begins or finds an id used twice.
Open(t, c) == /\ stage[t] = "free"
              /\ Authorized(c)
              /\ c.body.text = "json"
              /\ ~Rejected(c.body)
              /\ LET r == RequestOf(c.body, Tokens[c.token])
                 IN  Begin(t, r) \/ RefuseRepeatedId(t, r)
              /\ stage' = [stage EXCEPT ![t] = "preparing"]
              /\ conn' = [conn EXCEPT ![t] = c]
              /\ reply' = [reply EXCEPT ![t] = NoReply]
              /\ UNCHANGED engineVars

Connect(t) == \E c \in Connections : \/ Describe(t, c) \/ NotFound(t, c) \/ Unauthorized(t, c)
                                     \/ ChokeOnBody(t, c) \/ RejectBody(t, c) \/ Open(t, c)

-----------------------------------------------------------------------------
\* prepare, over the gateway

Walk(t) == /\ stage[t] = "preparing"
           /\ Proceed(t)
           /\ UNCHANGED <<engineVars, proxyVars>>

\* do_POST returns, or raises, and the client has what it was sent.
Close(t, answer) == /\ stage' = [stage EXCEPT ![t] = "free"]
                    /\ reply' = [reply EXCEPT ![t] = answer]
                    /\ UNCHANGED <<vars, conn>>

Fail(t) == /\ stage[t] = "preparing"
           /\ pc[t] = "idle"
           /\ task[t].error # None
           /\ Close(t, Answered(400, ErrorCode(t, conn[t].body), <<>>))
           /\ UNCHANGED engineVars

Prepared(t) == stage[t] = "preparing" /\ pc[t] = "idle" /\ task[t].error = None

-----------------------------------------------------------------------------
\* The upstream call

\* History: what the input of the request of t up to fragment i answers to.
PrefixSources(t, i) ==
    [constraints : {task[t].order[j].intent : j \in 1..i} \ {None},
     auth : {task[t].request.auth}, request : {task[t].id}, at : {task[t].now}]

Forward(t) ==
    /\ Prepared(t)
    /\ Submit(task[t].id, UpstreamSalt(t, conn[t].body),
              [i \in DOMAIN task[t].order |-> task[t].order[i].content],
              [i \in DOMAIN task[t].order |-> PrefixSources(t, i)],
              [auth |-> task[t].request.auth, request |-> task[t].id, now |-> task[t].now])
    /\ stage' = [stage EXCEPT ![t] = "waiting"]
    /\ UNCHANGED <<vars, conn, reply>>

\* The connection to the engine cannot be made: URLError.
Unreachable(t) == /\ Prepared(t)
                  /\ Close(t, Answered(502, "upstream_unreachable", <<>>))
                  /\ UNCHANGED engineVars

\* The engine has answered with what it computed.
Answer(t) == /\ stage[t] = "waiting"
             /\ ~Unfinished(task[t].id)
             /\ Close(t, Answered(200, None, CacheStatus(t, conn[t].body)))
             /\ UNCHANGED engineVars

\* The engine gives the job up with an error status, which is relayed.
Relay(t) == /\ stage[t] = "waiting"
            /\ Abandon(task[t].id)
            /\ Close(t, Answered(500, "upstream", <<>>))

\* Mutant: a wait for the answer does not end by itself.
LoseWhenAnswered(t) == /\ stage[t] = "waiting"
                       /\ ~Unfinished(task[t].id)
                       /\ Close(t, NoReply)
                       /\ UNCHANGED engineVars

\* Mutant: a call that timed out is made again.
LoseAndRetry(t) == /\ stage[t] = "waiting"
                   /\ stage' = [stage EXCEPT ![t] = "preparing"]
                   /\ UNCHANGED <<vars, engineVars, conn, reply>>

\* A read from the connection times out, the answer breaks off or is no JSON: the
\* exception leaves do_POST.  The engine may still be at work.  The timeout is one of
\* each read and not of the call; Upstream says when it can strike.
Lose(t) == /\ stage[t] = "waiting"
           /\ Close(t, NoReply)
           /\ UNCHANGED engineVars

-----------------------------------------------------------------------------
\* What a handler thread does.
Handle(t) == Walk(t) \/ Fail(t) \/ Forward(t) \/ Unreachable(t) \/ Answer(t) \/ Lose(t)

Resting == /\ served = MaxRequests
           /\ \A t \in Threads : stage[t] = "free"
           /\ UNCHANGED allVars

ProxyInit == /\ Init
             /\ EngineInit
             /\ stage = [t \in Threads |-> "free"]
             /\ conn = [t \in Threads |-> None]
             /\ reply = [t \in Threads |-> NoReply]

\* What goes on without the handler threads: the engine works, and time passes.
Elsewhere == \/ EngineNext /\ UNCHANGED vars
             \/ Tick /\ UNCHANGED engineVars

ProxyNext == \/ \E t \in Threads : Connect(t) \/ Handle(t) \/ Relay(t)
             \/ Elsewhere /\ UNCHANGED proxyVars
             \/ Resting

ProxySpec == ProxyInit /\ [][ProxyNext]_allVars

ProxyTypeOK ==
    /\ TypeOK
    /\ EngineTypeOK
    /\ stage \in [Threads -> {"free", "preparing", "waiting"}]
    /\ conn \in [Threads -> Connections \cup {None}]
    /\ \A t \in Threads :
          /\ stage[t] # "free" => conn[t] \in Connections /\ Authorized(conn[t])
          /\ stage[t] = "waiting" => task[t].id \in DOMAIN jobs
          /\ reply[t].code = 400 => reply[t].error \in ErrorCodes
          /\ Len(reply[t].cache_status) \in {0, Len(task[t].order)}
=============================================================================
