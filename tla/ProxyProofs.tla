---------------------------- MODULE ProxyProofs ----------------------------
(***************************************************************************)
(* The proxy over the gateway and the engine, for every set of threads,    *)
(* connections and requests, every backend and any bounds.  The proxy      *)
(* takes the gateway's own steps, so what is proved of the gateway holds   *)
(* behind it; what the engine shares is decided by the salts it is sent.   *)
(***************************************************************************)
EXTENDS Upstream, StoreProofs, PromiseProofs

\* The connection gets as far as handle.
Opened(c) == Authorized(c) /\ c.body.text = "json" /\ ~Rejected(c.body)

RequestBehind(c) == RequestOf(c.body, Tokens[c.token])

\* Everything the proxy does is a step of the gateway or leaves it alone (proxy.py
\* do_POST, binding_openai.py prepare).
LEMMA StepsTheGateway == [ProxyNext]_allVars => [Next]_vars
<1>. SUFFICES ASSUME [ProxyNext]_allVars PROVE [Next]_vars
  OBVIOUS
<1>1. ASSUME NEW t \in Threads, NEW c \in Connections, Open(t, c) PROVE Next
  <2>1. RequestBehind(c) \in Requests
    BY <1>1, OpenedAssumption DEF Open, RequestBehind
  <2>. QED
    BY <1>1, <2>1 DEF Open, RequestBehind, Arrive, Next
<1>2. ASSUME NEW t \in Threads, Connect(t) PROVE [Next]_vars
  BY <1>1, <1>2 DEF Connect, Describe, NotFound, Unauthorized, ChokeOnBody, RejectBody, Dismiss
<1>3. ASSUME NEW t \in Threads, Handle(t) \/ Relay(t) PROVE [Next]_vars
  BY <1>3 DEF Handle, Walk, Fail, Forward, Unreachable, Answer, Lose, Relay, Close, Next
<1>4. CASE Tick
  BY <1>4 DEF Next
<1>5. CASE UNCHANGED vars
  BY <1>5
<1>. QED
  BY <1>2, <1>3, <1>4, <1>5 DEF ProxyNext, Elsewhere, Resting, allVars

\* The gateway behind the proxy is the gateway: every property proved of Spec holds of
\* the proxy (proxy.py do_POST, binding_openai.py prepare).
THEOREM RunsTheGateway == ProxySpec => Spec
<1>1. ProxyInit => Init
  BY DEF ProxyInit
<1>. QED
  BY <1>1, StepsTheGateway, PTL DEF ProxySpec, Spec

\* That an engine may send its answer piece by piece adds no step to the proxy: every
\* property proved of ProxySpec holds however long it keeps a handler thread
\* waiting (proxy.py do_POST, response.read).
THEOREM WaitingRunsTheProxy == UpstreamSpec => ProxySpec
<1>1. UpstreamInit => ProxyInit
  BY DEF UpstreamInit
<1>2. [UpstreamNext]_upstreamVars => [ProxyNext]_allVars
  BY DEF UpstreamNext, upstreamVars, Exchange, Trickle, Receive
<1>. QED
  BY <1>1, <1>2, PTL DEF UpstreamSpec, ProxySpec

-----------------------------------------------------------------------------
\* The gateway's invariants that the proxy builds on

GatewayInv == PlanInv /\ Numbered /\ WithinBounds

\* At the start no call is numbered and the cache is empty (gateway.py __init__).
LEMMA InitGateway == Init => GatewayInv
<1>. SUFFICES ASSUME Init PROVE GatewayInv
  OBVIOUS
<1>1. \A t \in Threads : task[t] = NoCall
  BY DEF Init
<1>2. served = 0 /\ clock = 0 /\ DOMAIN entries = {}
  BY DEF Init, EntriesInit
<1>3. PlanInv
  BY InitPlans
<1>4. Numbered
  BY <1>1, <1>2 DEF Numbered, NoCall
<1>5. WithinBounds
  BY <1>1, <1>2, BoundsAssumption DEF WithinBounds, NoCall
<1>. QED
  BY <1>3, <1>4, <1>5 DEF GatewayInv

\* A step of the gateway plans, numbers and bounds its calls (gateway.py handle).
LEMMA NextGateway == GatewayInv /\ [Next]_vars => GatewayInv'
BY NextPlans, NextNumbers, NextKeepsBounds DEF GatewayInv, PlanInv, WalkInv

-----------------------------------------------------------------------------
\* The engine

Jobs == [salt : Salts \cup {None}, contents : Seq(STRING), owns : Seq(SUBSET Sources),
         reader : [auth : AuthContext, request : Nat, now : Nat], pos : Nat \ {0},
         hitting : BOOLEAN, drawn : SUBSET Sources, reused : SUBSET Nat]

JobsTyped == jobs \in [DOMAIN jobs -> Jobs] /\ DOMAIN jobs \subseteq 1..served

BlocksTyped == \A k \in DOMAIN blocks : blocks[k].by \in DOMAIN jobs

EngineInv == EngineTypeOK /\ JobsTyped /\ BlocksTyped

\* What the proxy sent of a job is never changed by the engine.
SameOrder(x, y) == /\ x.salt = y.salt /\ x.contents = y.contents
                   /\ x.owns = y.owns /\ x.reader = y.reader

\* The engine's own steps.
Works == EngineNext \/ \E j \in DOMAIN jobs : Abandon(j)

\* The engine works on jobs and makes none (vllm_backend.py chat).
LEMMA EngineWorksOnJobs ==
    ASSUME JobsTyped, Works
    PROVE  /\ DOMAIN jobs' = DOMAIN jobs
           /\ \A j \in DOMAIN jobs : SameOrder(jobs'[j], jobs[j])
<1>1. ASSUME NEW j \in DOMAIN jobs, ReuseBlock(j) \/ ComputeBlock(j) \/ Abandon(j),
             NEW i \in DOMAIN jobs
      PROVE  DOMAIN jobs' = DOMAIN jobs /\ SameOrder(jobs'[i], jobs[i])
  <2>1. /\ jobs[i] \in Jobs
        /\ DOMAIN jobs[i] = {"salt", "contents", "owns", "reader", "pos", "hitting", "drawn", "reused"}
    BY DEF JobsTyped, Jobs
  <2>. QED
    BY <1>1, <2>1 DEF ReuseBlock, ComputeBlock, Abandon, SameOrder
<1>2. ASSUME NEW k, EvictBlock(k) PROVE jobs' = jobs
  BY <1>2 DEF EvictBlock
<1>3. jobs = [j \in DOMAIN jobs |-> jobs[j]]
  BY DEF JobsTyped
<1>. QED
  BY <1>1, <1>2, <1>3 DEF Works, EngineNext, SameOrder

\* A job that is worked on reads and writes at its own place (vllm_backend.py chat).
LEMMA JobTypes ==
    ASSUME EngineInv, NEW j \in DOMAIN jobs
    PROVE  /\ jobs[j] \in Jobs
           /\ j \in Nat
           /\ Len(jobs[j].contents) \in Nat
           /\ Unfinished(j) => /\ jobs[j].pos \in 1..Len(jobs[j].contents)
                               /\ jobs[j].owns[jobs[j].pos] \in SUBSET Sources
                               /\ JobKey(j) \in BlockKeys
<1>1. /\ jobs[j] \in Jobs /\ Len(jobs[j].owns) = Len(jobs[j].contents)
      /\ jobs[j].pos \in Nat \ {0} /\ j \in Nat
  BY DEF EngineInv, EngineTypeOK, JobsTyped, Jobs
<1>2. /\ jobs[j].contents \in Seq(STRING) /\ jobs[j].owns \in Seq(SUBSET Sources)
      /\ jobs[j].salt \in Salts \cup {None}
  BY <1>1 DEF Jobs
<1>3. Len(jobs[j].contents) \in Nat
  BY <1>2
<1>4. ASSUME Unfinished(j)
      PROVE  /\ jobs[j].pos \in 1..Len(jobs[j].contents)
             /\ jobs[j].owns[jobs[j].pos] \in SUBSET Sources
             /\ JobKey(j) \in BlockKeys
  <2>1. jobs[j].pos \in 1..Len(jobs[j].contents)
    BY <1>1, <1>3, <1>4 DEF Unfinished
  <2>2. SubSeq(jobs[j].contents, 1, jobs[j].pos) \in Seq(STRING)
    BY <1>2, <1>3, <2>1
  <2>. QED
    BY <1>1, <1>2, <2>1, <2>2 DEF JobKey, BlockKeys
<1>. QED
  BY <1>1, <1>3, <1>4

\* The engine leaves its state typed, whatever it does (vllm_backend.py chat).
LEMMA EngineStaysTyped ==
    ASSUME EngineInv, Works, UNCHANGED served
    PROVE  EngineInv'
<1>1. /\ DOMAIN jobs' = DOMAIN jobs
      /\ \A j \in DOMAIN jobs : SameOrder(jobs'[j], jobs[j])
  BY EngineWorksOnJobs DEF EngineInv
<1>2. /\ \A k \in DOMAIN blocks : k \in BlockKeys /\ blocks[k] \in Blocks /\ blocks[k].by \in DOMAIN jobs
      /\ blocks = [k \in DOMAIN blocks |-> blocks[k]]
      /\ jobs = [j \in DOMAIN jobs |-> jobs[j]]
  BY DEF EngineInv, EngineTypeOK, BlocksTyped, JobsTyped
<1>. DEFINE JobOK(j) == /\ jobs'[j] \in Jobs /\ jobs'[j].reused \subseteq DOMAIN jobs
                        /\ jobs'[j].pos \in 1..Len(jobs[j].contents) + 1
            BlocksOK == /\ blocks' = [k \in DOMAIN blocks' |-> blocks'[k]]
                        /\ \A k \in DOMAIN blocks' : /\ k \in BlockKeys /\ blocks'[k] \in Blocks
                                                     /\ blocks'[k].by \in DOMAIN jobs
<1>3. ASSUME NEW j \in DOMAIN jobs, jobs'[j] = jobs[j] PROVE JobOK(j)
  BY <1>3, JobTypes DEF EngineInv, EngineTypeOK
<1>4. ASSUME UNCHANGED blocks PROVE BlocksOK
  BY <1>2, <1>4
<1>5. ASSUME NEW j \in DOMAIN jobs, ReuseBlock(j) PROVE BlocksOK /\ \A i \in DOMAIN jobs : JobOK(i)
  <2>. DEFINE block == blocks[JobKey(j)]
  <2>1. block \in Blocks /\ block.by \in DOMAIN jobs /\ DOMAIN jobs \subseteq Nat
    BY <1>2, <1>5, JobTypes DEF ReuseBlock, Found
  <2>2. /\ jobs[j] \in Jobs /\ jobs[j].pos \in 1..Len(jobs[j].contents) /\ Len(jobs[j].contents) \in Nat
        /\ jobs[j].reused \subseteq DOMAIN jobs
    BY <1>5, JobTypes DEF ReuseBlock, EngineInv, EngineTypeOK
  <2>3. jobs'[j] = [jobs[j] EXCEPT !.pos = @ + 1, !.drawn = @ \cup block.own \cup block.inherited,
                                   !.reused = @ \cup {block.by}]
    BY <1>2, <1>5 DEF ReuseBlock
  <2>4. block.own \subseteq Sources /\ block.inherited \subseteq Sources
    BY <2>1 DEF Blocks
  <2>5. /\ jobs[j].pos + 1 \in Nat \ {0} /\ jobs[j].pos + 1 \in 1..Len(jobs[j].contents) + 1
        /\ jobs[j].drawn \cup block.own \cup block.inherited \in SUBSET Sources
        /\ jobs[j].reused \cup {block.by} \in SUBSET Nat
        /\ jobs[j].reused \cup {block.by} \subseteq DOMAIN jobs
    BY <2>1, <2>2, <2>4 DEF Jobs
  <2>6. JobOK(j)
    BY <2>2, <2>3, <2>5 DEF Jobs
  <2>7. \A i \in DOMAIN jobs : i # j => jobs'[i] = jobs[i]
    BY <1>2, <1>5 DEF ReuseBlock
  <2>. QED
    BY <1>3, <1>4, <1>5, <2>6, <2>7 DEF ReuseBlock
<1>6. ASSUME NEW j \in DOMAIN jobs, ComputeBlock(j) PROVE BlocksOK /\ \A i \in DOMAIN jobs : JobOK(i)
  <2>1. /\ jobs[j] \in Jobs /\ jobs[j].pos \in 1..Len(jobs[j].contents) /\ Len(jobs[j].contents) \in Nat
        /\ jobs[j].reused \subseteq DOMAIN jobs /\ j \in Nat
        /\ JobKey(j) \in BlockKeys /\ jobs[j].owns[jobs[j].pos] \in SUBSET Sources
    BY <1>6, JobTypes DEF ComputeBlock, EngineInv, EngineTypeOK
  <2>2. jobs'[j] = [jobs[j] EXCEPT !.pos = @ + 1, !.hitting = FALSE]
    BY <1>2, <1>6 DEF ComputeBlock
  <2>3. JobOK(j)
    <3>1. jobs[j].pos + 1 \in Nat \ {0} /\ jobs[j].pos + 1 \in 1..Len(jobs[j].contents) + 1
      BY <2>1
    <3>. QED
      BY <2>1, <2>2, <3>1 DEF Jobs
  <2>4. \A i \in DOMAIN jobs : i # j => jobs'[i] = jobs[i]
    BY <1>2, <1>6 DEF ComputeBlock
  <2>5. [own |-> jobs[j].owns[jobs[j].pos], inherited |-> jobs[j].drawn, by |-> j] \in Blocks
    BY <2>1 DEF Blocks, Jobs
  <2>6. BlocksOK
    BY <1>2, <1>4, <1>6, <2>1, <2>5 DEF ComputeBlock
  <2>. QED
    BY <1>3, <2>3, <2>4, <2>6
<1>7. ASSUME NEW j \in DOMAIN jobs, Abandon(j) PROVE BlocksOK /\ \A i \in DOMAIN jobs : JobOK(i)
  <2>1. jobs[j] \in Jobs /\ Len(jobs[j].contents) \in Nat /\ jobs[j].reused \subseteq DOMAIN jobs
    BY JobTypes DEF EngineInv, EngineTypeOK
  <2>2. jobs'[j] = [jobs[j] EXCEPT !.pos = Len(jobs[j].contents) + 1]
    BY <1>2, <1>7 DEF Abandon
  <2>3. Len(jobs[j].contents) + 1 \in Nat \ {0} /\ Len(jobs[j].contents) + 1 \in 1..Len(jobs[j].contents) + 1
    BY <2>1
  <2>4. JobOK(j)
    BY <2>1, <2>2, <2>3 DEF Jobs
  <2>5. \A i \in DOMAIN jobs : i # j => jobs'[i] = jobs[i]
    BY <1>2, <1>7 DEF Abandon
  <2>. QED
    BY <1>3, <1>4, <1>7, <2>4, <2>5 DEF Abandon
<1>8. ASSUME NEW k, EvictBlock(k) PROVE BlocksOK /\ \A i \in DOMAIN jobs : JobOK(i)
  BY <1>2, <1>3, <1>8 DEF EvictBlock
<1>9. BlocksOK /\ \A j \in DOMAIN jobs : JobOK(j)
  BY <1>5, <1>6, <1>7, <1>8 DEF Works, EngineNext
<1>10. jobs' = [j \in DOMAIN jobs' |-> jobs'[j]]
  BY <1>2 DEF Works, EngineNext, ReuseBlock, ComputeBlock, Abandon, EvictBlock
<1>11. JobsTyped'
  BY <1>1, <1>9, <1>10 DEF EngineInv, JobsTyped
<1>12. EngineTypeOK'
  BY <1>1, <1>9 DEF EngineInv, EngineTypeOK, SameOrder, Jobs
<1>. QED
  BY <1>1, <1>9, <1>11, <1>12 DEF EngineInv, BlocksTyped

-----------------------------------------------------------------------------
\* What the statuses of a call come to

\* A call that returns has gone over all of its order (gateway.py handle).
LEMMA ReturnedCall ==
    ASSUME PlanInv, NEW t \in Threads, Ended(t), task[t].error = None
    PROVE  /\ task[t] \in Calls /\ task[t].request \in Requests
           /\ task[t].request.auth \in AuthContext
           /\ Len(task[t].order) \in Nat /\ task[t].pos - 1 = Len(task[t].order)
           /\ DOMAIN task[t].statuses = 1..Len(task[t].order)
           /\ DOMAIN task[t].order = 1..Len(task[t].order)
           /\ \A i \in 1..Len(task[t].order) :
                 /\ task[t].statuses[i] \in Statuses
                 /\ Prefix(task[t], i) \subseteq Constraints
                 /\ FollowsPolicy(task[t].statuses[i], Prefix(task[t], i))
<1>. DEFINE c == task[t]
<1>1. /\ c \in Calls /\ c.request \in Requests /\ Walked(c)
      /\ c.pos = Len(c.order) + 1
  BY DEF PlanInv, WalkInv, TypeOK, CallsTypeOK, Calls, Ended, RunsToEnd
<1>2. c.order \in Seq(Fragments) /\ c.statuses \in Seq(Statuses)
  BY <1>1 DEF Calls
<1>3. Len(c.order) \in Nat /\ c.pos - 1 = Len(c.order) /\ Passed(c) = 1..Len(c.order)
  BY <1>1, <1>2 DEF Passed
<1>4. Len(c.statuses) = Len(c.order)
  BY <1>1, <1>3 DEF Walked
<1>5. /\ DOMAIN c.statuses = 1..Len(c.order) /\ DOMAIN c.order = 1..Len(c.order)
      /\ \A i \in 1..Len(c.order) : c.statuses[i] \in Statuses
  BY <1>2, <1>4
<1>6. ASSUME NEW i \in 1..Len(c.order)
      PROVE  /\ Prefix(c, i) \subseteq Constraints
             /\ FollowsPolicy(c.statuses[i], Prefix(c, i))
  <2>1. \A j \in 1..i : j \in Passed(c)
    BY <1>3
  <2>2. \A j \in 1..i : c.order[j].intent # Malformed
    BY <1>1, <2>1 DEF Walked
  <2>3. i \in Nat /\ i <= Len(c.order) /\ i \in Passed(c)
    BY <1>3
  <2>. QED
    BY <1>1, <2>2, <2>3, PrefixTyped DEF Walked
<1>7. c.request.auth \in AuthContext
  BY <1>1, RequestsAssumption
<1>. QED
  BY <1>1, <1>3, <1>5, <1>6, <1>7

\* The governed fragments are those with a contributor (gateway.py handle, FragmentStatus).
LEMMA GovernedFragments ==
    ASSUME PlanInv, NEW t \in Threads, Ended(t), task[t].error = None
    PROVE  /\ GovernedAt(task[t].statuses) = {i \in 1..Len(task[t].order) : Prefix(task[t], i) # {}}
           /\ \A i \in GovernedAt(task[t].statuses) :
                 LET C == Prefix(task[t], i)
                     s == task[t].statuses[i]
                 IN  /\ C \subseteq Constraints /\ C # {}
                     /\ s.effective_share = Compose(C).share_max /\ s.effective_share \in Scopes
                     /\ s.effective_reuse = Compose(C).reuse
                     /\ s.effective_retention_mode = Compose(C).mode
                     /\ ~Enforceable(Compose(C), Backend) => s.outcome = "bypass"
<1>. DEFINE c == task[t]
<1>1. /\ DOMAIN c.statuses = 1..Len(c.order)
      /\ \A i \in 1..Len(c.order) : /\ c.statuses[i] \in Statuses
                                    /\ Prefix(c, i) \subseteq Constraints
                                    /\ FollowsPolicy(c.statuses[i], Prefix(c, i))
  BY ReturnedCall
<1>2. ASSUME NEW i \in 1..Len(c.order)
      PROVE  c.statuses[i].effective_reuse # None <=> Prefix(c, i) # {}
  <2>1. CASE Prefix(c, i) = {}
    BY <1>1, <2>1 DEF FollowsPolicy
  <2>2. CASE Prefix(c, i) # {}
    <3>1. Compose(Prefix(c, i)).reuse \in ReuseLevels
      BY <1>1, <2>2, ComposeIsPolicy DEF Policies
    <3>. QED
      BY <1>1, <2>2, <3>1, NoneIsOther DEF FollowsPolicy
  <2>. QED
    BY <2>1, <2>2
<1>3. GovernedAt(c.statuses) = {i \in 1..Len(c.order) : Prefix(c, i) # {}}
  BY <1>1, <1>2 DEF GovernedAt
<1>. QED
  BY <1>1, <1>3 DEF FollowsPolicy, Statuses

\* The namespaces of the salt are those of the whole request, in their order
\* (binding_openai.py _lower_request_salt).
LEMMA SaltHasAllSpaces ==
    ASSUME PlanInv, NEW t \in Threads, Ended(t), task[t].error = None
    PROVE  SaltNamespaces(task[t].statuses) = task[t].namespaces
<1>. DEFINE c == task[t]
            n == Len(c.order)
            named == {i \in GovernedAt(c.statuses) : c.statuses[i].namespaces # <<>>}
<1>1. /\ n \in Nat /\ c.pos - 1 = n /\ Passed(c) = 1..n
      /\ GovernedAt(c.statuses) = {i \in 1..n : Prefix(c, i) # {}}
  BY ReturnedCall, GovernedFragments DEF Passed
<1>2. Walked(c) /\ c.namespaces \in Seq(STRING)
  BY ReturnedCall DEF PlanInv, WalkInv, Calls
<1>3. /\ \A i \in 1..n : c.statuses[i].namespaces # <<>> => c.namespaces # <<>>
      /\ n \in 1..n /\ Prefix(c, n) # {} => c.statuses[n].namespaces = c.namespaces
  BY <1>1, <1>2 DEF Walked, ReportsSpaces
<1>4. CASE c.namespaces = <<>>
  <2>1. named = {}
    BY <1>1, <1>3, <1>4
  <2>. QED
    BY <1>4, <2>1 DEF SaltNamespaces
<1>5. CASE c.namespaces # <<>>
  <2>1. Len(c.namespaces) \in Nat /\ Len(c.namespaces) # 0
    BY <1>2, <1>5
  <2>2. PICK i \in 1..n : SuppliedNamespaces(Prefix(c, i)) = FirstSpaces(c, 1)
    BY <1>1, <1>2, <2>1 DEF Walked, FollowsSpaces
  <2>3. c.namespaces[1] \in FirstSpaces(c, 1)
    BY DEF FirstSpaces
  <2>4. Prefix(c, i) # {}
    BY <2>2, <2>3 DEF SuppliedNamespaces
  <2>5. n \in 1..n /\ Prefix(c, i) \subseteq Prefix(c, n)
    BY <1>1, PrefixesNest
  <2>6. n \in named
    BY <1>1, <1>3, <1>5, <2>4, <2>5
  <2>7. named \subseteq 1..n
    BY <1>1
  <2>8. Max(named) = n
    BY <1>1, <2>6, <2>7 DEF Max
  <2>. QED
    BY <1>3, <2>4, <2>5, <2>6, <2>8 DEF SaltNamespaces
<1>. QED
  BY <1>4, <1>5

\* The boundary of the salt is no wider than that of any governed fragment
\* (binding_openai.py _lower_request_salt).
LEMMA NarrowestIsNarrow ==
    ASSUME PlanInv, NEW t \in Threads, Ended(t), task[t].error = None,
           GovernedAt(task[t].statuses) # {}
    PROVE  /\ Narrowest(task[t].statuses) \in Scopes
           /\ \A i \in GovernedAt(task[t].statuses) :
                 ShareRank(Narrowest(task[t].statuses)) <= ShareRank(task[t].statuses[i].effective_share)
<1>. DEFINE ss == task[t].statuses
            shares == {ss[i].effective_share : i \in GovernedAt(ss)}
<1>1. shares \subseteq Scopes /\ shares # {}
  BY GovernedFragments
<1>2. CASE MustBypass(ss)
  <2>1. Narrowest(ss) = "request"
    BY <1>2 DEF Narrowest
  <2>2. \A s \in Scopes : ShareRank("request") <= ShareRank(s)
    BY DEF ShareRank, Scopes
  <2>. QED
    BY <1>1, <2>1, <2>2 DEF Scopes
<1>3. CASE ~MustBypass(ss)
  <2>1. Narrowest(ss) = IntersectShareMax(shares)
    BY <1>3 DEF Narrowest
  <2>. QED
    BY <1>1, <2>1, ShareMaxIsNarrowest
<1>. QED
  BY <1>2, <1>3

\* A salt that only this request comes by is called for.
AsksForFresh(C) == \/ ~Enforceable(Compose(C), Backend)
                   \/ \E c \in C : c.mode = "forbid" \/ c.reuse = "none" \/ c.share_max = "request"

\* One contributor that asks for fresh computation, or one prefix that cannot be
\* enforced, narrows the salt to the request (binding_openai.py _lower_request_salt).
LEMMA FreshMeansRequest ==
    ASSUME PlanInv, NEW t \in Threads, Ended(t), task[t].error = None,
           NEW i \in GovernedAt(task[t].statuses), AsksForFresh(Prefix(task[t], i))
    PROVE  Narrowest(task[t].statuses) = "request"
<1>. DEFINE ss == task[t].statuses
            C == Prefix(task[t], i)
<1>1. /\ C \subseteq Constraints /\ C # {}
      /\ ss[i].effective_share = Compose(C).share_max /\ ss[i].effective_share \in Scopes
      /\ ss[i].effective_reuse = Compose(C).reuse
      /\ ss[i].effective_retention_mode = Compose(C).mode
      /\ ~Enforceable(Compose(C), Backend) => ss[i].outcome = "bypass"
  BY GovernedFragments
<1>2. ASSUME MustBypass(ss) PROVE Narrowest(ss) = "request"
  BY <1>2 DEF Narrowest
<1>3. CASE ~Enforceable(Compose(C), Backend)
  BY <1>1, <1>2, <1>3 DEF MustBypass
<1>4. ASSUME NEW c \in C, c.mode = "forbid" PROVE Narrowest(ss) = "request"
  <2>1. Compose(C).mode = "forbid"
    BY <1>4 DEF Compose, Forbids
  <2>. QED
    BY <1>1, <1>2, <2>1 DEF MustBypass
<1>5. ASSUME NEW c \in C, c.reuse = "none" PROVE Narrowest(ss) = "request"
  <2>. DEFINE S == {d.reuse : d \in C}
  <2>1. S \subseteq ReuseLevels /\ S # {} /\ c.reuse \in S
    BY <1>1 DEF Constraints
  <2>2. ComposeReuse(S) \in ReuseLevels /\ ReuseRank(ComposeReuse(S)) <= ReuseRank("none")
    BY <1>5, <2>1, ReuseIsStrictest
  <2>3. ComposeReuse(S) = "none"
    BY <2>2 DEF ReuseLevels, ReuseRank
  <2>4. Compose(C).reuse = "none"
    BY <2>3 DEF Compose
  <2>. QED
    BY <1>1, <1>2, <2>4 DEF MustBypass
<1>6. ASSUME NEW c \in C, c.share_max = "request" PROVE Narrowest(ss) = "request"
  <2>1. ShareRank(ss[i].effective_share) <= ShareRank("request")
    BY <1>1, <1>6, ComposeNarrows
  <2>2. /\ Narrowest(ss) \in Scopes
        /\ ShareRank(Narrowest(ss)) <= ShareRank(ss[i].effective_share)
    BY NarrowestIsNarrow
  <2>. QED
    BY <1>1, <2>1, <2>2 DEF Scopes, ShareRank
<1>. QED
  BY <1>3, <1>4, <1>5, <1>6 DEF AsksForFresh

\* The salt of a request is one, and says of its contributors what the engine needs
\* (binding_openai.py _lower_request_salt, vllm_backend.py salt_for).
LEMMA SaltOfRequest ==
    ASSUME PlanInv, NEW t \in Threads, Ended(t), task[t].error = None
    PROVE  /\ DerivedSalt(t) \in Salts \cup {None}
           /\ HasSalts => (DerivedSalt(t) = None
                              <=> \A i \in 1..Len(task[t].order) : Prefix(task[t], i) = {})
           /\ DerivedSalt(t) # None =>
                 \E scope \in Scopes :
                    /\ scope = Narrowest(task[t].statuses)
                    /\ DerivedSalt(t) = [partition |-> PartitionFor(scope, task[t].request.auth, task[t].id),
                                         namespaces |-> task[t].namespaces]
                    /\ \A i \in 1..Len(task[t].order) :
                          /\ \A c \in Prefix(task[t], i) : ShareRank(scope) <= ShareRank(c.share_max)
                          /\ Prefix(task[t], i) # {} /\ AsksForFresh(Prefix(task[t], i)) => scope = "request"
<1>. DEFINE ss == task[t].statuses
            c == task[t]
            scope == Narrowest(ss)
            salt == [partition |-> PartitionFor(scope, c.request.auth, c.id), namespaces |-> c.namespaces]
<1>1. GovernedAt(ss) = {i \in 1..Len(c.order) : Prefix(c, i) # {}}
  BY GovernedFragments
<1>2. CASE ~Lowers(ss)
  <2>1. DerivedSalt(t) = None
    BY <1>2 DEF DerivedSalt
  <2>2. HasSalts => \A i \in 1..Len(c.order) : Prefix(c, i) = {}
    BY <1>1, <1>2 DEF Lowers
  <2>. QED
    BY <2>1, <2>2
<1>3. CASE Lowers(ss)
  <2>1. GovernedAt(ss) # {}
    BY <1>3 DEF Lowers
  <2>2. scope \in Scopes /\ \A i \in GovernedAt(ss) : ShareRank(scope) <= ShareRank(ss[i].effective_share)
    BY <2>1, NarrowestIsNarrow
  <2>3. DerivedSalt(t) = salt
    BY <1>3, SaltHasAllSpaces DEF DerivedSalt
  <2>4. salt \in Salts
    <3>1. c.request.auth \in AuthContext /\ c.id \in Nat /\ c.namespaces \in Seq(STRING)
      BY ReturnedCall DEF Calls
    <3>. QED
      BY <2>2, <3>1, PartitionType DEF Salts
  <2>5. DerivedSalt(t) # None
    BY <2>3, <2>4, NoSaltAssumption
  <2>6. ASSUME NEW i \in 1..Len(c.order), NEW d \in Prefix(c, i)
        PROVE  ShareRank(scope) <= ShareRank(d.share_max)
    <3>1. i \in GovernedAt(ss)
      BY <1>1, <2>6
    <3>2. /\ Prefix(c, i) \subseteq Constraints /\ ss[i].effective_share = Compose(Prefix(c, i)).share_max
          /\ ss[i].effective_share \in Scopes /\ d.share_max \in Scopes
      BY <2>6, <3>1, GovernedFragments DEF Constraints
    <3>3. ShareRank(ss[i].effective_share) <= ShareRank(d.share_max)
      BY <2>6, <3>2, ComposeNarrows
    <3>4. ShareRank(scope) <= ShareRank(ss[i].effective_share)
      BY <2>2, <3>1
    <3>. QED
      BY <2>2, <3>2, <3>3, <3>4 DEF Scopes, ShareRank
  <2>7. ASSUME NEW i \in 1..Len(c.order), Prefix(c, i) # {}, AsksForFresh(Prefix(c, i))
        PROVE  scope = "request"
    BY <1>1, <2>7, FreshMeansRequest
  <2>. QED
    BY <1>1, <2>1, <2>2, <2>3, <2>4, <2>5, <2>6, <2>7
<1>. QED
  BY <1>2, <1>3

-----------------------------------------------------------------------------
\* What a salt says of the request it was sent with

\* The namespaces of a salt as they come up.
SpacesChain(ns) == {{ns[n] : n \in 1..m} : m \in 1..Len(ns)}

SaltSays(j) ==
    /\ jobs[j].reader.request = j
    /\ \A s \in JobSources(j) : /\ s \in Sources
                                /\ s.auth = jobs[j].reader.auth
                                /\ s.request = j /\ s.at = jobs[j].reader.now
    /\ jobs[j].salt = None <=> JobSources(j) = {}
    /\ NamespaceChain(j) = IF jobs[j].salt = None THEN {} ELSE SpacesChain(jobs[j].salt.namespaces)
    /\ jobs[j].salt # None =>
          \E scope \in Scopes :
             /\ jobs[j].salt.partition = PartitionFor(scope, jobs[j].reader.auth, j)
             /\ \A s \in JobSources(j) : ShareRank(scope) <= ShareRank(s.constraints.share_max)
             /\ MustBeFresh(j) => scope = "request"

\* The engine leaves that as it is (vllm_backend.py chat).
LEMMA SaltStillSays ==
    ASSUME NEW j, SaltSays(j), SameOrder(jobs'[j], jobs[j])
    PROVE  SaltSays(j)'
<1>1. /\ jobs'[j].salt = jobs[j].salt /\ jobs'[j].owns = jobs[j].owns
      /\ jobs'[j].reader = jobs[j].reader
  BY DEF SameOrder
<1>2. /\ JobSources(j)' = JobSources(j)
      /\ NamespaceChain(j)' = NamespaceChain(j)
  BY <1>1 DEF JobSources, NamespaceChain
<1>3. MustBeFresh(j)' <=> MustBeFresh(j)
  BY <1>1, <1>2 DEF MustBeFresh
<1>. QED
  BY <1>1, <1>2, <1>3 DEF SaltSays

\* What is sent of a call answers to its prefixes (proxy.py do_POST).
LEMMA SentSources ==
    ASSUME PlanInv, NEW t \in Threads, Ended(t), task[t].error = None,
           NEW i \in 1..Len(task[t].order)
    PROVE  LET C == Prefix(task[t], i)
           IN  /\ PrefixSources(t, i) \in SUBSET Sources
               /\ \A s \in PrefixSources(t, i) :
                     /\ s.constraints \in C /\ s.auth = task[t].request.auth
                     /\ s.request = task[t].id /\ s.at = task[t].now
               /\ {s.constraints : s \in PrefixSources(t, i)} = C
               /\ {s.constraints.namespace : s \in PrefixSources(t, i)} \ {None} = SuppliedNamespaces(C)
               /\ PrefixSources(t, i) = {} <=> C = {}
<1>. DEFINE C == Prefix(task[t], i)
            source(c) == [constraints |-> c, auth |-> task[t].request.auth,
                          request |-> task[t].id, at |-> task[t].now]
<1>1. /\ C \subseteq Constraints /\ task[t].request.auth \in AuthContext
      /\ task[t].id \in Nat /\ task[t].now \in Nat
  BY ReturnedCall DEF Calls
<1>2. PrefixSources(t, i) = [constraints : C, auth : {task[t].request.auth},
                             request : {task[t].id}, at : {task[t].now}]
  BY DEF PrefixSources, Prefix
<1>3. PrefixSources(t, i) \in SUBSET Sources
  BY <1>1, <1>2 DEF Sources
<1>4. \A s \in PrefixSources(t, i) :
         /\ s.constraints \in C /\ s.auth = task[t].request.auth
         /\ s.request = task[t].id /\ s.at = task[t].now
  BY <1>2
<1>5. \A c \in C : source(c) \in PrefixSources(t, i) /\ source(c).constraints = c
  BY <1>2
<1>6. {s.constraints : s \in PrefixSources(t, i)} = C
  BY <1>4, <1>5
<1>7. {s.constraints.namespace : s \in PrefixSources(t, i)} = {c.namespace : c \in C}
  BY <1>4, <1>5
<1>. QED
  BY <1>3, <1>4, <1>5, <1>6, <1>7 DEF SuppliedNamespaces

\* What is sent to the engine (proxy.py do_POST).
Sent(t) == [salt |-> DerivedSalt(t),
            contents |-> [i \in DOMAIN task[t].order |-> task[t].order[i].content],
            owns |-> [i \in DOMAIN task[t].order |-> PrefixSources(t, i)],
            reader |-> [auth |-> task[t].request.auth, request |-> task[t].id, now |-> task[t].now],
            pos |-> 1, hitting |-> TRUE, drawn |-> {}, reused |-> {}]

\* The namespaces of what is sent come up as those of its salt (gateway.py handle,
\* binding_openai.py _lower_request_salt).
LEMMA SentSpaces ==
    ASSUME PlanInv, NEW t \in Threads, Ended(t), task[t].error = None
    PROVE  {SuppliedNamespaces(Prefix(task[t], i)) : i \in 1..Len(task[t].order)} \ {{}}
               = SpacesChain(task[t].namespaces)
<1>. DEFINE c == task[t]
            n == Len(c.order)
<1>1. n \in Nat /\ Passed(c) = 1..n /\ c.namespaces \in Seq(STRING)
  BY ReturnedCall DEF Passed, Calls
<1>2. Len(c.namespaces) \in Nat
  BY <1>1
<1>3. /\ \A i \in 1..n : \E m \in 0..Len(c.namespaces) :
            SuppliedNamespaces(Prefix(c, i)) = FirstSpaces(c, m)
      /\ \A m \in 1..Len(c.namespaces) : \E i \in 1..n :
            SuppliedNamespaces(Prefix(c, i)) = FirstSpaces(c, m)
  BY <1>1 DEF PlanInv, WalkInv, Walked, FollowsSpaces
<1>4. SpacesChain(c.namespaces) = {FirstSpaces(c, m) : m \in 1..Len(c.namespaces)}
  BY DEF SpacesChain, FirstSpaces
<1>5. FirstSpaces(c, 0) = {}
  BY DEF FirstSpaces
<1>6. \A m \in 1..Len(c.namespaces) : c.namespaces[1] \in FirstSpaces(c, m)
  BY <1>2 DEF FirstSpaces
<1>7. \A m \in 0..Len(c.namespaces) : FirstSpaces(c, m) # {} => m \in 1..Len(c.namespaces)
  BY <1>2, <1>5
<1>8. ASSUME NEW S \in {SuppliedNamespaces(Prefix(c, i)) : i \in 1..n} \ {{}}
      PROVE  S \in {FirstSpaces(c, m) : m \in 1..Len(c.namespaces)}
  BY <1>3, <1>7
<1>9. ASSUME NEW m \in 1..Len(c.namespaces)
      PROVE  FirstSpaces(c, m) \in {SuppliedNamespaces(Prefix(c, i)) : i \in 1..n} \ {{}}
  BY <1>3, <1>6
<1>. QED
  BY <1>4, <1>8, <1>9

\* What is sent says so (proxy.py do_POST, binding_openai.py prepare).
LEMMA SentSays ==
    ASSUME HasSalts, PlanInv, NEW t \in Threads, Ended(t), task[t].error = None,
           NEW id, task[t].id = id, jobs'[id] = Sent(t)
    PROVE  SaltSays(id)'
<1>. DEFINE c == task[t]
            n == Len(c.order)
            sources == UNION {PrefixSources(t, i) : i \in 1..n}
            job == jobs'[id]
<1>1. /\ n \in Nat /\ DOMAIN c.order = 1..n
      /\ job.salt = DerivedSalt(t) /\ job.reader.auth = c.request.auth
      /\ job.reader.request = id /\ job.reader.now = c.now
      /\ DOMAIN job.owns = 1..n /\ \A i \in 1..n : job.owns[i] = PrefixSources(t, i)
  BY ReturnedCall DEF Sent
<1>2. JobSources(id)' = sources
  BY <1>1 DEF JobSources
<1>3. \A s \in sources : /\ s \in Sources /\ s.auth = c.request.auth
                         /\ s.request = id /\ s.at = c.now
                         /\ \E i \in 1..n : s.constraints \in Prefix(c, i)
  BY SentSources
<1>4. sources = {} <=> \A i \in 1..n : Prefix(c, i) = {}
  <2>1. \A i \in 1..n : PrefixSources(t, i) = {} <=> Prefix(c, i) = {}
    BY SentSources
  <2>2. sources = {} <=> \A i \in 1..n : PrefixSources(t, i) = {}
    OBVIOUS
  <2>. QED
    BY <2>1, <2>2
<1>5. job.salt = None <=> sources = {}
  BY <1>1, <1>4, SaltOfRequest
<1>6. NamespaceChain(id)' = SpacesChain(c.namespaces)
  <2>1. NamespaceChain(id)' = {SuppliedNamespaces(Prefix(c, i)) : i \in 1..n} \ {{}}
    <3>1. \A i \in 1..n : {s.constraints.namespace : s \in job.owns[i]} \ {None}
                               = SuppliedNamespaces(Prefix(c, i))
      BY <1>1, SentSources
    <3>2. NamespaceChain(id)'
              = {{s.constraints.namespace : s \in job.owns[i]} \ {None} : i \in 1..n} \ {{}}
      BY <1>1 DEF NamespaceChain
    <3>. QED
      BY <3>1, <3>2
  <2>. QED
    BY <2>1, SentSpaces
<1>7. ASSUME job.salt = None PROVE NamespaceChain(id)' = {}
  <2>1. JobSources(id)' = {}
    BY <1>2, <1>5, <1>7
  <2>. QED
    BY <2>1 DEF JobSources, NamespaceChain
<1>8. ASSUME job.salt # None
      PROVE  /\ job.salt.namespaces = c.namespaces
             /\ \E scope \in Scopes :
                   /\ job.salt.partition = PartitionFor(scope, c.request.auth, id)
                   /\ \A s \in sources : ShareRank(scope) <= ShareRank(s.constraints.share_max)
                   /\ MustBeFresh(id)' => scope = "request"
  <2>1. PICK scope \in Scopes :
           /\ job.salt = [partition |-> PartitionFor(scope, c.request.auth, id),
                          namespaces |-> c.namespaces]
           /\ \A i \in 1..n :
                 /\ \A d \in Prefix(c, i) : ShareRank(scope) <= ShareRank(d.share_max)
                 /\ Prefix(c, i) # {} /\ AsksForFresh(Prefix(c, i)) => scope = "request"
    BY <1>1, <1>8, SaltOfRequest
  <2>2. ASSUME MustBeFresh(id)' PROVE scope = "request"
    <3>1. CASE \E s \in JobSources(id)' : \/ s.constraints.mode = "forbid"
                                             \/ s.constraints.reuse = "none"
                                             \/ s.constraints.share_max = "request"
      BY <1>2, <1>3, <2>1, <3>1 DEF AsksForFresh
    <3>2. CASE \E i \in DOMAIN job.owns :
                  /\ job.owns[i] # {}
                  /\ ~Enforceable(Compose({s.constraints : s \in job.owns[i]}), Backend)
      <4>1. PICK i \in 1..n : /\ PrefixSources(t, i) # {}
                              /\ ~Enforceable(Compose({s.constraints : s \in PrefixSources(t, i)}), Backend)
        BY <1>1, <3>2
      <4>2. Prefix(c, i) # {} /\ ~Enforceable(Compose(Prefix(c, i)), Backend)
        BY <4>1, SentSources
      <4>. QED
        BY <2>1, <4>2 DEF AsksForFresh
    <3>. QED
      BY <2>2, <3>1, <3>2 DEF MustBeFresh
  <2>. QED
    BY <1>3, <2>1, <2>2
<1>. QED
  BY <1>1, <1>2, <1>3, <1>5, <1>6, <1>7, <1>8 DEF SaltSays

-----------------------------------------------------------------------------
\* Handler threads

\* The connection of t got as far as handle.
HasCall(t) == conn[t] # None /\ Opened(conn[t])

\* The engine has the request of t, under the salt its statuses came to.
JobOf(t) == task[t].id \in DOMAIN jobs /\ jobs[task[t].id].salt = DerivedSalt(t)

Replied(t) ==
    \/ /\ HasCall(t) /\ task[t].error = None /\ JobOf(t)
       /\ reply[t] = Answered(200, None, CacheStatus(t, conn[t].body))
    \/ /\ reply[t].cache_status = <<>>
       /\ reply[t].code = 400 => reply[t].error \in ErrorCodes
       /\ HasCall(t) => /\ reply[t].code # 200
                        /\ reply[t].code = 400 => task[t].error # None

Serves(t) ==
    /\ stage[t] # "free" => HasCall(t) /\ reply[t] = NoReply
    /\ HasCall(t) => task[t].request = RequestBehind(conn[t]) /\ task[t].request \in Requests
    /\ stage[t] # "preparing" => pc[t] = "idle"
    /\ stage[t] = "preparing" => task[t].id \notin DOMAIN jobs
    /\ stage[t] = "waiting" => task[t].error = None /\ JobOf(t)
    /\ stage[t] = "free" => Replied(t)

ThreadsTyped == /\ stage \in [Threads -> {"free", "preparing", "waiting"}]
                /\ conn \in [Threads -> Connections \cup {None}]
                /\ DOMAIN reply = Threads

ServesInv == GatewayInv /\ EngineInv /\ ThreadsTyped /\ \A t \in Threads : Serves(t)

\* A thread that does not move keeps what it has, as long as its job is kept and no
\* other takes its place (proxy.py do_POST).
LEMMA StillServes ==
    ASSUME NEW t, Serves(t), task'[t] = task[t], pc'[t] = pc[t],
           stage'[t] = stage[t], conn'[t] = conn[t], reply'[t] = reply[t],
           task[t].id \in DOMAIN jobs =>
               task[t].id \in DOMAIN jobs' /\ jobs'[task[t].id].salt = jobs[task[t].id].salt,
           stage[t] = "preparing" => task[t].id \notin DOMAIN jobs'
    PROVE  Serves(t)'
<1>1. /\ CacheStatus(t, conn[t].body)' = CacheStatus(t, conn[t].body)
      /\ DerivedSalt(t)' = DerivedSalt(t)
      /\ HasCall(t)' <=> HasCall(t)
  BY DEF CacheStatus, DerivedSalt, HasCall
<1>2. JobOf(t) => JobOf(t)'
  BY <1>1 DEF JobOf
<1>3. Replied(t) => Replied(t)'
  BY <1>1, <1>2 DEF Replied
<1>. QED
  BY <1>1, <1>2, <1>3 DEF Serves

\* A connection that gets no further than the headers and the text of its body
\* (proxy.py do_GET, do_POST).
LEMMA DismissServes ==
    ASSUME ServesInv, NEW t \in Threads, NEW c \in Connections, NEW answer, Dismiss(t, c, answer),
           ~Opened(c), answer.cache_status = <<>>, answer.code # 400 \/ answer.error \in ErrorCodes
    PROVE  Serves(t)' /\ ThreadsTyped'
<1>1. /\ conn'[t] = c /\ reply'[t] = answer /\ stage' = stage /\ stage[t] = "free"
      /\ UNCHANGED <<pc, task, jobs>> /\ pc[t] = "idle"
  BY DEF ServesInv, ThreadsTyped, Dismiss, vars, engineVars, Serves
<1>2. ~HasCall(t)'
  BY <1>1 DEF HasCall
<1>3. Serves(t)'
  BY <1>1, <1>2 DEF Serves, Replied
<1>. QED
  BY <1>3 DEF ServesInv, ThreadsTyped, Dismiss

\* A request that do_GET or do_POST answers itself has no call (proxy.py do_GET, do_POST).
LEMMA ConnectServes ==
    ASSUME ServesInv, NEW t \in Threads, NEW c \in Connections,
           \/ Describe(t, c) \/ NotFound(t, c) \/ Unauthorized(t, c)
           \/ ChokeOnBody(t, c) \/ RejectBody(t, c)
    PROVE  /\ Serves(t)' /\ ThreadsTyped'
           /\ \E answer : Dismiss(t, c, answer)
<1>1. "cache_intent_invalid" \in ErrorCodes
  BY DEF ErrorCodes
<1>2. \A n \in Nat : n # None
  BY NoneAssumption
<1>3. \E answer : /\ Dismiss(t, c, answer) /\ answer.cache_status = <<>>
                  /\ answer.code # 400 \/ answer.error \in ErrorCodes
  BY <1>1, <1>2 DEF Describe, NotFound, Unauthorized, ChokeOnBody, RejectBody, Answered, NoReply
<1>4. ~Opened(c)
  BY DEF Opened, Authorized, Completion, Describe, NotFound, Unauthorized, ChokeOnBody, RejectBody
<1>. QED
  BY <1>3, <1>4, DismissServes

\* A connection that gets to handle has a call of its own (proxy.py do_POST,
\* binding_openai.py prepare).
LEMMA OpenServes ==
    ASSUME ServesInv, NEW t \in Threads, NEW c \in Connections, Open(t, c)
    PROVE  Serves(t)' /\ ThreadsTyped'
<1>. DEFINE r == RequestBehind(c)
<1>1. /\ conn'[t] = c /\ reply'[t] = NoReply /\ stage'[t] = "preparing" /\ jobs' = jobs
      /\ Opened(c) /\ c # None /\ r \in Requests
  BY ConnectionsAssumption, OpenedAssumption
     DEF Open, ServesInv, ThreadsTyped, engineVars, Opened, RequestBehind
<1>2. Begin(t, r) \/ RefuseRepeatedId(t, r)
  BY DEF Open, RequestBehind
<1>3. task'[t].request = r /\ task'[t].id = served + 1
  <2>1. PICK order, error : task' = [task EXCEPT ![t] = Call(r, order, error)]
    BY <1>2 DEF Begin, RefuseRepeatedId
  <2>2. task'[t] = Call(r, order, error)
    BY <2>1 DEF ServesInv, GatewayInv, PlanInv, WalkInv, TypeOK, CallsTypeOK
  <2>. QED
    BY <2>2 DEF Call
<1>4. served + 1 \notin DOMAIN jobs
  BY DEF ServesInv, EngineInv, JobsTyped, GatewayInv, PlanInv, WalkInv, TypeOK
<1>5. Serves(t)'
  BY <1>1, <1>3, <1>4 DEF Serves, HasCall
<1>. QED
  BY <1>1, <1>5 DEF ServesInv, ThreadsTyped, Open

\* prepare goes on (binding_openai.py prepare).
LEMMA WalkServes ==
    ASSUME ServesInv, NEW t \in Threads, Walk(t)
    PROVE  Serves(t)' /\ ThreadsTyped'
<1>1. task'[t].request = task[t].request /\ task'[t].id = task[t].id
  BY RequestStays DEF Walk, ServesInv, GatewayInv, PlanInv, WalkInv, KeepsRequest
<1>2. stage[t] = "preparing" /\ UNCHANGED <<stage, conn, reply, jobs>>
  BY DEF Walk, engineVars, proxyVars
<1>. QED
  BY <1>1, <1>2 DEF ServesInv, ThreadsTyped, Serves, HasCall

\* And do_POST returns (proxy.py do_POST).
LEMMA CloseServes ==
    ASSUME ServesInv, NEW t \in Threads,
           Fail(t) \/ Unreachable(t) \/ Answer(t) \/ Relay(t) \/ Lose(t)
    PROVE  Serves(t)' /\ ThreadsTyped'
<1>1. PICK answer : Close(t, answer)
  BY DEF Fail, Unreachable, Answer, Relay, Lose
<1>2. /\ stage'[t] = "free" /\ reply'[t] = answer /\ UNCHANGED <<conn, task, pc>>
      /\ ThreadsTyped' /\ Serves(t)
  BY <1>1 DEF Close, ServesInv, ThreadsTyped, vars
<1>3. HasCall(t)' <=> HasCall(t)
  BY <1>2 DEF HasCall
<1>4. stage[t] # "free" /\ pc[t] = "idle"
  BY DEF Fail, Unreachable, Prepared, Answer, Relay, Lose, ServesInv, Serves
<1>5. \A n \in Nat : n # None
  BY NoneAssumption
<1>6. CASE Fail(t)
  <2>1. reply'[t] = Answered(400, ErrorCode(t, conn[t].body), <<>>) /\ task[t].error # None
    BY <1>6, <1>2 DEF Fail, Close, ServesInv, ThreadsTyped
  <2>2. ErrorCode(t, conn[t].body) \in ErrorCodes
    BY DEF ErrorCode, ErrorCodes
  <2>. QED
    BY <1>2, <1>3, <1>4, <2>1, <2>2 DEF Serves, Replied, Answered
<1>7. CASE Unreachable(t) \/ Relay(t) \/ Lose(t)
  <2>1. reply'[t] \in {Answered(502, "upstream_unreachable", <<>>), Answered(500, "upstream", <<>>), NoReply}
    BY <1>7 DEF Unreachable, Relay, Lose, Close, ServesInv, ThreadsTyped
  <2>. QED
    BY <1>2, <1>3, <1>4, <1>5, <2>1 DEF Serves, Replied, Answered, NoReply
<1>8. CASE Answer(t)
  <2>1. reply'[t] = Answered(200, None, CacheStatus(t, conn[t].body)) /\ UNCHANGED jobs
    BY <1>8 DEF Answer, Close, engineVars, ServesInv, ThreadsTyped
  <2>2. /\ CacheStatus(t, conn[t].body)' = CacheStatus(t, conn[t].body)
        /\ DerivedSalt(t)' = DerivedSalt(t)
    BY <1>2 DEF CacheStatus, DerivedSalt
  <2>3. JobOf(t)' /\ task[t].error = None /\ HasCall(t)
    BY <1>2, <1>8, <2>1, <2>2 DEF Answer, Serves, JobOf
  <2>. QED
    BY <1>2, <1>3, <1>4, <2>1, <2>2, <2>3 DEF Serves, Replied
<1>. QED
  BY <1>6, <1>7, <1>8

\* A thread that forwards has a call that returned.
LEMMA PreparedReturned ==
    ASSUME ServesInv, NEW t \in Threads, Prepared(t)
    PROVE  /\ PlanInv /\ Ended(t) /\ task[t].error = None /\ HasCall(t)
           /\ task[t].id \notin DOMAIN jobs /\ task[t].id \in 1..served
<1>1. /\ HasCall(t) /\ task[t].request \in Requests /\ task[t].id \notin DOMAIN jobs
      /\ task[t].error = None /\ pc[t] = "idle"
  BY DEF ServesInv, Serves, Prepared
<1>2. task[t].request # None
  BY <1>1, NoRequestAssumption
<1>3. task[t].id \in Nat /\ served \in Nat /\ PlanInv
  BY DEF ServesInv, GatewayInv, PlanInv, WalkInv, TypeOK, CallsTypeOK, Calls
<1>4. task[t].id <= served /\ task[t].id # 0
  BY <1>2 DEF ServesInv, GatewayInv, Numbered
<1>. QED
  BY <1>1, <1>2, <1>3, <1>4 DEF Ended

\* What it sends is a job of its own (proxy.py do_POST).
LEMMA ForwardSends ==
    ASSUME ServesInv, NEW t \in Threads, Forward(t)
    PROVE  /\ DOMAIN jobs' = DOMAIN jobs \cup {task[t].id}
           /\ jobs' = [j \in DOMAIN jobs' |-> jobs'[j]]
           /\ jobs'[task[t].id] = Sent(t)
           /\ \A j \in DOMAIN jobs : j # task[t].id /\ jobs'[j] = jobs[j]
           /\ UNCHANGED <<vars, blocks>>
<1>1. task[t].id \notin DOMAIN jobs
  BY PreparedReturned DEF Forward
<1>2. /\ jobs' = [j \in DOMAIN jobs \cup {task[t].id} |->
                    IF j = task[t].id THEN Sent(t) ELSE jobs[j]]
      /\ UNCHANGED <<vars, blocks>>
  BY DEF Forward, Submit, Sent, UpstreamSalt
<1>. QED
  BY <1>1, <1>2

\* What is sent to the engine is one job, with the contributors of each of its blocks
\* (proxy.py do_POST, vllm_backend.py chat).
LEMMA SentTyped ==
    ASSUME PlanInv, NEW t \in Threads, Ended(t), task[t].error = None
    PROVE  /\ Sent(t) \in Jobs /\ Sent(t).reused = {}
           /\ Len(Sent(t).owns) = Len(Sent(t).contents)
           /\ Sent(t).pos \in 1..Len(Sent(t).contents) + 1
<1>. DEFINE c == task[t]
            n == Len(c.order)
            job == Sent(t)
<1>1. n \in Nat /\ DOMAIN c.order = 1..n /\ c \in Calls /\ c.request.auth \in AuthContext
  BY ReturnedCall
<1>2. /\ c.id \in Nat /\ c.now \in Nat /\ c.order \in Seq(Fragments)
  BY <1>1 DEF Calls
<1>3. \A i \in 1..n : c.order[i].content \in STRING
  <2>1. \A i \in 1..n : c.order[i] \in Fragments
    BY <1>2
  <2>. QED
    BY <2>1 DEF Fragments
<1>4. /\ job.contents = [i \in 1..n |-> c.order[i].content]
      /\ job.owns = [i \in 1..n |-> PrefixSources(t, i)]
  BY <1>1 DEF Sent
<1>5. job.contents \in [1..n -> STRING] /\ job.owns \in [1..n -> SUBSET Sources]
  BY <1>3, <1>4, SentSources
<1>6. /\ job.contents \in Seq(STRING) /\ Len(job.contents) = n
      /\ job.owns \in Seq(SUBSET Sources) /\ Len(job.owns) = n
  BY <1>1, <1>5
<1>7. DerivedSalt(t) \in Salts \cup {None}
  BY SaltOfRequest
<1>8. Sent(t) \in Jobs
  BY <1>1, <1>2, <1>6, <1>7 DEF Sent, Jobs
<1>. QED
  BY <1>1, <1>6, <1>8 DEF Sent

\* The engine that is sent a job has it, typed, under the number of its call
\* (proxy.py do_POST).
LEMMA ForwardTyped ==
    ASSUME ServesInv, NEW t \in Threads, Forward(t)
    PROVE  EngineInv'
<1>1. /\ Sent(t) \in Jobs /\ Sent(t).reused = {}
      /\ Len(Sent(t).owns) = Len(Sent(t).contents)
      /\ Sent(t).pos \in 1..Len(Sent(t).contents) + 1
      /\ task[t].id \in 1..served
  BY PreparedReturned, SentTyped DEF Forward
<1>2. /\ DOMAIN jobs' = DOMAIN jobs \cup {task[t].id}
      /\ jobs' = [j \in DOMAIN jobs' |-> jobs'[j]]
      /\ jobs'[task[t].id] = Sent(t)
      /\ \A j \in DOMAIN jobs : jobs'[j] = jobs[j]
      /\ blocks' = blocks /\ served' = served
  BY ForwardSends DEF vars
<1>3. EngineInv
  BY DEF ServesInv
<1>4. JobsTyped'
  BY <1>1, <1>2, <1>3 DEF EngineInv, JobsTyped
<1>5. BlocksTyped'
  BY <1>2, <1>3 DEF EngineInv, BlocksTyped
<1>6. ASSUME NEW j \in DOMAIN jobs'
      PROVE  /\ jobs'[j].salt \in Salts \cup {None}
             /\ Len(jobs'[j].owns) = Len(jobs'[j].contents)
             /\ jobs'[j].pos \in 1..Len(jobs'[j].contents) + 1
             /\ jobs'[j].reused \subseteq DOMAIN jobs'
  BY <1>1, <1>2, <1>3, <1>6 DEF EngineInv, EngineTypeOK, Jobs
<1>7. DOMAIN jobs' \subseteq Nat \ {0}
  BY <1>1, <1>2, <1>3 DEF EngineInv, EngineTypeOK
<1>8. EngineTypeOK'
  BY <1>2, <1>3, <1>6, <1>7 DEF EngineInv, EngineTypeOK
<1>. QED
  BY <1>4, <1>5, <1>8 DEF EngineInv

\* A thread that has sent its job waits for its answer (proxy.py do_POST).
LEMMA ForwardServes ==
    ASSUME ServesInv, NEW t \in Threads, Forward(t)
    PROVE  Serves(t)' /\ ThreadsTyped'
<1>1. /\ task[t].id \in DOMAIN jobs' /\ jobs'[task[t].id].salt = DerivedSalt(t)
      /\ UNCHANGED <<task, pc>>
  <2>1. Sent(t).salt = DerivedSalt(t)
    BY DEF Sent
  <2>. QED
    BY <2>1, ForwardSends DEF vars
<1>2. DerivedSalt(t)' = DerivedSalt(t)
  BY <1>1 DEF DerivedSalt
<1>3. JobOf(t)'
  BY <1>1, <1>2 DEF JobOf
<1>4. /\ stage'[t] = "waiting" /\ conn' = conn /\ reply' = reply /\ ThreadsTyped'
  BY DEF Forward, ServesInv, ThreadsTyped
<1>5. stage[t] = "preparing" /\ pc[t] = "idle" /\ task[t].error = None
  BY DEF Forward, Prepared
<1>. QED
  BY <1>1, <1>3, <1>4, <1>5 DEF ServesInv, Serves, HasCall

\* A step of one thread, or of the engine, leaves the others what they have
\* (proxy.py do_POST).
LEMMA OthersServe ==
    ASSUME ServesInv, NEW t \in Threads, Connect(t) \/ Handle(t) \/ Relay(t),
           NEW u \in Threads, u # t
    PROVE  Serves(u)'
<1>1. Serves(u) /\ TypeOK /\ JobsTyped
  BY DEF ServesInv, GatewayInv, PlanInv, WalkInv, EngineInv
<1>2. stage'[u] = stage[u] /\ conn'[u] = conn[u] /\ reply'[u] = reply[u]
  BY DEF ServesInv, ThreadsTyped, Connect, Describe, NotFound, Unauthorized, ChokeOnBody,
         RejectBody, Dismiss, Open, Handle, Walk, proxyVars, Fail, Forward, Unreachable, Answer,
         Lose, Relay, Close
<1>3. task'[u] = task[u] /\ pc'[u] = pc[u]
  <2>1. Arrive(t) \/ Proceed(t) \/ UNCHANGED vars
    BY ConnectServes, OpenedAssumption
       DEF Connect, Dismiss, Open, Opened, RequestBehind, Arrive, Handle, Walk, Fail, Forward,
           Unreachable, Answer, Lose, Relay, Close
  <2>. QED
    BY <1>1, <2>1, StepsAreLocal DEF OnlyMoves, vars
<1>4. stage[u] = "preparing" => task[u].id \notin DOMAIN jobs
  BY <1>1 DEF Serves
<1>5. CASE Forward(t)
  <2>1. stage[u] = "preparing" => task[t].id # task[u].id
    <3>1. stage[u] = "preparing" => task[u].request # None
      BY <1>1, NoRequestAssumption DEF Serves
    <3>. QED
      BY <1>5, <3>1, PreparedReturned DEF Forward, ServesInv, GatewayInv, Numbered
  <2>2. /\ DOMAIN jobs' = DOMAIN jobs \cup {task[t].id}
        /\ \A j \in DOMAIN jobs : jobs'[j] = jobs[j]
    BY <1>5, ForwardSends
  <2>. QED
    BY <1>1, <1>2, <1>3, <1>4, <2>1, <2>2, StillServes
<1>6. CASE UNCHANGED jobs
  BY <1>1, <1>2, <1>3, <1>6, <1>4, StillServes
<1>7. CASE Relay(t)
  <2>1. stage[t] = "waiting" /\ Abandon(task[t].id) /\ task[t].id \in DOMAIN jobs
    BY <1>7 DEF Relay, ServesInv, Serves, JobOf
  <2>2. /\ DOMAIN jobs' = DOMAIN jobs
        /\ \A j \in DOMAIN jobs : SameOrder(jobs'[j], jobs[j])
    BY <1>1, <2>1, EngineWorksOnJobs DEF Works
  <2>. QED
    BY <1>1, <1>2, <1>3, <1>4, <2>2, StillServes DEF SameOrder
<1>8. Forward(t) \/ Relay(t) \/ UNCHANGED jobs
  BY DEF Connect, Describe, NotFound, Unauthorized, ChokeOnBody, RejectBody, Dismiss, Open,
         Handle, Walk, Fail, Unreachable, Answer, Lose, Close, engineVars
<1>. QED
  BY <1>5, <1>6, <1>7, <1>8

\* Nothing happens at the start (proxy.py make_handler).
LEMMA InitServes == ProxyInit => ServesInv
<1>. SUFFICES ASSUME ProxyInit PROVE ServesInv
  OBVIOUS
<1>1. GatewayInv
  BY InitGateway DEF ProxyInit
<1>2. EngineInv
  BY DEF ProxyInit, EngineInit, EngineInv, EngineTypeOK, JobsTyped, BlocksTyped
<1>3. \A n \in Nat : n # None
  BY NoneAssumption
<1>4. ThreadsTyped /\ \A t \in Threads : Serves(t)
  BY <1>3 DEF ProxyInit, Init, ThreadsTyped, Serves, HasCall, Replied, NoReply, Answered
<1>. QED
  BY <1>1, <1>2, <1>4 DEF ServesInv

\* What a step does to the engine (proxy.py do_POST, vllm_backend.py chat).
LEMMA StepsTheEngine ==
    ASSUME ServesInv, [ProxyNext]_allVars
    PROVE  \/ \E t \in Threads : Forward(t)
           \/ UNCHANGED engineVars /\ DOMAIN jobs \subseteq 1..served'
           \/ Works /\ UNCHANGED served
<1>1. served \in Nat /\ DOMAIN jobs \subseteq 1..served
  BY DEF ServesInv, GatewayInv, PlanInv, WalkInv, TypeOK, EngineInv, JobsTyped
<1>2. served' \in {served, served + 1}
  <2>1. [Next]_vars
    BY StepsTheGateway
  <2>. QED
    BY <2>1, <1>1, ArriveNumbers, ProceedNumbersNone
       DEF Next, Tick, Terminating, vars, ServesInv, GatewayInv, PlanInv, WalkInv
<1>3. DOMAIN jobs \subseteq 1..served'
  BY <1>1, <1>2
<1>4. ASSUME NEW t \in Threads, Connect(t) PROVE UNCHANGED engineVars
  BY <1>4 DEF Connect, Describe, NotFound, Unauthorized, ChokeOnBody, RejectBody, Dismiss, Open
<1>5. ASSUME NEW t \in Threads, Handle(t) PROVE Forward(t) \/ UNCHANGED engineVars
  BY <1>5 DEF Handle, Walk, Fail, Unreachable, Answer, Lose
<1>6. ASSUME NEW t \in Threads, Relay(t) PROVE Works /\ UNCHANGED served
  BY <1>6 DEF Relay, Close, vars, Works, ServesInv, Serves, JobOf
<1>7. CASE EngineNext /\ UNCHANGED <<vars, proxyVars>>
  BY <1>7 DEF Works, vars
<1>8. CASE Tick /\ UNCHANGED <<engineVars, proxyVars>>
  BY <1>3, <1>8
<1>9. CASE UNCHANGED allVars
  BY <1>3, <1>9 DEF allVars
<1>. QED
  BY <1>3, <1>4, <1>5, <1>6, <1>7, <1>8, <1>9 DEF ProxyNext, Elsewhere, Resting

\* And every step leaves each thread with a request, a job and an answer of its own
\* (proxy.py do_POST).
LEMMA NextServes == ServesInv /\ [ProxyNext]_allVars => ServesInv'
<1>. SUFFICES ASSUME ServesInv, [ProxyNext]_allVars PROVE ServesInv'
  OBVIOUS
<1>1. GatewayInv'
  BY StepsTheGateway, NextGateway DEF ServesInv
<1>2. EngineInv'
  <2>1. ASSUME UNCHANGED engineVars, DOMAIN jobs \subseteq 1..served' PROVE EngineInv'
    BY <2>1 DEF ServesInv, EngineInv, EngineTypeOK, JobsTyped, BlocksTyped, engineVars
  <2>2. ASSUME Works, UNCHANGED served PROVE EngineInv'
    BY <2>2, EngineStaysTyped DEF ServesInv
  <2>. QED
    BY <2>1, <2>2, StepsTheEngine, ForwardTyped
<1>3. ASSUME NEW t \in Threads, Connect(t) \/ Handle(t) \/ Relay(t)
      PROVE  ThreadsTyped' /\ \A u \in Threads : Serves(u)'
  <2>1. Serves(t)' /\ ThreadsTyped'
    BY <1>3, ConnectServes, OpenServes, WalkServes, ForwardServes, CloseServes DEF Connect, Handle
  <2>2. \A u \in Threads \ {t} : Serves(u)'
    BY <1>3, OthersServe
  <2>. QED
    BY <2>1, <2>2
<1>4. ASSUME UNCHANGED <<task, pc, stage, conn, reply>>, UNCHANGED jobs \/ Works
      PROVE  ThreadsTyped' /\ \A u \in Threads : Serves(u)'
  <2>1. /\ DOMAIN jobs' = DOMAIN jobs
        /\ \A j \in DOMAIN jobs : jobs'[j].salt = jobs[j].salt
    BY <1>4, EngineWorksOnJobs DEF SameOrder, ServesInv, EngineInv
  <2>2. ASSUME NEW u \in Threads PROVE Serves(u)'
    <3>1. Serves(u) /\ (stage[u] = "preparing" => task[u].id \notin DOMAIN jobs)
      BY DEF ServesInv, Serves
    <3>. QED
      BY <1>4, <2>1, <3>1, StillServes
  <2>. QED
    BY <1>4, <2>2 DEF ServesInv, ThreadsTyped
<1>5. UNCHANGED allVars => UNCHANGED <<task, pc, stage, conn, reply, jobs>>
  BY DEF allVars, vars, engineVars, proxyVars
<1>6. ASSUME \/ EngineNext /\ UNCHANGED <<vars, proxyVars>>
             \/ Tick /\ UNCHANGED <<engineVars, proxyVars>>
             \/ UNCHANGED allVars
      PROVE  ThreadsTyped' /\ \A u \in Threads : Serves(u)'
  <2>1. UNCHANGED <<task, pc, stage, conn, reply>> /\ (UNCHANGED jobs \/ Works)
    BY <1>5, <1>6 DEF Works, Tick, vars, proxyVars, engineVars
  <2>. QED
    BY <1>4, <2>1
<1>7. ThreadsTyped' /\ \A u \in Threads : Serves(u)'
  BY <1>3, <1>6 DEF ProxyNext, Elsewhere, Resting
<1>. QED
  BY <1>1, <1>2, <1>7 DEF ServesInv

\* So in every state each thread has the request, the job and the answer of its own
\* connection (proxy.py do_POST).
LEMMA AlwaysServes == ProxySpec => []ServesInv
BY InitServes, NextServes, PTL DEF ProxySpec

\* The proxy's state is typed (proxy.py, vllm_backend.py).
THEOREM ProxyTypeCorrect == ProxySpec => []ProxyTypeOK
<1>1. ServesInv => ProxyTypeOK
  <2>. SUFFICES ASSUME ServesInv PROVE ProxyTypeOK
    OBVIOUS
  <2>1. /\ TypeOK /\ EngineTypeOK /\ PlanInv
        /\ stage \in [Threads -> {"free", "preparing", "waiting"}]
        /\ conn \in [Threads -> Connections \cup {None}]
    BY DEF ServesInv, GatewayInv, PlanInv, WalkInv, EngineInv, ThreadsTyped
  <2>2. \A n \in Nat : n # None
    BY NoneAssumption
  <2>3. ASSUME NEW t \in Threads
        PROVE  /\ stage[t] # "free" => conn[t] \in Connections /\ Authorized(conn[t])
               /\ stage[t] = "waiting" => task[t].id \in DOMAIN jobs
               /\ reply[t].code = 400 => reply[t].error \in ErrorCodes
    <3>1. Serves(t) /\ stage[t] \in {"free", "preparing", "waiting"}
      BY <2>1 DEF ServesInv
    <3>. QED
      BY <2>1, <2>2, <3>1 DEF Serves, Replied, HasCall, Opened, JobOf, NoReply, Answered
  <2>4. ASSUME NEW t \in Threads
        PROVE  Len(reply[t].cache_status) \in {0, Len(task[t].order)}
    <3>1. Serves(t)
      BY DEF ServesInv
    <3>2. reply[t].cache_status = <<>> \/ (HasCall(t) /\ stage[t] = "free" /\ task[t].error = None
                                            /\ reply[t].cache_status = CacheStatus(t, conn[t].body))
      BY <3>1 DEF Serves, Replied, NoReply, Answered
    <3>3. CASE reply[t].cache_status = <<>>
      BY <3>3
    <3>4. CASE /\ HasCall(t) /\ stage[t] = "free" /\ task[t].error = None
               /\ reply[t].cache_status = CacheStatus(t, conn[t].body)
      <4>1. Ended(t)
        BY <3>1, <3>4, NoRequestAssumption DEF Serves, Ended
      <4>2. DOMAIN task[t].statuses = 1..Len(task[t].order) /\ Len(task[t].order) \in Nat
        BY <2>1, <3>4, <4>1, ReturnedCall
      <4>. DEFINE n == Len(task[t].order)
                  status(i) == CacheStatus(t, conn[t].body)[i]
      <4>3. CacheStatus(t, conn[t].body) = [i \in 1..n |-> status(i)]
        BY <4>2 DEF CacheStatus, Lowered
      <4>. HIDE DEF status
      <4>4. Len([i \in 1..n |-> status(i)]) = n
        BY <4>2
      <4>. QED
        BY <3>4, <4>3, <4>4
    <3>. QED
      BY <3>2, <3>3, <3>4
  <2>. QED
    BY <2>1, <2>3, <2>4 DEF ProxyTypeOK
<1>. QED
  BY <1>1, AlwaysServes, PTL

-----------------------------------------------------------------------------
\* How a connection comes to its end

\* What each place of do_POST leaves to do (proxy.py do_POST).
LEMMA TurnsAt ==
    ASSUME NEW t \in Threads
    PROVE  /\ stage[t] = "free" => TurnsLeft(t) = 0
           /\ stage[t] = "waiting" => TurnsLeft(t) = 1
           /\ stage[t] = "preparing" => TurnsLeft(t) = StepsLeft(t) + 2
BY DEF TurnsLeft

\* And after a step.
LEMMA TurnsAfter ==
    ASSUME NEW t \in Threads
    PROVE  /\ stage'[t] = "free" => TurnsLeft(t)' = 0
           /\ stage'[t] = "waiting" => TurnsLeft(t)' = 1
           /\ stage'[t] = "preparing" => TurnsLeft(t)' = StepsLeft(t)' + 2
BY DEF TurnsLeft

\* Only the handler thread of a step moves (proxy.py do_POST).
LEMMA ThreadsAreLocal ==
    ASSUME ServesInv, NEW t \in Threads, Connect(t) \/ Handle(t) \/ Relay(t),
           NEW u \in Threads, u # t
    PROVE  stage'[u] = stage[u] /\ pc'[u] = pc[u] /\ task'[u] = task[u]
<1>1. TypeOK /\ stage \in [Threads -> {"free", "preparing", "waiting"}]
  BY DEF ServesInv, GatewayInv, PlanInv, WalkInv, ThreadsTyped
<1>2. CASE Arrive(t) \/ Proceed(t)
  <2>1. pc'[u] = pc[u] /\ task'[u] = task[u]
    BY <1>1, <1>2, StepsAreLocal DEF OnlyMoves
  <2>2. \A v \in Threads \ {t} : stage'[v] = stage[v]
    BY <1>1 DEF Connect, Describe, NotFound, Unauthorized, ChokeOnBody, RejectBody, Dismiss, Open,
                Handle, Walk, Fail, Forward, Unreachable, Answer, Lose, Relay, Close, proxyVars
  <2>. QED
    BY <2>1, <2>2
<1>3. CASE UNCHANGED vars
  <2>1. \A v \in Threads \ {t} : stage'[v] = stage[v]
    BY <1>1 DEF Connect, Describe, NotFound, Unauthorized, ChokeOnBody, RejectBody, Dismiss, Open,
                Handle, Walk, Fail, Forward, Unreachable, Answer, Lose, Relay, Close, proxyVars
  <2>. QED
    BY <1>3, <2>1 DEF vars
<1>4. ASSUME NEW c \in Connections, Open(t, c) PROVE Arrive(t)
  <2>1. RequestBehind(c) \in Requests
    BY <1>4, OpenedAssumption DEF Open, RequestBehind
  <2>. QED
    BY <1>4, <2>1 DEF Open, RequestBehind, Arrive
<1>5. CASE Connect(t)
  BY <1>2, <1>3, <1>4, <1>5 DEF Connect, Describe, NotFound, Unauthorized, ChokeOnBody, RejectBody,
                               Dismiss
<1>6. CASE Handle(t) \/ Relay(t)
  BY <1>2, <1>3, <1>6 DEF Handle, Walk, Fail, Forward, Unreachable, Answer, Lose, Relay, Close
<1>. QED
  BY <1>5, <1>6

\* A step of a handler thread does away with some of the work it has left (proxy.py
\* do_POST).
LEMMA HandlingCountsDown ==
    ASSUME ServesInv, NEW t \in Threads, Handle(t) \/ Relay(t)
    PROVE  TurnsLeft(t)' \in 0..(TurnsLeft(t) - 1)
<1>1. /\ WalkInv /\ TypeOK /\ Walked(task[t])
      /\ stage \in [Threads -> {"free", "preparing", "waiting"}]
  BY DEF ServesInv, GatewayInv, PlanInv, WalkInv, ThreadsTyped
<1>2. StepsLeft(t) \in Nat
  <2>1. CASE pc[t] = "idle"
    BY <2>1 DEF StepsLeft
  <2>2. CASE pc[t] # "idle"
    BY <1>1, <2>2, SomeStepLeft
  <2>. QED
    BY <2>1, <2>2
<1>3. CASE Walk(t)
  <2>1. stage[t] = "preparing" /\ stage'[t] = "preparing" /\ Proceed(t)
    BY <1>3 DEF Walk, proxyVars
  <2>2. StepsLeft(t)' \in 0..(StepsLeft(t) - 1)
    BY <1>1, <2>1, ProceedCountsDown
  <2>3. TurnsLeft(t) = StepsLeft(t) + 2 /\ TurnsLeft(t)' = StepsLeft(t)' + 2
    BY <2>1, TurnsAt, TurnsAfter
  <2>. QED
    BY <1>2, <2>2, <2>3
<1>4. CASE Fail(t) \/ Unreachable(t) \/ Answer(t) \/ Lose(t) \/ Relay(t)
  <2>1. stage[t] \in {"preparing", "waiting"} /\ stage'[t] = "free"
    BY <1>1, <1>4 DEF Fail, Unreachable, Prepared, Answer, Lose, Relay, Close
  <2>2. TurnsLeft(t) \in Nat \ {0} /\ TurnsLeft(t)' = 0
    BY <1>2, <2>1, TurnsAt, TurnsAfter
  <2>. QED
    BY <2>2
<1>5. CASE Forward(t)
  <2>1. stage[t] = "preparing" /\ stage'[t] = "waiting"
    BY <1>1, <1>5 DEF Forward, Prepared
  <2>2. TurnsLeft(t) = StepsLeft(t) + 2 /\ TurnsLeft(t)' = 1
    BY <2>1, TurnsAt, TurnsAfter
  <2>. QED
    BY <1>2, <2>2
<1>. QED
  BY <1>3, <1>4, <1>5 DEF Handle

\* Whatever clients, other threads, the clock and the engine do, the work a handler
\* thread has left only goes down, with each of its steps, for every number of threads
\* and fragments (proxy.py do_POST, gateway.py handle).
THEOREM HandlersCountDown == ProxySpec => ConnectionsCountDown
<1>1. ASSUME ServesInv, [ProxyNext]_allVars
      PROVE  \A t \in Threads : stage[t] # "free" =>
                \/ stage'[t] = stage[t] /\ pc'[t] = pc[t] /\ task'[t] = task[t]
                \/ TurnsLeft(t)' \in 0..(TurnsLeft(t) - 1)
  <2>. SUFFICES ASSUME NEW t \in Threads, stage[t] # "free"
                PROVE  \/ stage'[t] = stage[t] /\ pc'[t] = pc[t] /\ task'[t] = task[t]
                       \/ TurnsLeft(t)' \in 0..(TurnsLeft(t) - 1)
    OBVIOUS
  <2>1. ASSUME NEW u \in Threads, Connect(u) \/ Handle(u) \/ Relay(u), u # t
        PROVE  stage'[t] = stage[t] /\ pc'[t] = pc[t] /\ task'[t] = task[t]
    BY <1>1, <2>1, ThreadsAreLocal
  <2>2. CASE Handle(t) \/ Relay(t)
    BY <1>1, <2>2, HandlingCountsDown
  <2>3. ~Connect(t)
    BY DEF Connect, Describe, NotFound, Unauthorized, ChokeOnBody, RejectBody, Dismiss, Open
  <2>4. CASE UNCHANGED <<pc, task, stage>>
    BY <2>4
  <2>5. (EngineNext /\ UNCHANGED <<vars, proxyVars>>) \/ (Tick /\ UNCHANGED <<engineVars, proxyVars>>)
           \/ UNCHANGED allVars => UNCHANGED <<pc, task, stage>>
    BY DEF Tick, vars, proxyVars, allVars
  <2>. QED
    BY <1>1, <2>1, <2>2, <2>3, <2>4, <2>5 DEF ProxyNext, Elsewhere, Resting
<1>. QED
  BY <1>1, AlwaysServes, PTL DEF ProxySpec, ConnectionsCountDown

-----------------------------------------------------------------------------
\* What requests with one salt share

ComesFrom(s, salt) == \E d \in DOMAIN jobs : jobs[d].salt = salt /\ s \in JobSources(d)

\* A block answers to requests with its salt; the one that computed it has no
\* longer found all of its own.
BlockOfSalt(k) ==
    /\ jobs[blocks[k].by].salt = k.salt /\ ~jobs[blocks[k].by].hitting
    /\ \A s \in blocks[k].own \cup blocks[k].inherited : ComesFrom(s, k.salt)

\* A job draws on others with its salt.
DrawsFromSalt(j) ==
    /\ \A s \in jobs[j].drawn : ComesFrom(s, jobs[j].salt)
    /\ \A d \in jobs[j].reused : d # j /\ jobs[d].salt = jobs[j].salt

SharingInv == /\ ServesInv
              /\ \A k \in DOMAIN blocks : BlockOfSalt(k)
              /\ \A j \in DOMAIN jobs : DrawsFromSalt(j)

\* Where salts derive from policies, they say so.
SaltInv == SharingInv /\ \A j \in DOMAIN jobs : SaltSays(j)

\* The engine shares only by salt (vllm_backend.py salt_for).
LEMMA EngineSharesBySalt ==
    ASSUME SharingInv, Works
    PROVE  /\ \A k \in DOMAIN blocks' : BlockOfSalt(k)'
           /\ \A j \in DOMAIN jobs' : DrawsFromSalt(j)'
<1>1. /\ EngineInv /\ JobsTyped /\ BlocksTyped
      /\ \A j \in DOMAIN jobs : jobs[j].reused \subseteq DOMAIN jobs
  BY DEF SharingInv, ServesInv, EngineInv, EngineTypeOK
<1>2. /\ DOMAIN jobs' = DOMAIN jobs
      /\ \A j \in DOMAIN jobs : jobs'[j].salt = jobs[j].salt /\ jobs'[j].owns = jobs[j].owns
  BY <1>1, EngineWorksOnJobs DEF SameOrder
<1>3. \A s, salt : ComesFrom(s, salt) => ComesFrom(s, salt)'
  BY <1>2 DEF ComesFrom, JobSources
<1>4. \A k \in DOMAIN blocks : blocks[k].by \in DOMAIN jobs
  BY <1>1 DEF BlocksTyped
<1>5. ASSUME NEW k \in DOMAIN blocks, blocks'[k] = blocks[k],
             ~jobs[blocks[k].by].hitting => ~jobs'[blocks[k].by].hitting
      PROVE  BlockOfSalt(k)'
  BY <1>2, <1>3, <1>4, <1>5 DEF SharingInv, BlockOfSalt
<1>6. ASSUME NEW j \in DOMAIN jobs, jobs'[j].drawn = jobs[j].drawn, jobs'[j].reused = jobs[j].reused
      PROVE  DrawsFromSalt(j)'
  BY <1>1, <1>2, <1>3, <1>6 DEF SharingInv, DrawsFromSalt
<1>7. \A j \in DOMAIN jobs : jobs[j] \in Jobs
  BY <1>1 DEF JobsTyped
<1>8. ASSUME NEW j \in DOMAIN jobs, ReuseBlock(j)
      PROVE  /\ \A k \in DOMAIN blocks' : BlockOfSalt(k)'
             /\ \A i \in DOMAIN jobs' : DrawsFromSalt(i)'
  <2>. DEFINE k == JobKey(j)
  <2>1. /\ jobs[j].hitting /\ k \in DOMAIN blocks /\ k.salt = jobs[j].salt /\ blocks' = blocks
        /\ \A i \in DOMAIN jobs : i # j => jobs'[i] = jobs[i]
    BY <1>8 DEF ReuseBlock, Found, JobKey
  <2>2. jobs'[j] = [jobs[j] EXCEPT !.pos = @ + 1,
                                   !.drawn = @ \cup blocks[k].own \cup blocks[k].inherited,
                                   !.reused = @ \cup {blocks[k].by}]
    BY <1>8 DEF ReuseBlock
  <2>3. /\ jobs'[j].hitting = jobs[j].hitting
        /\ jobs'[j].drawn = jobs[j].drawn \cup blocks[k].own \cup blocks[k].inherited
        /\ jobs'[j].reused = jobs[j].reused \cup {blocks[k].by}
    BY <1>7, <2>2 DEF Jobs
  <2>4. BlockOfSalt(k) /\ blocks[k].by # j /\ blocks[k].by \in DOMAIN jobs
    BY <1>4, <2>1 DEF SharingInv, BlockOfSalt
  <2>5. DrawsFromSalt(j)'
    BY <1>1, <1>2, <1>3, <2>1, <2>3, <2>4 DEF SharingInv, DrawsFromSalt, BlockOfSalt
  <2>6. \A i \in DOMAIN jobs : jobs'[i].hitting = jobs[i].hitting
    BY <2>1, <2>3
  <2>. QED
    BY <1>2, <1>4, <1>5, <1>6, <2>1, <2>5, <2>6
<1>9. ASSUME NEW j \in DOMAIN jobs, ComputeBlock(j)
      PROVE  /\ \A k \in DOMAIN blocks' : BlockOfSalt(k)'
             /\ \A i \in DOMAIN jobs' : DrawsFromSalt(i)'
  <2>. PICK k : k = JobKey(j)
    OBVIOUS
  <2>1. /\ jobs'[j] = [jobs[j] EXCEPT !.pos = @ + 1, !.hitting = FALSE]
        /\ \A i \in DOMAIN jobs : i # j => jobs'[i] = jobs[i]
        /\ k.salt = jobs[j].salt /\ Unfinished(j)
    BY <1>9 DEF ComputeBlock, JobKey
  <2>2. ~jobs'[j].hitting /\ jobs'[j].drawn = jobs[j].drawn /\ jobs'[j].reused = jobs[j].reused
    BY <1>7, <2>1 DEF Jobs
  <2>3. \A i \in DOMAIN jobs : DrawsFromSalt(i)'
    BY <1>6, <2>1, <2>2
  <2>4. \A b \in DOMAIN blocks : ~jobs[blocks[b].by].hitting => ~jobs'[blocks[b].by].hitting
    BY <1>4, <2>1, <2>2
  <2>5. CASE UNCHANGED blocks
    BY <1>2, <1>5, <2>3, <2>4, <2>5
  <2>6. CASE blocks' = [b \in DOMAIN blocks \cup {k} |->
                          IF b = k THEN [own |-> jobs[j].owns[jobs[j].pos],
                                         inherited |-> jobs[j].drawn, by |-> j]
                          ELSE blocks[b]]
    <3>1. \A b \in DOMAIN blocks' : b # k => b \in DOMAIN blocks /\ blocks'[b] = blocks[b]
      BY <2>6
    <3>2. jobs[j].owns[jobs[j].pos] \subseteq JobSources(j)
      <4>1. jobs[j].pos \in 1..Len(jobs[j].contents) /\ Len(jobs[j].owns) = Len(jobs[j].contents)
        BY <1>1, <2>1, JobTypes DEF EngineInv, EngineTypeOK
      <4>2. jobs[j].owns \in Seq(SUBSET Sources)
        BY <1>7 DEF Jobs
      <4>3. jobs[j].pos \in DOMAIN jobs[j].owns
        BY <4>1, <4>2
      <4>. QED
        BY <4>3 DEF JobSources
    <3>3. \A s \in JobSources(j) \cup jobs[j].drawn : ComesFrom(s, k.salt)
      BY <2>1 DEF ComesFrom, SharingInv, DrawsFromSalt
    <3>4. BlockOfSalt(k)'
      BY <1>2, <1>3, <2>1, <2>2, <2>6, <3>2, <3>3 DEF BlockOfSalt
    <3>. QED
      BY <1>2, <1>5, <2>3, <2>4, <3>1, <3>4
  <2>. QED
    BY <1>9, <2>5, <2>6 DEF ComputeBlock
<1>10. ASSUME NEW j \in DOMAIN jobs, Abandon(j)
       PROVE  /\ \A k \in DOMAIN blocks' : BlockOfSalt(k)'
              /\ \A i \in DOMAIN jobs' : DrawsFromSalt(i)'
  <2>1. \A i \in DOMAIN jobs : /\ jobs'[i].drawn = jobs[i].drawn /\ jobs'[i].reused = jobs[i].reused
                               /\ jobs'[i].hitting = jobs[i].hitting
    BY <1>7, <1>10 DEF Abandon, Jobs
  <2>. QED
    BY <1>2, <1>4, <1>5, <1>6, <1>10, <2>1 DEF Abandon
<1>11. ASSUME NEW b, EvictBlock(b)
       PROVE  /\ \A k \in DOMAIN blocks' : BlockOfSalt(k)'
              /\ \A i \in DOMAIN jobs' : DrawsFromSalt(i)'
  BY <1>2, <1>5, <1>6, <1>11 DEF EvictBlock
<1>. QED
  BY <1>8, <1>9, <1>10, <1>11 DEF Works, EngineNext

\* Another job takes nothing from those there are (proxy.py do_POST).
LEMMA ForwardShares ==
    ASSUME SharingInv, NEW t \in Threads, Forward(t)
    PROVE  /\ \A k \in DOMAIN blocks' : BlockOfSalt(k)'
           /\ \A j \in DOMAIN jobs' : DrawsFromSalt(j)'
<1>1. /\ BlocksTyped /\ \A j \in DOMAIN jobs : jobs[j].reused \subseteq DOMAIN jobs
  BY DEF SharingInv, ServesInv, EngineInv, EngineTypeOK
<1>2. PICK id : id = task[t].id
  OBVIOUS
<1>3. /\ DOMAIN jobs' = DOMAIN jobs \cup {id} /\ jobs'[id] = Sent(t)
      /\ \A j \in DOMAIN jobs : jobs'[j] = jobs[j]
      /\ blocks' = blocks
  BY <1>2, ForwardSends DEF SharingInv
<1>4. \A s, salt : ComesFrom(s, salt) => ComesFrom(s, salt)'
  BY <1>3 DEF ComesFrom, JobSources
<1>5. DrawsFromSalt(id)'
  <2>1. Sent(t).drawn = {} /\ Sent(t).reused = {}
    BY DEF Sent
  <2>. QED
    BY <1>3, <2>1 DEF DrawsFromSalt
<1>6. \A j \in DOMAIN jobs : DrawsFromSalt(j)'
  BY <1>1, <1>3, <1>4 DEF SharingInv, DrawsFromSalt
<1>7. \A k \in DOMAIN blocks' : BlockOfSalt(k)'
  BY <1>1, <1>3, <1>4 DEF SharingInv, BlockOfSalt, BlocksTyped
<1>. QED
  BY <1>3, <1>5, <1>6, <1>7

\* So sharing stays within a salt, whatever the backend (proxy.py, vllm_backend.py).
LEMMA AlwaysSharing == ProxySpec => []SharingInv
<1>1. ProxyInit => SharingInv
  BY InitServes DEF ProxyInit, EngineInit, SharingInv
<1>2. SharingInv /\ [ProxyNext]_allVars => SharingInv'
  <2>. SUFFICES ASSUME SharingInv, [ProxyNext]_allVars PROVE SharingInv'
    OBVIOUS
  <2>1. ServesInv'
    BY NextServes DEF SharingInv
  <2>2. CASE UNCHANGED engineVars
    BY <2>1, <2>2 DEF engineVars, SharingInv, BlockOfSalt, DrawsFromSalt, ComesFrom, JobSources
  <2>. QED
    BY <2>1, <2>2, StepsTheEngine, ForwardShares, EngineSharesBySalt DEF SharingInv
<1>. QED
  BY <1>1, <1>2, PTL DEF ProxySpec

\* And where the backend takes salts, each says of its request what the policies ask
\* (binding_openai.py _lower_request_salt).
LEMMA AlwaysSalted ==
    ASSUME HasSalts
    PROVE  ProxySpec => []SaltInv
<1>. DEFINE Said == \A j \in DOMAIN jobs : SaltSays(j)
<1>1. ProxyInit => Said
  BY DEF ProxyInit, EngineInit
<1>2. ServesInv /\ Said /\ [ProxyNext]_allVars => Said'
  <2>. SUFFICES ASSUME ServesInv, Said, [ProxyNext]_allVars PROVE Said'
    OBVIOUS
  <2>1. ASSUME NEW t \in Threads, Forward(t) PROVE Said'
    <3>1. PICK id : task[t].id = id
      OBVIOUS
    <3>2. /\ DOMAIN jobs' = DOMAIN jobs \cup {id} /\ jobs'[id] = Sent(t)
          /\ \A j \in DOMAIN jobs : jobs'[j] = jobs[j]
      BY <2>1, <3>1, ForwardSends
    <3>3. SaltSays(id)'
      BY <2>1, <3>1, <3>2, PreparedReturned, SentSays DEF Forward
    <3>4. \A j \in DOMAIN jobs : SaltSays(j)'
      BY <3>2, SaltStillSays DEF SameOrder
    <3>. QED
      BY <3>2, <3>3, <3>4
  <2>2. ASSUME UNCHANGED engineVars PROVE Said'
    BY <2>2, SaltStillSays DEF engineVars, SameOrder
  <2>3. ASSUME Works PROVE Said'
    BY <2>3, EngineWorksOnJobs, SaltStillSays DEF ServesInv, EngineInv
  <2>. QED
    BY <2>1, <2>2, <2>3, StepsTheEngine
<1>3. SharingInv => ServesInv
  BY DEF SharingInv
<1>4. SharingInv /\ Said => SaltInv
  BY DEF SaltInv
<1>. QED
  BY <1>1, <1>2, <1>3, <1>4, AlwaysSharing, PTL DEF ProxySpec

\* Two requests with one salt are governed alike, by the same namespaces, and neither
\* is one that must be fresh (binding_openai.py _lower_request_salt).
LEMMA SameSalt ==
    ASSUME SaltInv, NEW i \in DOMAIN jobs, NEW j \in DOMAIN jobs, i # j,
           jobs[i].salt = jobs[j].salt
    PROVE  /\ JobSources(i) = {} <=> JobSources(j) = {}
           /\ NamespaceChain(i) = NamespaceChain(j)
           /\ ~MustBeFresh(i) /\ ~MustBeFresh(j)
           /\ \A s \in JobSources(i) : InBoundary(s, jobs[j].reader)
<1>1. SaltSays(i) /\ SaltSays(j)
  BY DEF SaltInv
<1>2. JobSources(i) = {} <=> JobSources(j) = {}
  BY <1>1 DEF SaltSays
<1>3. NamespaceChain(i) = NamespaceChain(j)
  BY <1>1 DEF SaltSays
<1>4. CASE jobs[i].salt = None
  <2>1. JobSources(i) = {} /\ JobSources(j) = {}
    BY <1>1, <1>4 DEF SaltSays
  <2>2. ~MustBeFresh(i) /\ ~MustBeFresh(j)
    BY <2>1 DEF MustBeFresh, JobSources
  <2>. QED
    BY <1>3, <2>1, <2>2
<1>5. CASE jobs[i].salt # None
  <2>1. PICK a \in Scopes :
           /\ jobs[i].salt.partition = PartitionFor(a, jobs[i].reader.auth, i)
           /\ \A s \in JobSources(i) : ShareRank(a) <= ShareRank(s.constraints.share_max)
           /\ MustBeFresh(i) => a = "request"
    BY <1>1, <1>5 DEF SaltSays
  <2>2. PICK b \in Scopes :
           /\ jobs[j].salt.partition = PartitionFor(b, jobs[j].reader.auth, j)
           /\ MustBeFresh(j) => b = "request"
    BY <1>1, <1>5 DEF SaltSays
  <2>3. PartitionFor(a, jobs[i].reader.auth, i) = PartitionFor(b, jobs[j].reader.auth, j)
    BY <2>1, <2>2
  <2>4. a = b
    BY <2>3, PartitionScope
  <2>5. a # "request"
    BY <2>3, <2>4 DEF PartitionFor
  <2>6. ASSUME NEW s \in JobSources(i) PROVE InBoundary(s, jobs[j].reader)
    <3>1. s \in Sources /\ s.auth = jobs[i].reader.auth /\ jobs[j].reader.request = j
      BY <1>1 DEF SaltSays
    <3>2. PartitionFor(a, jobs[j].reader.auth, jobs[j].reader.request) = PartitionFor(a, s.auth, i)
      BY <2>3, <2>4, <3>1
    <3>. QED
      BY <2>1, <2>5, <3>1, <3>2, SamePartitionInBoundary
  <2>. QED
    BY <1>2, <1>3, <2>1, <2>2, <2>4, <2>5, <2>6
<1>. QED
  BY <1>4, <1>5

\* A request that must be fresh shares nothing with any other, whatever the threads
\* and the engine do (binding_openai.py _lower_request_salt, must_bypass).
THEOREM BypassIsAlwaysFresh ==
    ASSUME HasSalts
    PROVE  ProxySpec => []BypassIsFresh
<1>1. SaltInv => BypassIsFresh
  <2>. SUFFICES ASSUME SaltInv, NEW j \in DOMAIN jobs, MustBeFresh(j)
                PROVE  jobs[j].reused = {} /\ \A other \in DOMAIN jobs : j \notin jobs[other].reused
    BY DEF BypassIsFresh
  <2>1. \A i \in DOMAIN jobs : \A d \in jobs[i].reused :
           d # i /\ d \in DOMAIN jobs /\ jobs[d].salt = jobs[i].salt
    BY DEF SaltInv, SharingInv, DrawsFromSalt, ServesInv, EngineInv, EngineTypeOK
  <2>. QED
    BY <2>1, SameSalt
<1>. QED
  BY <1>1, AlwaysSalted, PTL

\* State is shared only between requests with the same namespaces in the same order
\* (binding_openai.py _lower_request_salt, namespace).
THEOREM RequestNamespacesKeepApart ==
    ASSUME HasSalts
    PROVE  ProxySpec => []ReuseWithinRequestNamespaces
<1>1. SaltInv => ReuseWithinRequestNamespaces
  BY SameSalt DEF SaltInv, SharingInv, DrawsFromSalt, ServesInv, EngineInv, EngineTypeOK,
                  ReuseWithinRequestNamespaces
<1>. QED
  BY <1>1, AlwaysSalted, PTL

\* Requests without policy and governed ones share nothing, whatever a body says of
\* cache_salt (binding_openai.py strip_binding_members, prepare).
THEOREM GovernedStayApart ==
    ASSUME HasSalts
    PROVE  ProxySpec => []GovernedKeptApart
<1>1. SaltInv => GovernedKeptApart
  BY SameSalt DEF SaltInv, SharingInv, DrawsFromSalt, ServesInv, EngineInv, EngineTypeOK,
                  GovernedKeptApart
<1>. QED
  BY <1>1, AlwaysSalted, PTL

-----------------------------------------------------------------------------
\* What the status says of sharing

\* What two sequences are one after the other.
LEMMA Concatenated ==
    ASSUME NEW S, NEW x \in Seq(S), NEW y \in Seq(S)
    PROVE  /\ DOMAIN (x \o y) = 1..(Len(x) + Len(y))
           /\ \A i \in 1..Len(x) : (x \o y)[i] = x[i]
           /\ \A i \in 1..Len(y) : (x \o y)[Len(x) + i] = y[i]
<1>1. Len(x) \in Nat /\ Len(y) \in Nat
  OBVIOUS
<1>2. x \o y \in Seq(S) /\ Len(x \o y) = Len(x) + Len(y)
  OBVIOUS
<1>3. \A i \in 1..(Len(x) + Len(y)) : (x \o y)[i] = IF i <= Len(x) THEN x[i] ELSE y[i - Len(x)]
  OBVIOUS
<1>4. \A i \in 1..Len(y) : /\ Len(x) + i \in 1..(Len(x) + Len(y)) /\ ~(Len(x) + i <= Len(x))
                           /\ (Len(x) + i) - Len(x) = i
  BY <1>1
<1>5. \A i \in 1..Len(x) : i \in 1..(Len(x) + Len(y)) /\ i <= Len(x)
  BY <1>1
<1>. QED
  BY <1>2, <1>3, <1>4, <1>5

\* The fragments of a body are its tools, then its messages (binding_openai.py
\* extract_fragments).
LEMMA FragmentsOfBody ==
    ASSUME NEW b \in Bodies
    PROVE  /\ DOMAIN Extracted(b) = DOMAIN ItemsOf(b)
           /\ \A i \in DOMAIN ItemsOf(b) :
                 /\ ItemsOf(b)[i] \in Items
                 /\ Extracted(b)[i].intent = IF ItemsOf(b)[i].intent = Unsupported THEN Malformed
                                             ELSE ItemsOf(b)[i].intent
<1>. DEFINE intent(item) == IF item.intent = Unsupported THEN Malformed ELSE item.intent
            x == b.tools
            y == b.messages
            m == Len(x)
            n == Len(y)
            T == [i \in 1..m |-> FragmentOf(x[i], ToolIds[i])]
            M == [i \in 1..n |-> FragmentOf(y[i], MessageIds[i])]
            S == {T[i] : i \in 1..m} \cup {M[i] : i \in 1..n}
<1>1. x \in Seq(Items) /\ y \in Seq(Items)
  BY BodiesAssumption
<1>2. m \in Nat /\ n \in Nat /\ DOMAIN x = 1..m /\ DOMAIN y = 1..n
  BY <1>1
<1>3. T \in [1..m -> S] /\ M \in [1..n -> S]
  OBVIOUS
<1>4. /\ \A i \in 1..m : x[i] \in Items /\ T[i].intent = intent(x[i])
      /\ \A i \in 1..n : y[i] \in Items /\ M[i].intent = intent(y[i])
  BY <1>1, <1>2 DEF FragmentOf
<1>5. Extracted(b) = T \o M /\ ItemsOf(b) = x \o y
  BY <1>2 DEF Extracted, ItemsOf
<1>. HIDE DEF T, M, S, x, y, m, n
<1>6. T \in Seq(S) /\ Len(T) = m /\ M \in Seq(S) /\ Len(M) = n
  BY <1>2, <1>3
<1>7. /\ DOMAIN (T \o M) = 1..(m + n)
      /\ \A i \in 1..m : (T \o M)[i] = T[i]
      /\ \A i \in 1..n : (T \o M)[m + i] = M[i]
  <2>1. PICK R : T \in Seq(R) /\ M \in Seq(R)
    BY <1>6
  <2>2. PICK u \in Seq(R), v \in Seq(R) : u = T /\ v = M
    BY <2>1
  <2>3. /\ DOMAIN (u \o v) = 1..(Len(u) + Len(v))
        /\ \A i \in 1..Len(u) : (u \o v)[i] = u[i]
        /\ \A i \in 1..Len(v) : (u \o v)[Len(u) + i] = v[i]
    BY Concatenated
  <2>. QED
    BY <1>6, <2>2, <2>3
<1>8. /\ DOMAIN (x \o y) = 1..(m + n)
      /\ \A i \in 1..m : (x \o y)[i] = x[i]
      /\ \A i \in 1..n : (x \o y)[m + i] = y[i]
  BY <1>1, Concatenated DEF m, n
<1>9. ASSUME NEW i \in 1..(m + n)
      PROVE  (x \o y)[i] \in Items /\ (T \o M)[i].intent = intent((x \o y)[i])
  <2>1. CASE i \in 1..m
    BY <1>4, <1>7, <1>8, <2>1
  <2>2. CASE i \notin 1..m
    <3>1. i - m \in 1..n /\ i = m + (i - m)
      BY <1>2, <2>2
    <3>2. PICK j \in 1..n : i = m + j
      BY <3>1
    <3>3. (x \o y)[i] = y[j] /\ (T \o M)[i] = M[j]
      BY <1>7, <1>8, <3>2
    <3>. QED
      BY <1>4, <3>3
  <2>. QED
    BY <2>1, <2>2
<1>. QED
  BY <1>5, <1>7, <1>8, <1>9

\* A call that returned has gone over the body of its connection, in its order
\* (binding_openai.py prepare).
LEMMA OrderIsBody ==
    ASSUME PlanInv, NEW t \in Threads, HasCall(t), conn[t] \in Connections \cup {None},
           task[t].request = RequestBehind(conn[t]), task[t].request \in Requests,
           task[t].error = None
    PROVE  /\ conn[t].body \in Bodies
           /\ task[t].order = Extracted(conn[t].body)
           /\ ~RepeatsId(RequestBehind(conn[t])) /\ ~SortRaises(RequestBehind(conn[t]))
<1>. DEFINE r == RequestBehind(conn[t])
<1>1. r.fragments = Extracted(conn[t].body) /\ r.equivalence_declared = FALSE
  BY DEF RequestBehind, RequestOf
<1>2. r # None
  BY NoRequestAssumption
<1>3. Planned(task[t])
  BY DEF PlanInv
<1>4. ~SortRaises(r) /\ ~RepeatsId(r) /\ task[t].order \in PlannedOrders(r)
  BY <1>2, <1>3 DEF Planned
<1>5. task[t].order = r.fragments
  BY <1>1, <1>4 DEF PlannedOrders
<1>6. conn[t] \in Connections /\ conn[t].body.text = "json" /\ ~Rejected(conn[t].body)
  BY DEF HasCall, Opened
<1>7. conn[t].body \in Bodies
  BY <1>6, OpenedAssumption DEF HasCall, Opened
<1>. QED
  BY <1>1, <1>4, <1>5, <1>7

\* The boundary the client reads of each governed fragment of an answered request is
\* the one its salt was made with (binding_openai.py _lower_request_salt).
LEMMA AnsweredShare ==
    ASSUME HasSalts, PlanInv, NEW t \in Threads, Ended(t), task[t].error = None,
           HasCall(t), conn[t] \in Connections \cup {None},
           task[t].request = RequestBehind(conn[t]), task[t].request \in Requests,
           NEW i \in DOMAIN CacheStatus(t, conn[t].body), HasPolicyAt(t, i)
    PROVE  /\ DerivedSalt(t) # None
           /\ CacheStatus(t, conn[t].body)[i].effective_share = Narrowest(task[t].statuses)
           /\ Narrowest(task[t].statuses) \in Scopes
           /\ DerivedSalt(t).partition
                = PartitionFor(Narrowest(task[t].statuses), task[t].request.auth, task[t].id)
<1>. DEFINE c == task[t]
            ss == c.statuses
            n == Len(c.order)
            b == conn[t].body
<1>1. /\ n \in Nat /\ DOMAIN ss = 1..n /\ DOMAIN c.order = 1..n
      /\ \A j \in 1..n : ss[j] \in Statuses
  BY ReturnedCall
<1>2. b \in Bodies /\ c.order = Extracted(b)
  BY OrderIsBody
<1>3. /\ DOMAIN ItemsOf(b) = 1..n
      /\ \A j \in 1..n : c.order[j].intent = IF ItemsOf(b)[j].intent = Unsupported THEN Malformed
                                             ELSE ItemsOf(b)[j].intent
  BY <1>1, <1>2, FragmentsOfBody
<1>4. i \in 1..n
  BY <1>1 DEF CacheStatus, Lowered
<1>5. Prefix(c, i) # {}
  <2>1. PICK j \in 1..i : ItemsOf(b)[j].intent # None
    BY DEF HasPolicyAt, ItemsAt
  <2>2. j \in 1..n
    BY <1>1, <1>4
  <2>3. c.order[j].intent # None
    BY <1>3, <2>1, <2>2, MalformedAssumption
  <2>. QED
    BY <2>3 DEF Prefix
<1>6. i \in GovernedAt(ss) /\ Lowers(ss)
  BY <1>4, <1>5, GovernedFragments DEF Lowers
<1>7. DerivedSalt(t) # None
  BY <1>4, <1>5, SaltOfRequest
<1>8. CacheStatus(t, b)[i].effective_share = Narrowest(ss)
  <2>1. CacheStatus(t, b)[i].effective_share = Lowered(ss)[i].effective_share
    BY DEF CacheStatus
  <2>2. Lowered(ss)[i].effective_share = Narrowest(ss)
    BY <1>1, <1>4, <1>6 DEF Lowered, Statuses
  <2>. QED
    BY <2>1, <2>2
<1>. QED
  BY <1>6, <1>7, <1>8, NarrowestIsNarrow DEF DerivedSalt

\* Who comes by the partition of a request is who its boundary admits (cache.py
\* partition_for).
LEMMA PartitionIsBoundary ==
    ASSUME NEW scope \in Scopes, NEW auth, NEW request, NEW reader
    PROVE  (\E share_max \in Scopes :
               PartitionFor(share_max, reader.auth, reader.request) = PartitionFor(scope, auth, request))
           <=> InBoundary([constraints |-> [share_max |-> scope], auth |-> auth, request |-> request],
                          reader)
<1>. DEFINE ComesBy(share_max) ==
               PartitionFor(share_max, reader.auth, reader.request) = PartitionFor(scope, auth, request)
<1>1. (\E share_max \in Scopes : ComesBy(share_max)) <=> ComesBy(scope)
  BY PartitionScope
<1>2. ComesBy(scope) <=> InBoundary([constraints |-> [share_max |-> scope], auth |-> auth,
                                     request |-> request], reader)
  BY DEF PartitionFor, InBoundary, Scopes
<1>. QED
  BY <1>1, <1>2

\* The boundary a client reads of a governed fragment is the one the engine draws, no
\* wider and no narrower (binding_openai.py _lower_request_salt).
THEOREM StatusTellsBoundary ==
    ASSUME HasSalts
    PROVE  ProxySpec => []StatusBoundaryIsActual
<1>1. SaltInv => StatusBoundaryIsActual
  <2>. SUFFICES ASSUME SaltInv, NEW t \in Threads, Completed(t),
                       NEW i \in DOMAIN reply[t].cache_status, HasPolicyAt(t, i),
                       NEW reader
                PROVE  /\ jobs[task[t].id].salt # None
                       /\ Reaches(reader, task[t].id)
                            <=> WithinShare(reply[t].cache_status[i].effective_share, reader, task[t].id)
    BY DEF StatusBoundaryIsActual
  <2>. DEFINE share == Narrowest(task[t].statuses)
              j == task[t].id
  <2>1. PlanInv /\ conn[t] \in Connections \cup {None} /\ Serves(t)
    BY DEF SaltInv, SharingInv, ServesInv, GatewayInv, ThreadsTyped
  <2>2. HasCall(t) /\ stage[t] = "free" /\ reply[t].code = 200
    BY DEF Completed, Served, HasCall, Opened
  <2>3. /\ task[t].error = None /\ JobOf(t)
        /\ reply[t].cache_status = CacheStatus(t, conn[t].body)
        /\ task[t].request = RequestBehind(conn[t]) /\ task[t].request \in Requests
        /\ pc[t] = "idle"
    BY <2>1, <2>2 DEF Serves, Replied, Answered
  <2>4. Ended(t)
    BY <2>3, NoRequestAssumption DEF Ended
  <2>5. /\ DerivedSalt(t) # None /\ share \in Scopes
        /\ reply[t].cache_status[i].effective_share = share
        /\ DerivedSalt(t).partition = PartitionFor(share, task[t].request.auth, j)
    BY <2>1, <2>2, <2>3, <2>4, AnsweredShare
  <2>6. jobs[j].salt = DerivedSalt(t) /\ SaltSays(j)
    BY <2>3 DEF JobOf, SaltInv
  <2>7. PICK scope \in Scopes : jobs[j].salt.partition = PartitionFor(scope, jobs[j].reader.auth, j)
    BY <2>5, <2>6 DEF SaltSays
  <2>8. scope = share
    <3>1. PartitionFor(scope, jobs[j].reader.auth, j) = PartitionFor(share, task[t].request.auth, j)
      BY <2>5, <2>6, <2>7
    <3>. QED
      BY <3>1, PartitionScope
  <2>9. jobs[j].salt.partition = PartitionFor(share, jobs[j].reader.auth, j)
    BY <2>7, <2>8
  <2>10. Reaches(reader, j) <=> WithinShare(share, reader, j)
    BY <2>5, <2>9, PartitionIsBoundary DEF Reaches, WithinShare
  <2>. QED
    BY <2>5, <2>6, <2>10
<1>. QED
  BY <1>1, AlwaysSalted, PTL

-----------------------------------------------------------------------------
\* What keeps to the advertised is served

\* What the capability object permits of a client that asks to share.
Permitted == {c \in Constraints : Advertised(c) /\ AsksToShare(c)}

\* Composition does not lead out of what is permitted member by member (compose.py
\* compose, binding_openai.py capabilities_document).
LEMMA PermittedComposes ==
    ASSUME NEW C \in SUBSET Permitted, C # {}
    PROVE  /\ Enforceable(Compose(C), Backend)
           /\ Compose(C).mode = "allow" /\ Compose(C).reuse # "none"
           /\ Compose(C).share_max \in Scopes \ {"request"}
<1>. DEFINE ages == {c.max_age : c \in C}
            reuses == {c.reuse : c \in C}
            shares == {c.share_max : c \in C}
<1>1. \A c \in C : c \in Constraints /\ Advertised(c) /\ AsksToShare(c)
  BY DEF Permitted
<1>2. ~Forbids(C)
  BY <1>1 DEF Forbids, AsksToShare
<1>3. Compose(C).mode = "allow" /\ Compose(C).max_age = ComposeMaxAge(ages)
      /\ Compose(C).reuse = ComposeReuse(reuses) /\ Compose(C).share_max = IntersectShareMax(shares)
  BY <1>2 DEF Compose
<1>4. ages \subseteq Nat \cup {None} /\ reuses \subseteq ReuseLevels /\ shares \subseteq Scopes
      /\ reuses # {} /\ shares # {}
  BY <1>1 DEF Constraints
<1>5. /\ ComposeMaxAge(ages) \in ages \cup {None} /\ ComposeReuse(reuses) \in reuses
      /\ IntersectShareMax(shares) \in shares
  BY <1>4, MaxAgeIsSmallest, ReuseIsStrictest, ShareMaxIsNarrowest
<1>6. ComposeMaxAge(ages) # None => SupportsMaxAge(Backend)
  BY <1>1, <1>5 DEF Advertised, CapabilitiesDocument
<1>7. ComposeReuse(reuses) = "approximate" => SupportsApproximate(Backend)
  BY <1>1, <1>5 DEF Advertised, CapabilitiesDocument
<1>8. ComposeReuse(reuses) # "none" /\ IntersectShareMax(shares) \in Scopes \ {"request"}
  BY <1>1, <1>4, <1>5 DEF AsksToShare
<1>. QED
  BY <1>3, <1>6, <1>7, <1>8 DEF Enforceable

\* The connection of t keeps to what is advertised, and repeats no id.
KeepsTo(t) == /\ Served(t)
              /\ ~RepeatsId(RequestBehind(conn[t]))
              /\ \A i \in DOMAIN ItemsAt(t) : KeepsToAdvertised(ItemsAt(t)[i].intent)

\* Then its call goes over permitted constraints only (binding_openai.py
\* extract_fragments, gateway.py plan_order).
LEMMA PermittedOrder ==
    ASSUME ServesInv, NEW t \in Threads, KeepsTo(t)
    PROVE  /\ HasCall(t) /\ Ended(t)
           /\ task[t].order = task[t].request.fragments
           /\ DOMAIN task[t].order = DOMAIN ItemsAt(t)
           /\ \A i \in DOMAIN task[t].order : task[t].order[i].intent \in Permitted \cup {None}
           /\ \A i \in DOMAIN task[t].order :
                 task[t].order[i].intent = None <=> ItemsAt(t)[i].intent = None
           /\ ~RepeatsId(task[t].request)
<1>. DEFINE r == RequestBehind(conn[t])
            b == conn[t].body
<1>1. /\ HasCall(t) /\ stage[t] = "free" /\ conn[t] \in Connections /\ b.text = "json"
      /\ ~Rejected(b) /\ Authorized(conn[t])
  BY DEF KeepsTo, Served, HasCall, Opened, ServesInv, ThreadsTyped
<1>2. task[t].request = r /\ r \in Requests /\ pc[t] = "idle" /\ PlanInv
  BY <1>1 DEF ServesInv, Serves, GatewayInv
<1>3. r.fragments = Extracted(b) /\ r.equivalence_declared = FALSE
  BY DEF RequestBehind, RequestOf
<1>4. r # None /\ Ended(t)
  BY <1>2, NoRequestAssumption DEF Ended
<1>5. ~RepeatsId(r) /\ ~SortRaises(r)
  BY <1>3 DEF KeepsTo, SortRaises
<1>6. task[t].order = r.fragments
  BY <1>2, <1>3, <1>4, <1>5 DEF PlanInv, Planned, PlannedOrders
<1>7. b \in Bodies
  BY <1>1, OpenedAssumption
<1>8. /\ DOMAIN Extracted(b) = DOMAIN ItemsOf(b)
      /\ \A i \in DOMAIN ItemsOf(b) :
            /\ ItemsOf(b)[i] \in Items
            /\ Extracted(b)[i].intent = IF ItemsOf(b)[i].intent = Unsupported THEN Malformed
                                        ELSE ItemsOf(b)[i].intent
  BY <1>7, FragmentsOfBody
<1>9. ASSUME NEW i \in DOMAIN ItemsOf(b)
      PROVE  /\ Extracted(b)[i].intent = ItemsOf(b)[i].intent
             /\ ItemsOf(b)[i].intent \in Permitted \cup {None}
  <2>1. KeepsToAdvertised(ItemsOf(b)[i].intent)
    BY DEF KeepsTo, ItemsAt
  <2>2. ItemsOf(b)[i].intent \in Constraints \cup {None, Malformed, Unsupported}
    BY <1>8 DEF Items
  <2>. QED
    BY <1>8, <2>1, <2>2, UnsupportedAssumption DEF KeepsToAdvertised, Permitted
<1>. QED
  BY <1>1, <1>2, <1>3, <1>4, <1>5, <1>6, <1>8, <1>9 DEF ItemsAt

\* And each of its prefixes is one the gateway serves (gateway.py handle).
LEMMA PermittedPrefixes ==
    ASSUME ServesInv, NEW t \in Threads, KeepsTo(t), NEW i \in DOMAIN task[t].order
    PROVE  /\ Prefix(task[t], i) \subseteq Permitted
           /\ HasPolicyAt(t, i) <=> Prefix(task[t], i) # {}
<1>1. task[t].order \in Seq(Fragments) /\ Len(task[t].order) \in Nat
  BY DEF ServesInv, GatewayInv, PlanInv, WalkInv, TypeOK, CallsTypeOK, Calls
<1>2. \A j \in 1..i : j \in DOMAIN task[t].order
  BY <1>1
<1>3. \A j \in 1..i : /\ task[t].order[j].intent \in Permitted \cup {None}
                      /\ task[t].order[j].intent = None <=> ItemsAt(t)[j].intent = None
  BY <1>2, PermittedOrder
<1>. QED
  BY <1>3 DEF Prefix, HasPolicyAt

\* Such a request gives no cause to fail (gateway.py handle, _check_enforceable).
LEMMA PermittedGivesNoCause ==
    ASSUME ServesInv, NEW t \in Threads, KeepsTo(t)
    PROVE  ~GivesCause(t)
<1>1. /\ task[t].order = task[t].request.fragments /\ ~RepeatsId(task[t].request)
      /\ \A i \in DOMAIN task[t].order : task[t].order[i].intent \in Permitted \cup {None}
  BY PermittedOrder
<1>2. Malformed \notin Permitted \cup {None}
  BY MalformedAssumption DEF Permitted
<1>3. ASSUME NEW i \in DOMAIN task[t].order, Prefix(task[t], i) # {}
      PROVE  Enforceable(Compose(Prefix(task[t], i)), Backend)
  BY <1>3, PermittedPrefixes, PermittedComposes
<1>. QED
  BY <1>1, <1>2, <1>3 DEF GivesCause, Prefix

\* And no status of it asks for a salt of its own (gateway.py handle,
\* binding_openai.py _lower_request_salt).
LEMMA PermittedStatuses ==
    ASSUME ServesInv, BypassInv, NEW t \in Threads, KeepsTo(t), task[t].error = None,
           NEW i \in GovernedAt(task[t].statuses)
    PROVE  LET s == task[t].statuses[i]
           IN  /\ s.outcome # "bypass" /\ s.effective_reuse # "none"
               /\ s.effective_retention_mode # "forbid"
               /\ s.effective_share \in Scopes \ {"request"}
<1>. DEFINE s == task[t].statuses[i]
            C == Prefix(task[t], i)
<1>1. PlanInv /\ Ended(t)
  BY PermittedOrder DEF ServesInv, GatewayInv
<1>2. /\ DOMAIN task[t].statuses = 1..Len(task[t].order) /\ DOMAIN task[t].order = 1..Len(task[t].order)
      /\ i \in 1..Len(task[t].order) /\ C # {}
  BY <1>1, ReturnedCall, GovernedFragments
<1>3. FollowsPolicy(s, C)
  BY <1>1, <1>2, ReturnedCall
<1>4. C \subseteq Permitted
  BY <1>2, PermittedPrefixes
<1>5. /\ Enforceable(Compose(C), Backend)
      /\ Compose(C).mode = "allow" /\ Compose(C).reuse # "none"
      /\ Compose(C).share_max \in Scopes \ {"request"}
  BY <1>2, <1>4, PermittedComposes
<1>6. s.effective_reuse \notin {None, "none"}
  BY <1>2, <1>3, <1>5 DEF GovernedAt, FollowsPolicy
<1>7. s.outcome # "bypass"
  BY <1>2, <1>5, <1>6 DEF BypassInv, BypassesForCause, ExcusesBypass
<1>. QED
  BY <1>2, <1>3, <1>5, <1>6, <1>7 DEF FollowsPolicy

\* So the statuses are lowered to a salt that bypasses nothing (binding_openai.py
\* _lower_request_salt).
LEMMA PermittedLowered ==
    ASSUME ServesInv, BypassInv, NEW t \in Threads, KeepsTo(t), task[t].error = None,
           NEW i \in GovernedAt(task[t].statuses)
    PROVE  CacheStatus(t, conn[t].body)[i].outcome # "bypass"
<1>. DEFINE ss == task[t].statuses
            shares == {ss[j].effective_share : j \in GovernedAt(ss)}
<1>1. ~MustBypass(ss)
  BY PermittedStatuses DEF MustBypass
<1>2. shares \subseteq Scopes \ {"request"} /\ shares # {}
  BY PermittedStatuses
<1>3. Narrowest(ss) # "request"
  <2>1. IntersectShareMax(shares) \in shares
    BY <1>2, ShareMaxIsNarrowest
  <2>. QED
    BY <1>1, <1>2, <2>1 DEF Narrowest
<1>4. i \in DOMAIN ss /\ DOMAIN Lowered(ss) = DOMAIN ss
  BY DEF GovernedAt, Lowered
<1>5. ss[i] \in Statuses
  BY <1>4, PermittedOrder, ReturnedCall DEF ServesInv, GatewayInv
<1>6. Lowered(ss)[i].outcome = ss[i].outcome
  BY <1>3, <1>4, <1>5 DEF Lowered, Statuses
<1>7. CacheStatus(t, conn[t].body)[i].outcome = Lowered(ss)[i].outcome
  BY <1>4 DEF CacheStatus
<1>. QED
  BY <1>6, <1>7, PermittedStatuses

\* A client that keeps to what is advertised and asks to share is neither rejected nor
\* bypassed, over every backend, unless it loses the race for an expired entry
\* (binding_openai.py capabilities_document, gateway.py _check_enforceable).
THEOREM AdvertisedIsAlwaysServed ==
    ASSUME NothingExpires \/ OneThread
    PROVE  ProxySpec => []AdvertisedIsServed
<1>1. ServesInv /\ BypassInv /\ FailsForCause => AdvertisedIsServed
  <2>. SUFFICES ASSUME ServesInv, BypassInv, FailsForCause, NEW t \in Threads, KeepsTo(t)
                PROVE  /\ reply[t].code # 400
                       /\ \A i \in DOMAIN reply[t].cache_status :
                             HasPolicyAt(t, i) => reply[t].cache_status[i].outcome # "bypass"
    BY DEF AdvertisedIsServed, KeepsTo, RequestBehind
  <2>1. HasCall(t) /\ Ended(t) /\ stage[t] = "free"
    BY PermittedOrder DEF KeepsTo, Served
  <2>2. task[t].error = None
    BY <2>1, PermittedGivesNoCause DEF FailsForCause
  <2>3. Replied(t)
    BY <2>1 DEF ServesInv, Serves
  <2>4. CASE reply[t].cache_status = <<>> /\ reply[t].code # 400
    BY <2>4
  <2>5. CASE reply[t] = Answered(200, None, CacheStatus(t, conn[t].body))
    <3>1. ASSUME NEW i \in DOMAIN CacheStatus(t, conn[t].body), HasPolicyAt(t, i)
          PROVE  CacheStatus(t, conn[t].body)[i].outcome # "bypass"
      <4>1. i \in DOMAIN task[t].statuses
        BY DEF CacheStatus, Lowered
      <4>2. DOMAIN task[t].statuses = DOMAIN task[t].order
        BY <2>1, <2>2, ReturnedCall DEF ServesInv, GatewayInv
      <4>3. Prefix(task[t], i) # {}
        BY <3>1, <4>1, <4>2, PermittedPrefixes
      <4>4. i \in GovernedAt(task[t].statuses)
        BY <2>1, <2>2, <4>1, <4>3, ReturnedCall, GovernedFragments DEF ServesInv, GatewayInv
      <4>. QED
        BY <2>2, <4>4, PermittedLowered
    <3>. QED
      BY <2>5, <3>1 DEF Answered
  <2>. QED
    BY <2>1, <2>2, <2>3, <2>4, <2>5 DEF Replied
<1>2. Spec => []FailsForCause
  BY FailsOnlyForCause
<1>. QED
  BY <1>1, <1>2, RunsTheGateway, AlwaysServes, AlwaysBypassesForCause, PTL

-----------------------------------------------------------------------------
\* The engine, behind the proxy, implements RetainedState

\* Over a backend with salts, a policy with an age is one that must be fresh
\* (gateway.py _check_enforceable, backends.py SaltOnlyBackend).
LEMMA FreshOrAgeless ==
    ASSUME HasSalts, NEW j \in DOMAIN jobs, SaltSays(j), ~MustBeFresh(j), NEW s \in JobSources(j)
    PROVE  s.constraints.mode = "allow" /\ s.constraints.max_age = None
<1>1. s \in Sources /\ \A r \in JobSources(j) : r \in Sources /\ r.constraints.mode # "forbid"
  BY DEF SaltSays, MustBeFresh
<1>2. s.constraints.mode = "allow"
  BY <1>1 DEF Sources, Constraints, Modes
<1>3. PICK i \in DOMAIN jobs[j].owns : s \in jobs[j].owns[i]
  BY DEF JobSources
<1>. DEFINE C == {r.constraints : r \in jobs[j].owns[i]}
            ages == {c.max_age : c \in C}
<1>4. Enforceable(Compose(C), Backend)
  BY <1>3 DEF MustBeFresh
<1>5. Compose(C).max_age = None
  BY <1>4 DEF Enforceable, HasSalts, SupportsMaxAge
<1>6. \A r \in jobs[j].owns[i] : r \in JobSources(j)
  BY DEF JobSources
<1>7. C \subseteq Constraints /\ ~Forbids(C) /\ s.constraints \in C
  BY <1>1, <1>3, <1>6 DEF Sources, Forbids
<1>8. ComposeMaxAge(ages) = None
  BY <1>5, <1>7 DEF Compose
<1>9. ages \subseteq Nat \cup {None} /\ s.constraints.max_age \in ages
  BY <1>7 DEF Constraints
<1>10. s.constraints.max_age = None
  BY <1>8, <1>9, MaxAgeIsSmallest
<1>. QED
  BY <1>2, <1>10

\* Who is inside a boundary is the same for the promise (auth.py).
LEMMA SameBoundary ==
    ASSUME NEW s, NEW r
    PROVE  InBoundary(s, r) => EnginePromise!InBoundary(s, r)
BY DEF InBoundary, EnginePromise!InBoundary

\* A request is inside every boundary it draws itself (auth.py).
LEMMA InOwnBoundary ==
    ASSUME NEW s \in Sources, NEW r, s.auth = r.auth, s.request = r.request
    PROVE  InBoundary(s, r)
<1>1. s.constraints.share_max \in Scopes
  BY DEF Sources, Constraints
<1>. QED
  BY <1>1 DEF InBoundary, Scopes

\* A job reads as the request it was sent for (proxy.py do_POST).
LEMMA JobReads ==
    ASSUME SharingInv, NEW j \in DOMAIN jobs
    PROVE  /\ j \in 1..MaxRequests /\ jobs[j] \in Jobs
           /\ JobReader[j] = jobs[j].reader /\ JobReader[j] # None
           /\ DrawnByJob[j] = jobs[j].drawn
<1>1. /\ served \in Nat /\ served <= MaxRequests /\ MaxRequests \in Nat
      /\ DOMAIN jobs \subseteq 1..served /\ jobs[j] \in Jobs
  BY BoundsAssumption
     DEF SharingInv, ServesInv, GatewayInv, PlanInv, WalkInv, TypeOK, WithinBounds, EngineInv, JobsTyped
<1>2. j \in 1..MaxRequests
  BY <1>1
<1>3. jobs[j].reader # None
  BY <1>1, NoRequestAssumption DEF Jobs
<1>. QED
  BY <1>1, <1>2, <1>3 DEF JobReader, DrawnByJob

\* A block that a job finds is one all its contributors admit (vllm_backend.py
\* salt_for, binding_openai.py _lower_request_salt).
LEMMA FoundIsAdmitted ==
    ASSUME HasSalts, SaltInv, NEW j \in DOMAIN jobs, Found(j),
           NEW s \in blocks[JobKey(j)].own \cup blocks[JobKey(j)].inherited
    PROVE  /\ EnginePromise!Admits(s, jobs[j].reader)
           /\ s.constraints.max_age = None
<1>. DEFINE k == JobKey(j)
            donor == blocks[k].by
<1>1. k \in DOMAIN blocks /\ k.salt = jobs[j].salt /\ jobs[j].hitting
  BY DEF Found, JobKey
<1>2. BlockOfSalt(k) /\ donor \in DOMAIN jobs
  BY <1>1 DEF SaltInv, SharingInv, ServesInv, EngineInv, BlocksTyped
<1>3. donor # j /\ jobs[donor].salt = jobs[j].salt
  BY <1>1, <1>2 DEF BlockOfSalt
<1>4. ~MustBeFresh(j)
  BY <1>2, <1>3, SameSalt
<1>5. PICK d \in DOMAIN jobs : jobs[d].salt = jobs[j].salt /\ s \in JobSources(d)
  BY <1>1, <1>2 DEF BlockOfSalt, ComesFrom
<1>6. SaltSays(d) /\ SaltSays(j)
  BY DEF SaltInv
<1>7. ~MustBeFresh(d) /\ InBoundary(s, jobs[j].reader)
  <2>1. CASE d = j
    BY <1>4, <1>5, <1>6, <2>1, InOwnBoundary DEF SaltSays
  <2>2. CASE d # j
    BY <1>5, <2>2, SameSalt
  <2>. QED
    BY <2>1, <2>2
<1>8. s.constraints.mode = "allow" /\ s.constraints.max_age = None
  BY <1>5, <1>6, <1>7, FreshOrAgeless
<1>. QED
  BY <1>7, <1>8, SameBoundary DEF EnginePromise!Admits

\* What the engine does is a step of the promise, or none (vllm_backend.py chat).
LEMMA WorksKeepPromise ==
    ASSUME HasSalts, SaltInv, Works
    PROVE  [EnginePromise!Next]_EnginePromise!vars
<1>1. /\ DOMAIN jobs' = DOMAIN jobs
      /\ \A j \in DOMAIN jobs : SameOrder(jobs'[j], jobs[j])
      /\ SharingInv /\ \A j \in DOMAIN jobs : jobs[j] \in Jobs
  BY EngineWorksOnJobs DEF SaltInv, SharingInv, ServesInv, EngineInv, JobsTyped
<1>2. UNCHANGED JobReader
  BY <1>1 DEF JobReader, SameOrder
<1>3. ASSUME \A j \in DOMAIN jobs : jobs'[j].drawn = jobs[j].drawn PROVE UNCHANGED DrawnByJob
  BY <1>1, <1>3 DEF DrawnByJob
<1>4. ASSUME NEW j \in DOMAIN jobs, ReuseBlock(j) PROVE EnginePromise!Next
  <2>. DEFINE k == JobKey(j)
  <2>1. Found(j) /\ k \in DOMAIN blocks /\ blocks' = blocks
    BY <1>4 DEF ReuseBlock, Found
  <2>2. /\ jobs'[j].drawn = jobs[j].drawn \cup blocks[k].own \cup blocks[k].inherited
        /\ \A i \in DOMAIN jobs : i # j => jobs'[i].drawn = jobs[i].drawn
    BY <1>1, <1>4 DEF ReuseBlock, Jobs
  <2>3. /\ k \in DOMAIN BlocksFor /\ BlocksFor[k].own = blocks[k].own
        /\ BlocksFor[k].inherited = blocks[k].inherited
    BY <2>1 DEF BlocksFor
  <2>4. DrawnByJob' = [DrawnByJob EXCEPT ![j] = @ \cup BlocksFor[k].own \cup BlocksFor[k].inherited]
    BY <1>1, <2>2, <2>3, JobReads DEF DrawnByJob
  <2>5. UNCHANGED BlocksFor
    BY <2>1 DEF BlocksFor
  <2>6. /\ \A s \in BlocksFor[k].own \cup BlocksFor[k].inherited : EnginePromise!Admits(s, JobReader[j])
        /\ \A s \in BlocksFor[k].own : EnginePromise!WithinMaxAge(s, JobReader[j].now)
    BY <1>1, <2>1, <2>3, FoundIsAdmitted, JobReads DEF EnginePromise!WithinMaxAge
  <2>7. EnginePromise!Reuse(j, k)
    BY <1>1, <1>2, <2>4, <2>5, <2>6, JobReads DEF EnginePromise!Reuse
  <2>. QED
    BY <1>1, <2>3, <2>7, JobReads DEF EnginePromise!Next
<1>5. ASSUME NEW j \in DOMAIN jobs, ComputeBlock(j) PROVE [EnginePromise!Next]_EnginePromise!vars
  <2>1. UNCHANGED DrawnByJob
    <3>1. \A i \in DOMAIN jobs : jobs'[i].drawn = jobs[i].drawn
      BY <1>1, <1>5 DEF ComputeBlock, Jobs
    <3>. QED
      BY <1>3, <3>1
  <2>2. CASE UNCHANGED blocks
    <3>1. UNCHANGED BlocksFor
      BY <2>2 DEF BlocksFor
    <3>. QED
      BY <1>2, <2>1, <3>1 DEF EnginePromise!vars
  <2>3. PICK k, own : k = JobKey(j) /\ own = jobs[j].owns[jobs[j].pos]
    OBVIOUS
  <2>4. CASE blocks' = [b \in DOMAIN blocks \cup {k} |->
                          IF b = k THEN [own |-> own, inherited |-> jobs[j].drawn, by |-> j]
                          ELSE blocks[b]]
    <3>1. own \subseteq JobSources(j)
      <4>1. jobs[j].pos \in 1..Len(jobs[j].contents) /\ Len(jobs[j].owns) = Len(jobs[j].contents)
        BY <1>1, <1>5, JobTypes
           DEF ComputeBlock, SharingInv, ServesInv, EngineInv, EngineTypeOK
      <4>2. jobs[j].owns \in Seq(SUBSET Sources)
        BY <1>1 DEF Jobs
      <4>3. jobs[j].pos \in DOMAIN jobs[j].owns
        BY <4>1, <4>2
      <4>. QED
        BY <2>3, <4>3 DEF JobSources
    <3>2. BlocksFor' = [b \in DOMAIN BlocksFor \cup {k} |->
                          IF b = k THEN [own |-> own, inherited |-> DrawnByJob[j]] ELSE BlocksFor[b]]
      BY <1>1, <2>4, JobReads DEF BlocksFor
    <3>3. k \in DOMAIN BlocksFor' /\ BlocksFor'[k].own = own
      BY <3>2
    <3>4. \A s \in own : /\ s.auth = JobReader[j].auth /\ s.request = JobReader[j].request
                         /\ s.at = JobReader[j].now
      BY <1>1, <3>1, JobReads DEF SaltInv, SaltSays
    <3>5. EnginePromise!Retain(j, k, BlocksFor'[k].own)
      BY <1>1, <1>2, <2>1, <3>2, <3>3, <3>4, JobReads DEF EnginePromise!Retain
    <3>. QED
      BY <1>1, <3>3, <3>5, JobReads DEF EnginePromise!Next
  <2>. QED
    BY <1>5, <2>2, <2>3, <2>4 DEF ComputeBlock
<1>6. ASSUME NEW j \in DOMAIN jobs, Abandon(j) PROVE UNCHANGED EnginePromise!vars
  <2>1. \A i \in DOMAIN jobs : jobs'[i].drawn = jobs[i].drawn
    BY <1>1, <1>6 DEF Abandon, Jobs
  <2>2. UNCHANGED BlocksFor
    BY <1>6 DEF Abandon, BlocksFor
  <2>. QED
    BY <1>2, <1>3, <2>1, <2>2 DEF EnginePromise!vars
<1>7. ASSUME NEW k \in DOMAIN blocks, EvictBlock(k) PROVE EnginePromise!Next
  <2>1. BlocksFor' = [b \in DOMAIN BlocksFor \ {k} |-> BlocksFor[b]] /\ k \in DOMAIN BlocksFor
    BY <1>7 DEF EvictBlock, BlocksFor
  <2>2. UNCHANGED DrawnByJob
    BY <1>7 DEF EvictBlock, DrawnByJob
  <2>. QED
    BY <1>2, <2>1, <2>2 DEF EnginePromise!Drop, EnginePromise!Next
<1>. QED
  BY <1>4, <1>5, <1>6, <1>7 DEF Works, EngineNext

\* What is sent starts a reader (proxy.py do_POST).
LEMMA ForwardStarts ==
    ASSUME SaltInv, NEW t \in Threads, Forward(t)
    PROVE  EnginePromise!Next
<1>1. PICK id : id = task[t].id
  OBVIOUS
<1>2. /\ DOMAIN jobs' = DOMAIN jobs \cup {id} /\ jobs'[id] = Sent(t)
      /\ \A j \in DOMAIN jobs : jobs'[j] = jobs[j]
      /\ blocks' = blocks
  BY <1>1, ForwardSends DEF SaltInv, SharingInv
<1>3. /\ HasCall(t) /\ id \in 1..served /\ ServesInv
      /\ task[t].request = RequestBehind(conn[t]) /\ task[t].request \in Requests
  BY <1>1, PreparedReturned DEF Forward, SaltInv, SharingInv, ServesInv, Serves
<1>4. id \in 1..MaxRequests /\ task[t].now \in 0..MaxTime
  <2>1. served <= MaxRequests /\ served \in Nat /\ MaxRequests \in Nat /\ task[t].request # None
    BY <1>3, BoundsAssumption, NoRequestAssumption
       DEF ServesInv, GatewayInv, WithinBounds, PlanInv, WalkInv, TypeOK
  <2>. QED
    BY <1>3, <2>1 DEF ServesInv, GatewayInv, WithinBounds
<1>. DEFINE reader == [auth |-> task[t].request.auth, request |-> id, now |-> task[t].now]
<1>5. task[t].request.auth \in {Tokens[c] : c \in DOMAIN Tokens}
  <2>1. conn[t] \in Connections /\ conn[t].token # None
    BY <1>3 DEF HasCall, Opened, Authorized, ServesInv, ThreadsTyped
  <2>2. conn[t].token \in DOMAIN Tokens
    BY <2>1, ConnectionsAssumption
  <2>3. task[t].request.auth = Tokens[conn[t].token]
    BY <1>3 DEF RequestBehind, RequestOf
  <2>. QED
    BY <2>2, <2>3
<1>6. Sent(t).reader = reader /\ Sent(t).drawn = {}
  BY <1>1 DEF Sent
<1>7. JobReader' = [JobReader EXCEPT ![id] = reader]
  BY <1>2, <1>4, <1>6 DEF JobReader
<1>8. DrawnByJob' = [DrawnByJob EXCEPT ![id] = {}]
  BY <1>2, <1>4, <1>6 DEF DrawnByJob
<1>9. UNCHANGED BlocksFor
  BY <1>2 DEF BlocksFor
<1>10. EnginePromise!Start(id)
  BY <1>4, <1>5, <1>7, <1>8, <1>9 DEF EnginePromise!Start
<1>. QED
  BY <1>4, <1>10 DEF EnginePromise!Next

\* The engine, which compares nothing but salts, implements RetainedState behind the
\* proxy: each block is reused only by requests that all its contributors admit, those
\* of the blocks it was computed from included (binding_openai.py _lower_request_salt,
\* vllm_backend.py salt_for).
THEOREM EngineImplementsPromise ==
    ASSUME HasSalts
    PROVE  ProxySpec => EngineKeepsPromise
<1>1. ProxyInit => EnginePromise!Init
  BY DEF ProxyInit, EngineInit, EnginePromise!Init, BlocksFor, JobReader, DrawnByJob
<1>2. SaltInv /\ [ProxyNext]_allVars => [EnginePromise!Next]_EnginePromise!vars
  <2>. SUFFICES ASSUME SaltInv, [ProxyNext]_allVars
                PROVE  [EnginePromise!Next]_EnginePromise!vars
    OBVIOUS
  <2>1. ASSUME UNCHANGED engineVars PROVE UNCHANGED EnginePromise!vars
    BY <2>1 DEF engineVars, EnginePromise!vars, BlocksFor, JobReader, DrawnByJob
  <2>2. ServesInv
    BY DEF SaltInv, SharingInv
  <2>. QED
    BY <2>1, <2>2, StepsTheEngine, ForwardStarts, WorksKeepPromise
<1>3. ProxySpec => EnginePromise!Init /\ [][EnginePromise!Next]_EnginePromise!vars
  BY <1>1, <1>2, AlwaysSalted, PTL DEF ProxySpec
<1>. QED
  BY <1>3 DEF EngineKeepsPromise, EnginePromise!Spec

\* So through however many requests the engine's blocks pass, whoever finds one is
\* admitted by every contributor it goes back to (vllm_backend.py salt_for).
THEOREM DrawnFromTheEngineAdmits ==
    ASSUME HasSalts
    PROVE  ProxySpec => []EnginePromise!DrawsOnAdmitting
<1>. DEFINE Whole == DOMAIN JobReader = 1..MaxRequests /\ DOMAIN DrawnByJob = 1..MaxRequests
<1>1. EnginePromise!Init => Whole /\ EnginePromise!DrawsOnAdmitting
  BY DEF EnginePromise!Init, EnginePromise!DrawsOnAdmitting
<1>2. Whole /\ EnginePromise!DrawsOnAdmitting /\ [EnginePromise!Next]_EnginePromise!vars
         => (Whole /\ EnginePromise!DrawsOnAdmitting)'
  <2>. SUFFICES ASSUME Whole, EnginePromise!DrawsOnAdmitting, [EnginePromise!Next]_EnginePromise!vars
                PROVE  (Whole /\ EnginePromise!DrawsOnAdmitting)'
    OBVIOUS
  <2>1. ASSUME NEW c \in 1..MaxRequests, EnginePromise!Start(c) PROVE (Whole /\ EnginePromise!DrawsOnAdmitting)'
    BY <2>1 DEF EnginePromise!Start, EnginePromise!DrawsOnAdmitting
  <2>2. ASSUME NEW c \in 1..MaxRequests, NEW k, EnginePromise!Reuse(c, k)
        PROVE  (Whole /\ EnginePromise!DrawsOnAdmitting)'
    BY <2>2 DEF EnginePromise!Reuse, EnginePromise!DrawsOnAdmitting
  <2>3. ASSUME UNCHANGED <<JobReader, DrawnByJob>> PROVE (Whole /\ EnginePromise!DrawsOnAdmitting)'
    BY <2>3 DEF EnginePromise!DrawsOnAdmitting
  <2>4. ASSUME EnginePromise!Next PROVE (Whole /\ EnginePromise!DrawsOnAdmitting)'
    BY <2>1, <2>2, <2>3, <2>4 DEF EnginePromise!Next, EnginePromise!Retain, EnginePromise!Drop
  <2>. QED
    BY <2>3, <2>4 DEF EnginePromise!vars
<1>. QED
  BY <1>1, <1>2, EngineImplementsPromise, PTL DEF EngineKeepsPromise, EnginePromise!Spec
=============================================================================
