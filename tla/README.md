# llm-cache-control in TLA+

This directory specifies the reference gateway of this repository
(`gateway/`), checks it with TLC and proves the gateway's properties with TLAPS. File and
line references are to the sources of the repository.

A caller sends a prompt as a sequence of *fragments*. A fragment may carry a
cache intent: may state computed from it be retained, for how long
(`max_age`), who may share it (`share_max`), may it be reused exactly or
approximately, in which namespace. State computed from a prefix of fragments
depends on all of them, so the gateway composes their constraints, derives a
cache partition from the *authenticated* caller, looks the prefix up, and
stores what it had to compute. What can go wrong is seldom within one step:
state stored under one request's policy is found under another's, reused, and
stored again under a third. In front of a real engine the gateway has only one
salt per request to say all this with, and the engine keeps no policy at all.

## 1. Inventory

| Component | Source | State | Operations | Hard behaviour | What makes it correct |
|---|---|---|---|---|---|
| Composition | `compose.py` | none | `intersect_share_max`, `compose_reuse`, `compose_max_age`, `compose` | absent bounds, forbid dropping `max_age` | the most permissive policy that weakens no contributor; never relaxed along a prefix |
| Cache identity | `identity.py` | none | `namespace_identity`, `cache_key` | order and repetition of namespaces | equal keys mean equal prefix, namespaces, partition and exactness |
| Authenticated scope | `auth.py` | none | `partition_for`, `strip_untrusted_scope` | names reused across tenants | a partition never joins callers its scope keeps apart |
| In-memory cache | `cache.py` | `_entries` | `get` (read, then maybe delete), `put` | no lock, deadline at the instant | no expired state is served, a lookup never fails |
| Backends | `backends.py`, `vllm_backend.py` | a cache, or none | `capabilities`, `get`, `put`, `salt_for` | a backend that can bound less than is asked | never handed state under a policy it cannot enforce |
| Gateway | `gateway.py` | locals of `handle` | `plan_order`, `handle`, `_check_enforceable`, `_resolve`, `_materialize` | all of the below | section 4 |
| Intent parser | `parse.py`, `llm-cache-control.schema.json` | none | `loads_strict`, `parse_cache_intent` | duplicate members | every defect is a reject |
| OpenAI binding | `binding_openai.py` | none across calls | `extract_fragments`, `prepare`, `_lower_request_salt`, `strip_binding_members`, `capabilities_document` | one clock reading per call; one salt for a request of many policies; statuses rewritten | the salt is within every contributor's boundary, statuses say what it does |
| HTTP proxy | `proxy.py` | handler threads | `do_POST`, `do_GET` | concurrent handlers; timeouts and errors of the upstream call; the engine goes on after them | every connection ends unless the engine sends for ever; a refusal names a defect the body has |
| vLLM engine | external, through `vllm_backend.py` | prefix cache, jobs, hit counter | chat completion, metrics | concurrent requests, eviction, no notion of policy | blocks are shared only inside the boundaries of those they answer to |
| Conformance programs | `conformance/` | a gateway per test | calls of `handle` in sequence | none | what they record holds of the modelled gateway |
| Isolation demo, policy comparison | `demo_vllm_isolation.py`, `experiment_policy_comparison.py` | counter readings | trials against a live engine | an engine-wide counter that may be missing, other clients, eviction, earlier and broken-off runs whose requests the engine serves late | their verdicts are right about the engine |

Interaction: a handler thread calls `prepare`, which reads the clock once,
extracts fragments and calls `Gateway.handle`. `handle` calls composition,
partitioning and identity, and the backend's `get` and `put`. Threads share
one gateway and therefore one backend and its dictionary; nothing takes a lock.
`main` in `proxy.py` runs the vLLM backend; a gateway over a storing backend is
what the library's default (`backend or InMemoryBackend()`) gives any host that
puts it behind the same threaded handler, and `Gateway` is checked over all four
backends. After `handle`, `prepare` lowers the statuses to one salt; the handler
thread sends the request on, reads what the engine answers, and answers. Each
read waits at most 300 seconds; how many reads there are is up to the engine.

`PROJECT.json` lists the hazards, each at its line, with the properties that
would catch it going wrong.

## 2. Modules

| Module | What it is | Code |
|---|---|---|
| `CachePolicy` | pure decisions: composition, partitions, keys, capabilities; and what the draft promises a contributor (`Sources`, `InBoundary`, `WithinMaxAge`) | `compose.py`, `auth.py`, `identity.py`, capabilities of the backends, `_check_enforceable` |
| `InMemoryCache` | the dictionary and its atomic steps | `cache.py` |
| `Gateway` | the calls of `handle`, one per thread, step by step | `gateway.py` |
| `GatewayProperties` | invariants and action properties of `Gateway`, and its refinement mapping | |
| `RetainedState` | abstract promise: state answers to its contributors, and is reused only by requests all of them admit | the draft's "Retained State Carries Its Own Policy", as `handle` implements it |
| `MCGateway` | callers, fragments and requests for TLC | |
| `Binding` | what `prepare` makes of a body and of the statuses `handle` returned | `binding_openai.py`, `Result.as_cache_status`, `Gateway._hint_status`, `salt_for` |
| `Engine` | the inference server: a prefix cache keyed by salt and input, and the jobs that walk their input through it | external; `VLLMBackend.chat` |
| `Proxy` | handler threads from connection to answer, over `Binding`, `Gateway` and `Engine` | `proxy.py` |
| `Upstream`, `MCUpstream` | answers that come in pieces, each with the timeout before it; fairness of the handler threads | the call of `urlopen` in `proxy.py` |
| `ProxyProperties`, `MCProxy` | what clients and contributors may expect of the whole; bodies and connections for TLC | |
| `Suite` | a conformance program: a sequence of calls on the gateway's own actions | the harness in `conformance/` |
| `Behavioral`, `Minimality`, `MCSuite` | what the two programs call and what they compare; both in one script | `conformance/behavioral.py`, `conformance/minimality.py` |
| `Measurements`, `MCMeasurements` | warm, read, probe, read against an engine of unknown kind | the demo and the experiment, `prefix_cache_stats` |
| `CachePolicyProofs` | lemmas on composition and partitions | |
| `GatewayProofs` | type correctness | |
| `BoundaryProofs` | the sharing boundary | |
| `PromiseProofs` | `mode = "forbid"`, the exact and approximate keyspaces, `max_age`, and `Gateway` implements `RetainedState` | |
| `WalkProofs` | what the walk over the fragments accumulates; effective policies, statuses, the planned order, and that each step brings a call closer to its end | |
| `StoreProofs` | what is stored, how long, and what callers are told of it; why calls fail, and why fragments are bypassed | |
| `ProxyProofs` | the proxy over gateway and engine: what a salt says, what the engine shares by it, what clients are answered, and that handlers come to an end | |
| `MeasurementsProofs` | what the demo and the experiment conclude, for any number of runs | |

`Gateway` EXTENDS `InMemoryCache` EXTENDS `CachePolicy`; the properties and
proofs extend `Gateway`; `Proxy` EXTENDS `Binding` (over `Gateway`) and `Engine`;
`Upstream` EXTENDS `ProxyProperties` over `Proxy`;
`Suite` drives `Gateway`. `RetainedState` is instantiated twice, under a mapping
from the gateway's cache and under one from the engine's.

### How `Gateway` corresponds to the code

`task[t]` holds the locals of `handle` in thread `t`: the planned `order` and
the position in it, the accumulated `constraints`, `contents` and `namespaces`,
the `tainted` flag, the outcome found, the statuses so far, and the error if it
raised. `pc[t]` says where in `handle` the thread is:

| `pc` | place in the code |
|---|---|
| `idle` | no call, or the last one has ended |
| `walk` | head of the loop (`gateway.py:199`), before the exact lookup's read |
| `evict` | in `get` on the exact key, between the read and the `del` (`cache.py:38`) |
| `donor` | before the donor lookup's read (`gateway.py:353`) |
| `evict_donor` | the same `del` for the donor key |
| `store` | before `_materialize` (`gateway.py:280`) |
| `donate` | between its two puts (`gateway.py:379`) |

One action is one access to the shared dictionary with the local computation
before it: in CPython a dictionary read, write or deletion is atomic, and
everything else `handle` touches is local to the call. So each action is as
coarse as the code allows and no interleaving is lost. `Accept` takes a request
and reads the clock, once, as `prepare` does.

Two variables are *history*, kept for the properties and never read by a guard:
`lineage[k]` records the contributors of the call that stored entry `k` (`own`),
those of the state that call had reused (`inherited`), and whether approximate
reuse was involved; `influence[t]` is what the running call has reused so far.

### How `Binding`, `Proxy` and `Engine` correspond to the code

A body is two sequences of elements, `tools` and `messages`, each a content with
or without an intent and an id, and a `cache_salt` the caller may have written;
or it is text that is no JSON (`broken`) or no UTF-8 (`undecodable`).
`Extracted` is `extract_fragments`, made-up ids included. `Narrowest`,
`SaltNamespaces` and `DerivedSalt` are `_lower_request_salt`; `Lowered` is what it
does to the statuses on the way; `CacheStatus` is what the client reads.

| `stage` | place in `do_POST` |
|---|---|
| `free` | between connections; `reply` is what the last client was sent |
| `preparing` | inside `prepare`; the steps are those of `Gateway` (`Walk`) |
| `waiting` | in `urlopen` or `read`, `proxy.py:94-95` |

The upstream call ends in one of five ways, each an action: `Answer` (200 with
statuses), `Relay` (`HTTPError`, passed on), `Unreachable` (`URLError`: 502), and
`Lose`, for everything that raises out of `do_POST`: a timeout while reading, an
answer that breaks off, an answer that is no JSON; a timeout that `urlopen` wraps in a
`URLError` ends like `Unreachable` for the client and like `Lose` for the engine.
A lost request's job stays in the engine: `Lose` does not stop it, and a client
that tries again meets its blocks.

`Proxy` lets `Lose` happen at any time, which is all that safety needs. When it
*must* happen is the subject of `Upstream`: the timeout of `urlopen` is that of
the socket, so it bounds each wait for more of the answer and not the call.
`arrived[t]` says that something has come for thread `t` since it last read.
The engine sends a piece (`Trickle`), the thread takes it and waits anew
(`Receive`), and only where nothing has arrived the timeout can strike
(`TimeOut`). `WaitingRunsTheProxy` proves that this only adds to the proxy.

An engine job walks its input: it reuses a block as long as every one before it
was found (`ReuseBlock`), computes and caches the rest (`ComputeBlock`), and may
be overtaken by other jobs and by eviction between any two blocks. Its history
variables record the contributors of each block and job, as `lineage` and
`influence` do for the gateway. Contents are per fragment: a block boundary
inside a fragment adds no case, since nothing differs inside one. A request
without a salt uses the engine's default domain, `None`, a key like any other.

### How the conformance and measuring programs correspond to the code

`Suite` makes the calls of a script one at a time on the actions of `Gateway`,
each at its own reading of the clock and on an empty cache where the program
makes a new gateway, and logs what the program gets to see. `Behavioral` and
`Minimality` are the scripts and the comparisons. The suite is a check of the
*model*: it must report what the repository's own tests record as passed.

In `Measurements` the engine is of a kind drawn at the start: it caches or not,
and heeds no salts, one salt per request (vLLM), or one per message as the
experiment would have it; `setting` says which program runs and whether anybody
else uses the engine. `run`, `stage`, `before` and `measured` are where a
program is; `Die` is an exception out of `chat` or `prefix_cache_stats`, after
which the program may be run again. The engine does not know that its client
has gone: what it was asked and has not served is in `late`, or dropped, and
`ServeLate` serves it at any later time, also between two readings of a later
run. The history variable `disturbed` says that this happened in the present
run, with hits. `engine.counts` says whether the engine exposes
the counter: `prefix_cache_stats` adds up the lines of the metric and is 0 if
there are none.

### What the data is abstracted to

* A digest is the data it is computed from. SHA-256 is taken to be free of
  collisions. `partition_for` joins names with `/` and `:`; the record that
  models the string is as discriminating as long as tenant, principal and session
  names hold no `/`.
* An intent is its constraints, or `Malformed` if `parse_cache_intent` raises on
  it; in a body it may also be `Unsupported`, of another version, because the code
  the client reads differs.
* Composed constraints are computed from the *set* of contributors: `compose`
  reads its list through `any` and `min`. Namespaces, whose order matters, are
  kept as a sequence.
* The execution identity is one constant in the code and is left out of keys.
* Of a body, tokens, models, parameters and the wording of errors are left out;
  so is the list of stripped scope fields. Of the stripped fields only
  `cache_salt` is kept, because an engine acts on it.
* A client that sends its body slowly, or does not take its answer, holds its
  handler thread: neither has a timeout. Connections arrive whole in the model, and
  answers are taken at once; to be held by one's client counts as `free`.

## 3. Runs

Every constant is a small set of strings or a model value; the bounds are
`MaxRequests` (requests accepted) and `MaxTime` (last reading of the clock); in
`Measurements`, the runs of a program and `MaxHits` (hits up to which other
clients use the engine).

| Run | Question | Instance and why it is enough |
|---|---|---|
| `composition` | is the effective policy the greatest lower bound of its contributors, and never relaxed? | one call over the vLLM backend that bypasses what it cannot enforce: every two of the 60 constraints over five scopes, three reuse levels, two modes and ages {absent, 0, 5}, with a fragment that inherits; every three that differ in scope, in reuse, or in mode and age. Members compose independently but for mode and age, and composition is associative, so longer prefixes repeat these steps |
| `sequential` | who can address state, are callers told the truth, and does state last until its deadline? | one thread, two requests, clock 0 to 1: state stored by one is looked up by the other, over every ordered pair of scopes, four callers that differ in exactly one coordinate from `Alice1`, donors, namespaces, malformed and repeated ids, hoisted orders with and without ties; for one caller, keys and donors with deadlines at 0, 1 and never, looked up before, at and after them, with another deadline beside them |
| `threads` | do deadlines hold, is nothing kept that is forbidden, do two threads keep the promise, and does neither hold the other up? | three requests on two threads, clock 0 to 1, over five shapes that share keys: ages that compose to the smaller one, an age of 0, donors that expire, retention forbidden late in a prefix. State is stored, reused and stored again, each deadline is met, reached to the instant and raced for. Threads are symmetric, and only safety is checked with the symmetry |
| `salt_rejects` | is state kept only under policies the backend enforces, do calls fail only for cause, and what does a rejected request leave behind? | two threads, two requests; a backend without lifetimes or approximate matching; prefixes that are unenforceable at their first, second or third fragment, the earlier ones stored |
| `engine` | what do one salt and an engine without policy make of requests, what is the client told, and why is it refused? | one thread, two connections of 39 kinds; every way the upstream call can end. Every reason to be fresh (forbid, none, request, unenforceable, first or last in the prefix) beside requests that share; all pairs of two namespaces and none on two fragments; policies that narrow within a request; bodies with a salt that names another domain. The properties relate two requests, and jobs that nobody waits for run beside the next request, so one thread is enough. The clock stands still here and in `engine_reuse`, since nothing over vLLM has a deadline; it moves in `connections_end` |
| `engine_reuse` | does the engine keep the promise? | three requests of three callers, so that state of the first reaches the third through the second; the engine's jobs interleave with everything, each of them may be abandoned |
| `connections_end` | does every connection end, and does each step bring it closer? | three requests on two threads over a storing backend, clock 0 to 1, no symmetry: one request stores state that expires, the other finds it, does not store it again and fails, so that two threads can race to delete the same expired entry; the engine may do nothing, or send a piece whenever a thread waits |
| `conformance` | does the modelled gateway pass the repository's own programs? | their calls, one after the other: no bound but the programs' own |
| `measurements` | are the printed verdicts right, and what does a measurement show when others use the engine? | every kind of engine; two runs of each program, so that the second meets what the first left, dying at each request and reading, what it was asked served at any point of the second run or never; one run with any eviction and another client up to two hits |
| `late_eviction`, `donor_restarts`, `made_up_ids` | disagreements | section 5 |

`Terminating` lets a behaviour rest once every admitted call has ended, so
deadlock is checked in all gateway runs: a thread stuck inside a call would be
reported.

Each property has a mutant: a definition with a plausible bug
(`PROJECT.json`, "mutants"), under which TLC finds that property violated. The
mutated operators stand beside the definitions they mutate, marked `Mutant:`,
and no specification uses them.

## 4. Properties

* `BoundaryHolds`: no request can address retained state from outside the
  boundary of a contributor, those of reused state included. The program keeps
  no record of contributors; only the shape of partitions makes it hold.
* `GreatestLowerBound`, `NeverRelaxed`: the policy of a prefix weakens none of its
  contributors, gives nothing away needlessly, and is never relaxed further on. The
  contributors are read off the request, not off what the call has accumulated.
* `CallsKeepBoundary`: the same for what a call still carries.
* `ApproximateKeptApart`: state influenced by approximate reuse, however long
  ago, is not in the exact keyspace.
* `ForbiddenNeverRetained`, `NoReusePastMaxAge`, `ReuseWithinNamespaces`: the
  rest of what constraints mean for retained state.
* `StoredIsReported`, `FailsForCause`, `HoistingKeepsOwnShare`: what callers are told.
* `EachFragmentOnce`: the walk visits each fragment of the request once, in whatever
  order it was planned, and its status stands where it was visited.
* `DeletedWhenDue`: an entry leaves the cache only past its own deadline. This is about
  one thread; section 5 says what two do.
* `WaitFree`, `ConnectionsCountDown`: a measure of the work left (`StepsLeft`,
  `TurnsLeft`) falls with every step of a thread's own and is touched by no step of
  another. These are action properties, the safety part of `EveryConnectionEnds`:
  nothing is tried twice, and no thread can keep another one from ending.
* `StoredIsEnforceable`: backends are asked for nothing they cannot do.
* `KeepsPromise`: `Gateway` implements `RetainedState`, with `lineage` as the
  retained state and `influence` as what a computation draws on.
* `EngineKeepsPromise`: the composition of proxy, binding, gateway and engine
  implements the same `RetainedState`, with the engine's blocks as the retained
  state. Nothing but one salt per request enforces it.
* `BypassIsFresh`, `ReuseWithinRequestNamespaces`, `GovernedKeptApart`: what
  lowering many policies to one salt must not lose.
* `StatusBoundaryIsActual`: a request comes by the same salt if and only if it is
  inside the boundary each status reports. It fails if the salt is wider *or*
  narrower than what is said.
* `AdvertisedIsServed`: constraints the capability object permits one by one
  never compose to something the backend cannot enforce.
* `RetainedIsKept`: the converse of `StoredIsReported`, where nothing expires. What
  is reported exact is kept exact; a tainted call that then finds exact state
  reports it as not exact, and the entry it found is exact all the same.
* `EveryConnectionEnds`: if a handler thread never comes back from a connection,
  pieces of an answer keep arriving for it for ever. This is under
  `FairUpstreamSpec`: weak fairness of each thread's own steps (`OwnStep`), which
  are those of `handle` and of `do_POST`, taking what has arrived, and the timeout
  where nothing has. `handle` takes no lock and waits for nothing, so a thread inside a
  call can always move, and threads of the operating system are scheduled. Nothing
  is assumed of the engine, of other clients and of the clock. Without the premise
  TLC finds the loop of `Trickle` and `Receive`.
* `CodeTellsDefect`: the code a client is refused with belongs to a defect its body
  has, and to the first the walk meets where it has several. Over vLLM, whose calls lose no
  race for an entry.
* `SuitePasses`, `EveryMemberEarnsItsPlace`: the conformance programs.
* `VerdictsAreRight`: the verdicts of both programs, on an engine that a program
  has to itself and that tells its hits, whatever runs died before. It is claimed
  of runs in which no late request of a dead run hit between two readings;
  without that condition TLC finds it violated (section 5).
* `HoldsIsProof`: what remains of the demo's verdict when late requests hit at the
  wrong moment or the counter is missing. "isolation holds" is then
  still never printed without cause: the two controls must grow and the middle
  trial must not.
* `ZeroIsProof`: what remains of a single measurement on a busy engine.

### What the conformance programs would not notice

`SuitePasses` and `EveryMemberEarnsItsPlace` were also run under the other
mutants of the gateway. They notice a missing taint, a hoisting order turned
round, an absent age counted as zero, an outcome left unset and state stored under
`forbid`. They do not notice a fragment that starts its constraints afresh
(`ConstraintsHere`), the widest boundary in place of the narrowest
(`WidestShareMax`), a partition by the fragment's own `share_max` (`OwnPartition`) or
without the tenant (`PartitionForNames`), namespaces cut to the last one
(`NamespaceHere`), a deadline served at its very instant (`ExpiredAfter`), repeated
ids let through (`BeginUnchecked`) or a boundary reported as asked for instead of as used
(`GovernedAsAsked`): their prefixes have one contributor each and their callers
share no names. (The repository's unit tests and test vectors catch some of
these on the functions themselves.) These are the cases `BoundaryHolds`,
`CallsKeepBoundary`, `KeepsPromise` and the others of `sequential` and `threads`
are for.

`NoReusePastMaxAge` is about the contributors of the call that stored the
entry (`own`) and the reading of the clock the reading call took. State computed
from reused state is new state in the draft's sense and starts a lifetime of its
own.

## 5. Disagreements found

Shown by a run:

1. `late_eviction`: two threads that read the same expired entry both delete it;
   the second `del` raises `KeyError` (`cache.py:38`) and a valid request fails.
2. `donor_restarts`: after an approximate hit the donor's key is stored again and
   its deadline counts from the read (`gateway.py:379`), which the comment at
   `gateway.py:274` and the draft rule out for reads.
3. `made_up_ids`: ids made up by position collide with declared ones, and a
   valid request fails as a repetition (`binding_openai.py:108`).

Met while modelling, and true of the model's definitions, without a run of their own:

* An exact hit reports `retained` under an effective policy that forbids
  retention (`gateway.py:278`); the draft (802-803) and every other branch say
  `forbidden`. State that depends on a forbidding contributor is still never
  *stored* (`ForbiddenNeverRetained`). `SuitePasses` holds beside it: no test reads
  under `forbid` what another request stored.
* Deadlines are compared with the clock reading a call began with
  (`binding_openai.py:193`): a call that takes time reuses state after its deadline,
  which the draft (333-334) states in terms of time. `NoReusePastMaxAge` is about
  the reading.
* `retained` is reported whether or not `put` kept anything (`gateway.py:369`), so
  over the null backend it is always untrue. `RetainedIsKept` is checked over the
  in-memory backend.
* Requests without any policy are reported `bypass`, which the draft (772) defines
  as no reuse attempted, and share the engine's default domain across tenants
  (`binding_openai.py:228-230`). `GovernedKeptApart` says that governed requests
  stay out of it.
* Made-up ids are reported as if the client had supplied them
  (`binding_openai.py:108`, draft 745-746), and a repeated id is answered as
  `cache_intent_unenforceable` by a gateway that advertises bypass
  (`binding_openai.py:197`, draft 713).
* `cache_status` has entries for ungoverned fragments (`gateway.py:206`, against
  the comment at 70).
* Exceptions other than `HTTPError` and `URLError` leave the client without a
  response (`proxy.py:95`): the action `Lose`.
* Over a backend with salts that keeps entries itself, statuses are rewritten
  after state was stored under other boundaries (`binding_openai.py:250`).
* `minimality.py:191` takes namespaces to partition on the strength of
  `share_max` alone: its observations hold no namespace. That namespaces do
  partition is what `cross_value_effect` sees.
* A thread that has read an expired entry deletes whatever is under the key by then
  (`cache.py:38`), also fresh state that another thread has put in between and reported
  `retained`. State is lost before its deadline, never served past it. `DeletedWhenDue`
  is therefore checked and proved where one thread serves all; with two threads TLC
  finds it violated.
* `measure` (`demo_vllm_isolation.py:34`) reports the hits of everybody, not only
  of the probe; and an eviction between warming and probing leaves a control without
  hits. `ZeroIsProof` is what remains true on a busy engine.
* A chat of either program times out (`vllm_backend.py:83`) while the engine goes
  on. If it serves the chat between the two readings of a run started afterwards,
  that run counts the hits: the demo prints `isolation holds: False` of an engine
  that isolates, and the experiment can err either way. `HoldsIsProof` says that the demo
  does not err the other way.
* `prefix_cache_stats` returns 0 if no line names the metric
  (`vllm_backend.py:110-118`). Each trial then measures 0, which the demo's controls
  notice and the experiment reports as "recovers nothing".
* `timeout=300` of the upstream call (`proxy.py:94`) bounds each wait for more of the
  answer, not the call: an upstream that trickles holds its handler thread for
  as long as it does.

## 6. Proofs

All theorems hold for every set of threads, requests and connections, every
backend, both values of `on_unenforceable`, and any bounds, from the named
assumptions of the modules: requests and bodies are well typed, `Malformed` and
`Unsupported` are no parsed intent, and Python's `None` is no number, no member of
the enumerations (`NoneIsOther`), no request and no record of one
(`NoRequestAssumption`), no connection (`ConnectionsAssumption`) and no salt
(`NoSaltAssumption`). `OpenedAssumption` says that the requests of the gateway
behind the proxy are those that connections make, which is how `MCProxy` defines
them. Some theorems state a further assumption themselves; it is named below,
where it is made.

* `CachePolicyProofs`: minima exist and are what the code's `min` finds;
  composition yields a policy and only narrows the boundary; callers in one
  partition agree on everything a wider scope distinguishes.
* `GatewayProofs`, `TypeCorrect`: `Spec => []TypeOK`. `TypeOK` is inductive as
  it stands because it says where in the loop a thread is (`InCall`): a thread
  past the head of the loop stands at a fragment that parsed and has a policy.
  The module also says once what every later proof needs of a step: that it moves
  one call only (`StepsAreLocal`), keeps what the call was given
  (`RequestStays`), and reports, raises, goes on or returns (`StepShapes`).
* `BoundaryProofs`, `BoundaryAlwaysHolds`: `Spec => []BoundaryHolds`.
  `BoundaryHolds` is not inductive: a call reuses state under one policy and
  stores under a later one. `CallsKeepBoundary` adds that whatever a call has
  reused is within bounds for everyone who shares a partition with the call
  under its present policy *or any narrower one*. It is preserved because
  policies only narrow along a prefix (`ComposeShrinks`) and because a shared
  narrow partition implies a shared wider one (`WiderPartitionsAgree`).
  TLC checks the strengthening in `sequential`.
* `PromiseProofs`, `ForbiddenIsNeverRetained` and `ApproximateIsKeptApart`:
  `Spec => []ForbiddenNeverRetained`, `Spec => []ApproximateKeptApart`. What an
  entry depends on is decided while the call runs, so neither is inductive
  alone. `CallsMayRetain` says of each call in progress that no contributor of
  what it has reused forbids retention, that it is marked tainted if any of it
  was approximate, and that it is between its two puts only under a policy that
  allows retention. The invariant is inductive because a call can reuse only what
  is in the cache, which is free of forbidden state.
* `PromiseProofs`, `ReuseIsWithinMaxAge`: `Spec => NoReusePastMaxAge`, an
  action property. `DeadlinesHold` is the invariant behind it: an entry has a
  deadline as soon as one contributor of its call gave a `max_age`, and it is no
  later than that contributor allows. A `put` keeps it because the composed age
  is the smallest (`MaxAgeIsSmallest`), a lookup uses it because `get` compares
  the deadline with the clock before it returns the entry.
* `PromiseProofs`, `ImplementsPromise`: `Spec => KeepsPromise`, the refinement of
  `RetainedState`. A call that arrives is `Start`, a hit is `Reuse`, each `put`
  is `Retain`, each deletion `Drop`, and every other step stutters. That a hit
  is a `Reuse` is the conjunction of the three invariants above: the reader is
  inside each boundary, no contributor forbids, no `max_age` has passed.
  `DrawnOnAdmits` proves of the gateway what the abstract specification is for
  (`DrawsOnAdmitting`): a call is admitted by every contributor that the state it has
  drawn on goes back to, through any number of calls.
* `WalkProofs`. `Walked` relates what a call has accumulated to the request:
  constraints, contents and statuses are those of the fragments passed, in
  order, and the namespaces came up as the prefixes grew. It is preserved by each
  report. From it, `EffectiveIsGreatest` (`GreatestLowerBound`) and
  `PolicyNeverRelaxes` (`NeverRelaxed`) follow by what `compose` is:
  greatest among the policies that weaken no contributor
  (`ComposeIsGreatest`), stricter with every contributor more (`ComposeTightens`).
  `Planned` and `RunsToEnd` add that the order is the one `plan_order` gives, and
  that a call which returned without an error has passed all of it. With them
  `HoistingCostsNothing` (`HoistingKeepsOwnShare`) follows: in a sorted prefix
  the last fragment with an intent is the narrowest (`LastIsNarrowest`).
* `WalkProofs`, `PlanIsOnePermutation`: the model says of `sorted` only that its result
  is sorted and stable. That there is such a result, and only one, is a theorem. Stability
  makes the order of fragments linear (`ComesInOrder`), so the number of those that come
  before a fragment, plus one, is a place no other has (`PlacesInOrder`), the places are
  all taken (`PlacesAreTaken`), and any stable sort puts each fragment at its place
  (`TakenAtItsPlace`). With it, `FragmentsHandledOnce` (`EachFragmentOnce`) follows from
  `Planned` and `RunsToEnd`.
* `WalkProofs`, `HandleIsWaitFree`: `Spec => WaitFree`. `StepsLeft` is six for each
  fragment still ahead plus the rank of the place in the loop; it is a natural
  number in every reachable state (`Counts`), each action of the walk lowers it
  (`ProceedCountsDown`), and steps are local (`StepsAreLocal`).
* `StoreProofs`. `StoredAlwaysEnforceable` and `NamespacesKeepApart` need that a
  call past the head of the loop has an enforceable policy
  (`KeepsEnforceable`) and that the namespaces in a key are those that were supplied
  (`StoredSpaces`). `StoredAlwaysReported` needs more: ids are
  given out once (`Numbered`), no call keeps the outcome of an exact hit, and what a
  call has put is reported or, between the two puts of one fragment, about to be
  (`StillToReport`).
* `StoreProofs`, `OnlyRacesFailWithoutCause`: with any threads and any backend, a
  call whose error is not `KeyError` failed exactly if its own request gives
  cause. So the race of disagreement 1 is the only way in which calls disturb each
  other. `FailsOnlyForCause` is `FailsForCause` itself, under the assumption
  `NothingExpires \/ OneThread`: no policy the gateway handles has a `max_age`
  (the backend bounds no lifetimes, or no request asks for it), or one thread
  serves all. Without it the property is false: `late_eviction` shows it.
* `StoreProofs`, `RetainedStaysKept`: `RetainedIsKept`, assuming
  `KeepsEntries(Backend)` (the null backend drops what it reports retained, see
  section 5) and `NothingExpires`. `KeepsRetained` adds to the property that
  between the two puts of a fragment the first one is there.
* `StoreProofs`, `EntriesLastUntilDue`: `DeletedWhenDue`, assuming `OneThread`. What a
  thread is about to delete was expired at its call's reading of the clock
  (`EvictsWhatIsThere`), and the clock has only advanced since (`ReadsThePast`).

* `ProxyProofs`, `RunsTheGateway`: `ProxySpec => Spec`. A step of the proxy is a
  step of the gateway or leaves its variables alone, so each theorem above also
  holds behind the proxy.
* `ProxyProofs`, `ProxyTypeCorrect`: `ProxyTypeOK`. `ServesInv` adds what it needs:
  the call of a thread is that of its connection, a call that is being prepared has no
  job yet, the job of one that waits has the salt its statuses came to, and an
  answer of 200 is the lowered statuses of a call that returned.
* `ProxyProofs`, `HandlersCountDown`: `ProxySpec => ConnectionsCountDown`, from
  `HandleIsWaitFree`'s lemmas for the part inside `prepare` and from what the steps of
  `Proxy` do to `stage` for the rest.
* The engine. The argument is that *salt* decides, in two invariants. `SharingInv`,
  for any backend: a block has the salt of the job that computed it and answers only to
  contributors of jobs with this salt, and a job draws only on blocks with its own.
  So the engine shares by nothing but salt, whatever jobs overtake each other, are
  abandoned or lose blocks. `SaltInv`, where the backend takes salts (`HasSalts`): what
  a salt says of its request (`SaltSays`). It is absent exactly if no fragment has a
  policy; its partition has a boundary no wider than that of any contributor, and the
  request's own if any contributor or unenforceable prefix wants it computed
  afresh; its namespaces are those that came up, in that order. `SaltOfRequest`
  derives this from the statuses of the walk, for any number of fragments; that two
  jobs with one salt agree on it is `SameSalt`. From it follow, under `HasSalts`,
  `BypassIsAlwaysFresh` (`BypassIsFresh`), `RequestNamespacesKeepApart`
  (`ReuseWithinRequestNamespaces`), `GovernedStayApart` (`GovernedKeptApart`),
  and, with the rewriting of the statuses, `StatusTellsBoundary`
  (`StatusBoundaryIsActual`). Without `HasSalts` the backend gives the engine nothing
  to tell requests apart by, and the properties are not claimed.
* `ProxyProofs`, `EngineImplementsPromise`, under `HasSalts`:
  `ProxySpec => EngineKeepsPromise`, the second refinement of `RetainedState`. What is
  forwarded is `Start`, a reused block `Reuse`, a computed one `Retain`, an evicted one
  `Drop`. That a reused block is admitted is `FoundIsAdmitted`: the donor has the
  reader's salt, hence neither of them must be fresh, hence the reader is inside each
  contributor's boundary, none of them forbids and none has a `max_age`
  (`FreshOrAgeless`: a backend with salts enforces no `max_age`, so a policy with one is
  bypassed). `DrawnFromTheEngineAdmits` is `DrawsOnAdmitting` for the engine.
* `ProxyProofs`, `AdvertisedIsAlwaysServed`: `AdvertisedIsServed`, over every backend,
  assuming `NothingExpires \/ OneThread` as `FailsOnlyForCause` does; a
  backend with salts satisfies `NothingExpires` by itself. `PermittedComposes` is the
  heart: what is advertised member by member composes to something enforceable that is
  still shared. That nothing of it is bypassed needs `BypassInv` of `StoreProofs`:
  a governed fragment is reported `bypass` only if its policy permits no reuse or
  cannot be enforced.

* `MeasurementsProofs`, `ZeroIsAlwaysProof`: `ZeroIsProof`, with any number of other
  clients, late requests and evictions. Between the two readings the counter has
  grown by no less than the probe reused (`CounterInv`).
* `MeasurementsProofs`, `VerdictsAreAlwaysRight`: `VerdictsAreRight`, for any number of
  runs, with any number between them that died and whose requests the engine serves at any
  time or never. `CacheInv` says that what is cached, or would be by a late
  request, bears no later nonce than that of the present trial, and that what bears this one is
  what this trial has warmed, because nonces never come back and only dead runs
  have late requests. So a probe reuses exactly what it has in common with its own warming
  request (`ReusedIsExpected`), and an undisturbed reading is `Expected` (`ReadingInv`).
  `DemoSays` and `ExperimentSays` derive from the salts sent that the verdict then
  tells which engine it is.
* `MeasurementsProofs`, `HoldsIsAlwaysProof`: `HoldsIsProof`. It needs no
  undisturbed reading: the middle trial measures no less than its own probe reused, and
  the controls measure something only if the engine tells hits and caches (`BlindInv`).
* `ProxyProofs`, `WaitingRunsTheProxy`: `UpstreamSpec => ProxySpec`, so that all of the
  above holds while answers come in pieces.

TLC checked each of these invariants on the instances of section 3 before it was proved.

Only model-checked: `EveryConnectionEnds`, which is liveness under fairness and
outside the proof system's reach (its safety part is `HandlersCountDown`; what is left
to TLC is that a thread inside a connection to which nothing arrives always has a step,
and takes it), `CodeTellsDefect`, a fact of one request, and `SuitePasses` and `EveryMemberEarnsItsPlace` of
`Suite`: they are about fixed scripts of calls without other actors, where a proof
would say no more than the run. The three properties of section 5 that runs show
violated are false. The modules proved about need no recursion.

## 7. Not modelled, and the plan

The modules of section 2 are written, and every safety property of `Gateway`, of `Proxy`
over it and `Engine`, and of `Measurements` that holds is proved, but for
`CodeTellsDefect`. What could still be added: the parts of `SuitePasses` that follow from the theorems on `Gateway` for scripts
other than the conformance programs', and the round trip of intents through the parser.

Not modelled, and why:

* `conformance/run_conformance.py`, and the round trips of `behavioral.py`
  through the schemas: validation of documents against JSON Schema, without
  state; the vectors it composes are inside what `composition` enumerates.
* JSON text: duplicate members, escapes, and how contents are serialized.
  Contents are told apart, nothing else is asked of them.
* Incomparable scopes: the schema admits only those of version 1.
* `reorder_for_reuse`, which always raises; checks that a server is reachable;
  printing.
* Inside the engine: batching, scheduling and block size.
