---------------------------- MODULE CachePolicy ----------------------------
(***************************************************************************)
(* The decisions the gateway takes without touching shared state: how the  *)
(* constraints of contributing fragments compose (compose.py), which       *)
(* partition and key a piece of state has (auth.py, identity.py), and what *)
(* a backend can enforce (backends.py, vllm_backend.py, gateway.py).       *)
(*                                                                         *)
(* Strings of the program stay strings.  A digest is modelled by the data  *)
(* it is computed from: SHA-256 is taken to have no collisions, and the    *)
(* encodings that feed it are injective as long as tenant, principal and   *)
(* session names hold no "/" (partition_for joins them with "/").          *)
(***************************************************************************)
EXTENDS Integers, Sequences, FiniteSetsExt

CONSTANT None   \* Python's None: an absent value

\* No age is None: "Absent means absent, not infinity and not zero".
ASSUME NoneAssumption == None \notin Nat

-----------------------------------------------------------------------------
\* Constraints

Scopes == {"request", "session", "principal", "tenant", "public"}
ReuseLevels == {"none", "exact", "approximate"}
Modes == {"allow", "forbid"}

\* The place of a scope on SHARE_LADDER, narrowest first.
ShareRank(s) == CASE s = "request"   -> 0
                  [] s = "session"   -> 1
                  [] s = "principal" -> 2
                  [] s = "tenant"    -> 3
                  [] s = "public"    -> 4

\* The place of a reuse level on REUSE_ORDER, most restrictive first.
ReuseRank(u) == CASE u = "none"        -> 0
                  [] u = "exact"       -> 1
                  [] u = "approximate" -> 2

\* The constraints object of one cache intent that passed the schema.
Constraints == [mode : Modes, max_age : Nat \cup {None}, reuse : ReuseLevels,
                share_max : Scopes, namespace : STRING \cup {None}]

-----------------------------------------------------------------------------
\* Conservative composition of a non-empty set C of constraints.  compose
\* reads its list through any() and min() only, so the set says enough; the
\* namespaces, whose order matters, are kept apart by the callers.

\* Mutant: the widest boundary instead of the narrowest.
WidestShareMax(S) == CHOOSE s \in S : \A t \in S : ShareRank(t) <= ShareRank(s)

IntersectShareMax(S) == CHOOSE s \in S : \A t \in S : ShareRank(s) <= ShareRank(t)

ComposeReuse(S) == CHOOSE u \in S : \A v \in S : ReuseRank(u) <= ReuseRank(v)

\* Mutant: one contributor without a bound lifts the bound of the others.
ComposeMaxAgeUnlessAbsent(S) == IF None \in S THEN None ELSE Min(S)

\* Mutant: an absent bound counts as zero.
ComposeMaxAgeFromZero(S) == Min({IF age = None THEN 0 ELSE age : age \in S})

ComposeMaxAge(S) == LET supplied == S \ {None}
                    IN  IF supplied = {} THEN None ELSE Min(supplied)

Forbids(C) == \E c \in C : c.mode = "forbid"

Compose(C) ==
    [mode      |-> IF Forbids(C) THEN "forbid" ELSE "allow",
     max_age   |-> IF Forbids(C) THEN None ELSE ComposeMaxAge({c.max_age : c \in C}),
     reuse     |-> ComposeReuse({c.reuse : c \in C}),
     share_max |-> IntersectShareMax({c.share_max : c \in C})]

\* What compose returns, its namespace digest aside.
Policies == [mode : Modes, max_age : Nat \cup {None}, reuse : ReuseLevels, share_max : Scopes]

-----------------------------------------------------------------------------
\* Partitions and keys

AuthContext == [tenant : STRING, principal : STRING, session : STRING]

\* Mutant: principals are told apart without their tenant.
PartitionForNames(share_max, auth, request_id) ==
    [scope     |-> share_max,
     tenant    |-> IF share_max = "tenant" THEN auth.tenant ELSE None,
     principal |-> IF share_max \in {"principal", "session"} THEN auth.principal ELSE None,
     session   |-> IF share_max = "session" THEN auth.session ELSE None,
     request   |-> IF share_max = "request" THEN request_id ELSE None]

PartitionFor(share_max, auth, request_id) ==
    [scope     |-> share_max,
     tenant    |-> IF share_max \in {"tenant", "principal", "session"} THEN auth.tenant ELSE None,
     principal |-> IF share_max \in {"principal", "session"} THEN auth.principal ELSE None,
     session   |-> IF share_max = "session" THEN auth.session ELSE None,
     request   |-> IF share_max = "request" THEN request_id ELSE None]

Partitions == [scope : Scopes, tenant : STRING \cup {None}, principal : STRING \cup {None},
               session : STRING \cup {None}, request : Nat \cup {None}]

\* The execution identity is the same for every request of this gateway, and
\* is left out of the key.
CacheKey(contents, namespaces, partition, exact) ==
    [contents |-> contents, namespaces |-> namespaces, partition |-> partition, exact |-> exact]

CacheKeys == [contents : Seq(STRING), namespaces : Seq(STRING), partition : Partitions,
              exact : BOOLEAN]

-----------------------------------------------------------------------------
\* Backends

Backends == {"in-memory", "salt-only", "null", "vllm"}

SupportsMaxAge(backend) == backend \in {"in-memory", "null"}
SupportsApproximate(backend) == backend \in {"in-memory", "null"}
ObservesOutcomes(backend) == backend # "vllm"

\* Backends whose get and put reach an InMemoryCache; those of the others
\* answer None and do nothing.
KeepsEntries(backend) == backend \in {"in-memory", "salt-only"}

\* _check_enforceable raises nothing.  Every backend supports both retention
\* modes, every scope, namespaces, and the reuse levels below approximate.
Enforceable(policy, backend) ==
    /\ policy.max_age # None => SupportsMaxAge(backend)
    /\ policy.reuse = "approximate" => SupportsApproximate(backend)

-----------------------------------------------------------------------------
\* What the draft promises a contributor (Retained State Carries Its Own
\* Policy): a source is its constraints with the authenticated context, the
\* request and the time they arrived with.  The program keeps none of this.

Sources == [constraints : Constraints, auth : AuthContext, request : Nat, at : Nat]

\* The request that reader describes is inside the boundary share_max draws
\* around the request the source came with.
InBoundary(source, reader) ==
    LET Same(field) == reader.auth[field] = source.auth[field]
    IN  CASE source.constraints.share_max = "public"    -> TRUE
          [] source.constraints.share_max = "tenant"    -> Same("tenant")
          [] source.constraints.share_max = "principal" -> Same("tenant") /\ Same("principal")
          [] source.constraints.share_max = "session"   ->
                 Same("tenant") /\ Same("principal") /\ Same("session")
          [] source.constraints.share_max = "request"   -> reader.request = source.request

\* now < materialized_at + max_age
WithinMaxAge(source, now) ==
    source.constraints.max_age # None => now < source.at + source.constraints.max_age
=============================================================================
