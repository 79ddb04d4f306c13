------------------------- MODULE CachePolicyProofs -------------------------
(***************************************************************************)
(* Facts about composition and partitions that hold for every set of       *)
(* constraints and every caller.                                           *)
(***************************************************************************)
EXTENDS CachePolicy, WellFoundedInduction, TLAPS

\* Each scope has a rank of its own (compose.py SHARE_LADDER).
LEMMA RanksDiffer ==
    ASSUME NEW a \in Scopes, NEW b \in Scopes, ShareRank(a) <= ShareRank(b),
           ShareRank(b) <= ShareRank(a)
    PROVE  a = b
<1>1. ShareRank(a) \in 0..4 /\ ShareRank(b) \in 0..4
  BY DEF Scopes, ShareRank
<1>2. ShareRank(a) = ShareRank(b)
  BY <1>1
<1>. QED
  BY <1>2 DEF Scopes, ShareRank

\* The narrowest of a non-empty set of scopes is one of them, and no wider
\* than any (compose.py intersect_share_max).
LEMMA ShareMaxIsNarrowest ==
    ASSUME NEW S, S \subseteq Scopes, S # {}
    PROVE  /\ IntersectShareMax(S) \in S
           /\ \A s \in S : ShareRank(IntersectShareMax(S)) <= ShareRank(s)
<1>1. \E s \in S : \A t \in S : ShareRank(s) <= ShareRank(t)
  <2>1. CASE "request" \in S
    BY <2>1 DEF Scopes, ShareRank
  <2>2. CASE "request" \notin S /\ "session" \in S
    BY <2>2 DEF Scopes, ShareRank
  <2>3. CASE "request" \notin S /\ "session" \notin S /\ "principal" \in S
    BY <2>3 DEF Scopes, ShareRank
  <2>4. CASE "request" \notin S /\ "session" \notin S /\ "principal" \notin S /\ "tenant" \in S
    BY <2>4 DEF Scopes, ShareRank
  <2>5. CASE S = {"public"}
    BY <2>5 DEF Scopes, ShareRank
  <2>. QED
    BY <2>1, <2>2, <2>3, <2>4, <2>5 DEF Scopes
<1>. QED
  BY <1>1 DEF IntersectShareMax

\* The same for reuse levels (compose.py compose_reuse).
LEMMA ReuseIsStrictest ==
    ASSUME NEW S, S \subseteq ReuseLevels, S # {}
    PROVE  /\ ComposeReuse(S) \in S
           /\ \A u \in S : ReuseRank(ComposeReuse(S)) <= ReuseRank(u)
<1>1. \E u \in S : \A v \in S : ReuseRank(u) <= ReuseRank(v)
  <2>1. CASE "none" \in S
    BY <2>1 DEF ReuseLevels, ReuseRank
  <2>2. CASE "none" \notin S /\ "exact" \in S
    BY <2>2 DEF ReuseLevels, ReuseRank
  <2>3. CASE S = {"approximate"}
    BY <2>3 DEF ReuseLevels, ReuseRank
  <2>. QED
    BY <2>1, <2>2, <2>3 DEF ReuseLevels
<1>. QED
  BY <1>1 DEF ComposeReuse

\* A non-empty set of naturals has a smallest member, and Min finds it.
LEMMA MinIsSmallest ==
    ASSUME NEW S, S \subseteq Nat, S # {}
    PROVE  /\ Min(S) \in S
           /\ \A n \in S : Min(S) <= n
<1>1. \E m \in S : \A n \in S : ~(<<n, m>> \in OpToRel(<, Nat))
  BY NatLessThanWellFounded, WFMin
<1>2. \A m, n \in Nat : n < m => <<n, m>> \in OpToRel(<, Nat)
  BY Zenon DEF OpToRel
<1>3. \E m \in S : \A n \in S : ~(n < m)
  BY <1>1, <1>2
<1>4. \E m \in S : \A n \in S : m <= n
  BY <1>3
<1>. QED
  BY <1>4 DEF Min

\* The effective max_age is one that was supplied, and no larger than any
\* (compose.py compose_max_age).
LEMMA MaxAgeIsSmallest ==
    ASSUME NEW S, S \subseteq Nat \cup {None}
    PROVE  /\ ComposeMaxAge(S) \in S \cup {None}
           /\ \A a \in S : a # None => /\ ComposeMaxAge(S) # None
                                       /\ ComposeMaxAge(S) <= a
<1>. DEFINE supplied == S \ {None}
<1>1. CASE supplied = {}
  BY <1>1 DEF ComposeMaxAge
<1>2. CASE supplied # {}
  <2>1. supplied \subseteq Nat
    OBVIOUS
  <2>2. Min(supplied) \in supplied /\ \A n \in supplied : Min(supplied) <= n
    BY <1>2, <2>1, MinIsSmallest
  <2>. QED
    BY <1>2, <2>2, NoneAssumption DEF ComposeMaxAge
<1>. QED
  BY <1>1, <1>2

\* Composition answers with a policy (compose.py compose).
LEMMA ComposeIsPolicy ==
    ASSUME NEW C, C \subseteq Constraints, C # {}
    PROVE  Compose(C) \in Policies
<1>1. ComposeMaxAge({c.max_age : c \in C}) \in Nat \cup {None}
  <2>1. {c.max_age : c \in C} \subseteq Nat \cup {None}
    BY DEF Constraints
  <2>. QED
    BY <2>1, MaxAgeIsSmallest
<1>2. ComposeReuse({c.reuse : c \in C}) \in ReuseLevels
  <2>1. {c.reuse : c \in C} \subseteq ReuseLevels /\ {c.reuse : c \in C} # {}
    BY DEF Constraints
  <2>. QED
    BY <2>1, ReuseIsStrictest
<1>3. IntersectShareMax({c.share_max : c \in C}) \in Scopes
  <2>1. {c.share_max : c \in C} \subseteq Scopes /\ {c.share_max : c \in C} # {}
    BY DEF Constraints
  <2>. QED
    BY <2>1, ShareMaxIsNarrowest
<1>. QED
  BY <1>1, <1>2, <1>3 DEF Compose, Policies, Modes

\* The effective boundary is no wider than that of any contributor
\* (compose.py compose).
LEMMA ComposeNarrows ==
    ASSUME NEW C, C \subseteq Constraints, NEW c \in C
    PROVE  ShareRank(Compose(C).share_max) <= ShareRank(c.share_max)
<1>. DEFINE S == {d.share_max : d \in C}
<1>1. S \subseteq Scopes /\ S # {} /\ c.share_max \in S
  BY DEF Constraints
<1>2. ShareRank(IntersectShareMax(S)) <= ShareRank(c.share_max)
  BY <1>1, ShareMaxIsNarrowest
<1>. QED
  BY <1>2 DEF Compose

\* More contributors never widen the boundary (compose.py compose, gateway.py
\* handle).
LEMMA ComposeShrinks ==
    ASSUME NEW C, C \subseteq Constraints, C # {},
           NEW D, D \subseteq Constraints, C \subseteq D
    PROVE  ShareRank(Compose(D).share_max) <= ShareRank(Compose(C).share_max)
<1>. DEFINE S == {c.share_max : c \in C}
<1>1. S \subseteq Scopes /\ S # {}
  BY DEF Constraints
<1>2. IntersectShareMax(S) \in S
  BY <1>1, ShareMaxIsNarrowest
<1>3. PICK c \in C : c.share_max = IntersectShareMax(S)
  BY <1>2
<1>4. ShareRank(Compose(D).share_max) <= ShareRank(c.share_max)
  BY <1>3, ComposeNarrows
<1>. QED
  BY <1>3, <1>4 DEF Compose

-----------------------------------------------------------------------------
\* Partitions

\* Two callers in one partition of a scope agree on all that a wider scope
\* tells apart (auth.py partition_for).  A request id says nothing of who the
\* caller is, so the narrowest scope is left out.
LEMMA PartitionsNest ==
    ASSUME NEW a \in Scopes, NEW b \in Scopes, a # "request",
           ShareRank(a) <= ShareRank(b),
           NEW x, NEW y, NEW i, NEW j,
           PartitionFor(a, x, i) = PartitionFor(a, y, j)
    PROVE  /\ b # "request"
           /\ b = "session" => x.session = y.session
           /\ b \in {"session", "principal"} => x.principal = y.principal
           /\ b \in {"session", "principal", "tenant"} => x.tenant = y.tenant
<1>1. /\ a = "session" => x.session = y.session
      /\ a \in {"session", "principal"} => x.principal = y.principal
      /\ a \in {"session", "principal", "tenant"} => x.tenant = y.tenant
  BY DEF PartitionFor
<1>. QED
  BY <1>1 DEF Scopes, ShareRank

\* Within one partition of a scope no wider than the source's, every reader is
\* inside the source's boundary.
LEMMA SamePartitionInBoundary ==
    ASSUME NEW source \in Sources, NEW reader, NEW a \in Scopes, a # "request", NEW i,
           ShareRank(a) <= ShareRank(source.constraints.share_max),
           PartitionFor(a, reader.auth, reader.request) = PartitionFor(a, source.auth, i)
    PROVE  InBoundary(source, reader)
<1>. DEFINE b == source.constraints.share_max
<1>1. b \in Scopes
  BY DEF Sources, Constraints
<1>2. /\ b # "request"
      /\ b = "session" => reader.auth.session = source.auth.session
      /\ b \in {"session", "principal"} => reader.auth.principal = source.auth.principal
      /\ b \in {"session", "principal", "tenant"} => reader.auth.tenant = source.auth.tenant
  BY <1>1, PartitionsNest
<1>. QED
  BY <1>1, <1>2 DEF InBoundary, Scopes

\* A partition names its scope (auth.py partition_for).
LEMMA PartitionScope ==
    ASSUME NEW a, NEW b, NEW x, NEW y, NEW i, NEW j,
           PartitionFor(a, x, i) = PartitionFor(b, y, j)
    PROVE  a = b
BY DEF PartitionFor

\* Partitions of typed contexts are typed (auth.py partition_for).
LEMMA PartitionType ==
    ASSUME NEW a \in Scopes, NEW x \in AuthContext, NEW i \in Nat
    PROVE  PartitionFor(a, x, i) \in Partitions
BY DEF PartitionFor, Partitions, AuthContext
=============================================================================
