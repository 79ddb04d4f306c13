----------------------------- MODULE WalkProofs -----------------------------
(***************************************************************************)
(* What handle has accumulated when it reaches a fragment is what the      *)
(* request says of the prefix: its constraints, contents and namespaces,   *)
(* and one status for each fragment passed.  From that, the policy of      *)
(* every prefix is the greatest lower bound of its contributors and is     *)
(* never relaxed, and hoisting costs no fragment its own boundary.  The    *)
(* order fragments are planned in is one permutation of them, and each     *)
(* step of a call brings it closer to its end: for every set of threads    *)
(* and requests, every backend, and any bounds.                            *)
(***************************************************************************)
EXTENDS GatewayProofs, FiniteSetTheorems, FunctionTheorems

-----------------------------------------------------------------------------
\* The prefix of a call, read off the order of its fragments

Prefix(c, i) == {c.order[j].intent : j \in 1..i} \ {None}

Passed(c) == 1..(c.pos - 1)

\* The status of a fragment with these contributors.
FollowsPolicy(status, C) ==
    IF C = {} THEN status.effective_reuse = None /\ status.namespaces = <<>>
    ELSE /\ status.effective_share = Compose(C).share_max
         /\ status.effective_reuse = Compose(C).reuse
         /\ status.effective_retention_mode = Compose(C).mode
         /\ ~Enforceable(Compose(C), Backend) =>
               status.outcome = "bypass" /\ OnUnenforceable = "bypass"

\* The namespaces of a call come up in the order of its fragments: the first so
\* many are those of a prefix, and each prefix has the first so many.
FirstSpaces(c, m) == {c.namespaces[j] : j \in 1..m}

FollowsSpaces(c) ==
    /\ SuppliedNamespaces(c.constraints) = FirstSpaces(c, Len(c.namespaces))
    /\ \A i \in Passed(c) :
          \E m \in 0..Len(c.namespaces) : SuppliedNamespaces(Prefix(c, i)) = FirstSpaces(c, m)
    /\ \A m \in 1..Len(c.namespaces) :
          \E i \in Passed(c) : SuppliedNamespaces(Prefix(c, i)) = FirstSpaces(c, m)

\* A status has the namespaces so far, of which there were fewer before.
ReportsSpaces(c) ==
    \A i \in Passed(c) :
        /\ c.statuses[i].namespaces # <<>> => c.namespaces # <<>>
        /\ i = c.pos - 1 /\ Prefix(c, i) # {} => c.statuses[i].namespaces = c.namespaces

Walked(c) ==
    /\ c.pos <= Len(c.order) + 1
    /\ c.constraints = Prefix(c, c.pos - 1)
    /\ Len(c.contents) = c.pos - 1
    /\ Len(c.statuses) = c.pos - 1
    /\ \A i \in Passed(c) : /\ c.contents[i] = c.order[i].content
                            /\ c.order[i].intent # Malformed
                            /\ FollowsPolicy(c.statuses[i], Prefix(c, i))
    /\ FollowsSpaces(c)
    /\ ReportsSpaces(c)

\* Past the head of the loop the policy is one the backend enforces.
KeepsEnforceable(t) == pc[t] \notin {"idle", "walk"} => Enforceable(Effective(t), Backend)

WalkInv == TypeOK /\ \A t \in Threads : Walked(task[t]) /\ KeepsEnforceable(t)

\* One fragment more (gateway.py handle).
LEMMA PrefixGrows ==
    ASSUME NEW c, NEW i \in Nat
    PROVE  Prefix(c, i + 1) = Prefix(c, i) \cup ({c.order[i + 1].intent} \ {None})
<1>1. 1..(i + 1) = 1..i \cup {i + 1}
  OBVIOUS
<1>. QED
  BY <1>1 DEF Prefix

\* A fragment less never has more contributors.
LEMMA PrefixesNest ==
    ASSUME NEW c, NEW i \in Nat, NEW j \in Nat, i <= j
    PROVE  Prefix(c, i) \subseteq Prefix(c, j)
BY DEF Prefix

\* Calls in the same order have the same prefixes.
LEMMA SamePrefix ==
    ASSUME NEW c, NEW d, c.order = d.order, NEW i
    PROVE  Prefix(c, i) = Prefix(d, i)
BY DEF Prefix

\* Contributors are parsed constraints, as far as the fragments parsed (parse.py).
LEMMA PrefixTyped ==
    ASSUME NEW c \in Calls, NEW i \in Nat, i <= Len(c.order),
           \A j \in 1..i : c.order[j].intent # Malformed
    PROVE  Prefix(c, i) \subseteq Constraints
<1>1. ASSUME NEW j \in 1..i PROVE c.order[j].intent \in Constraints \cup {None}
  <2>1. c.order \in Seq(Fragments)
    BY DEF Calls
  <2>2. j \in 1..Len(c.order)
    OBVIOUS
  <2>3. c.order[j] \in Fragments
    BY <2>1, <2>2
  <2>. QED
    BY <2>3 DEF Fragments
<1>. QED
  BY <1>1 DEF Prefix

\* A call whose walk has not moved has still walked so far.
LEMMA StillWalked ==
    ASSUME NEW c, Walked(c), NEW d, d.order = c.order, d.pos = c.pos,
           d.constraints = c.constraints, d.contents = c.contents,
           d.namespaces = c.namespaces, d.statuses = c.statuses
    PROVE  Walked(d)
<1>1. \A i : Prefix(d, i) = Prefix(c, i)
  BY SamePrefix
<1>2. Passed(d) = Passed(c) /\ \A m : FirstSpaces(d, m) = FirstSpaces(c, m)
  BY DEF Passed, FirstSpaces
<1>3. FollowsSpaces(d) /\ ReportsSpaces(d)
  BY <1>1, <1>2 DEF Walked, FollowsSpaces, ReportsSpaces
<1>. QED
  BY <1>1, <1>2, <1>3 DEF Walked

\* A call that has passed no fragment.
LEMMA FreshlyWalked ==
    ASSUME NEW c, c.order \in Seq(Fragments), c.pos = 1, c.constraints = {}, c.contents = <<>>,
           c.namespaces = <<>>, c.statuses = <<>>
    PROVE  Walked(c)
<1>1. Passed(c) = {} /\ Len(c.namespaces) = 0 /\ Len(c.order) \in Nat
  BY DEF Passed
<1>2. Prefix(c, 0) = {} /\ FirstSpaces(c, 0) = {}
  BY DEF Prefix, FirstSpaces
<1>3. FollowsSpaces(c) /\ ReportsSpaces(c)
  BY <1>1, <1>2 DEF FollowsSpaces, ReportsSpaces, SuppliedNamespaces
<1>. QED
  BY <1>1, <1>2, <1>3 DEF Walked

-----------------------------------------------------------------------------
\* Passing a fragment

\* At a fragment, what the call has accumulated is its prefix with the fragment
\* (gateway.py handle).
LEMMA ReachedPrefix ==
    ASSUME TypeOK, NEW t \in Threads, AtFragment(t), Walked(task[t])
    PROVE  /\ ConstraintsSoFar(t) = Prefix(task[t], task[t].pos)
           /\ task[t].pos \in 1..Len(task[t].order)
<1>1. task[t].pos \in Nat \ {0} /\ Len(task[t].order) \in Nat
  BY DEF TypeOK, CallsTypeOK, Calls
<1>2. Prefix(task[t], task[t].pos)
        = Prefix(task[t], task[t].pos - 1) \cup ({task[t].order[task[t].pos].intent} \ {None})
  <2>1. task[t].pos - 1 \in Nat /\ (task[t].pos - 1) + 1 = task[t].pos
    BY <1>1
  <2>. QED
    BY <2>1, PrefixGrows
<1>. QED
  BY <1>1, <1>2 DEF Walked, ConstraintsSoFar, Fragment, AtFragment

\* The namespaces that have been supplied are those that were collected
\* (gateway.py handle, namespaces).
LEMMA SpacesSoFar ==
    ASSUME TypeOK, NEW t \in Threads, AtFragment(t), Walked(task[t])
    PROVE  /\ SuppliedNamespaces(ConstraintsSoFar(t))
                = {NamespacesSoFar(t)[j] : j \in 1..Len(NamespacesSoFar(t))}
           /\ \/ NamespacesSoFar(t) = task[t].namespaces
              \/ \E n : NamespacesSoFar(t) = Append(task[t].namespaces, n)
<1>. DEFINE ns == task[t].namespaces
            intent == Fragment(t).intent
<1>1. SuppliedNamespaces(task[t].constraints) = {ns[j] : j \in 1..Len(ns)}
  BY DEF Walked, FollowsSpaces, FirstSpaces
<1>2. CASE intent = None \/ intent.namespace = None
  <2>1. NamespacesSoFar(t) = ns
    BY <1>2 DEF NamespacesSoFar
  <2>2. SuppliedNamespaces(ConstraintsSoFar(t)) = SuppliedNamespaces(task[t].constraints)
    BY <1>2 DEF ConstraintsSoFar, SuppliedNamespaces
  <2>. QED
    BY <1>1, <2>1, <2>2
<1>3. CASE ~(intent = None \/ intent.namespace = None)
  <2>. DEFINE n == intent.namespace
              more == Append(ns, n)
  <2>1. NamespacesSoFar(t) = more
    BY <1>3 DEF NamespacesSoFar
  <2>2. SuppliedNamespaces(ConstraintsSoFar(t)) = SuppliedNamespaces(task[t].constraints) \cup {n}
    BY <1>3 DEF ConstraintsSoFar, SuppliedNamespaces
  <2>3. ns \in Seq(STRING) /\ Len(ns) \in Nat
    BY DEF TypeOK, CallsTypeOK, Calls
  <2>4. /\ Len(more) = Len(ns) + 1 /\ more[Len(ns) + 1] = n
        /\ \A j \in 1..Len(ns) : more[j] = ns[j]
    BY <2>3
  <2>5. 1..(Len(ns) + 1) = 1..Len(ns) \cup {Len(ns) + 1}
    BY <2>3
  <2>6. {more[j] : j \in 1..Len(more)} = {ns[j] : j \in 1..Len(ns)} \cup {n}
    BY <2>4, <2>5
  <2>. QED
    BY <1>1, <2>1, <2>2, <2>6
<1>. QED
  BY <1>2, <1>3

\* The namespaces so far extend those that were collected.
LEMMA SpacesExtend ==
    ASSUME TypeOK, NEW t \in Threads, AtFragment(t), Walked(task[t]),
           NEW d, d.namespaces = NamespacesSoFar(t)
    PROVE  /\ Len(task[t].namespaces) \in Nat /\ Len(d.namespaces) \in Nat
           /\ Len(task[t].namespaces) <= Len(d.namespaces)
           /\ Len(d.namespaces) <= Len(task[t].namespaces) + 1
           /\ \A m \in 0..Len(task[t].namespaces) : FirstSpaces(d, m) = FirstSpaces(task[t], m)
<1>. DEFINE ns == task[t].namespaces
<1>1. ns \in Seq(STRING) /\ Len(ns) \in Nat /\ NamespacesSoFar(t) \in Seq(STRING)
  BY PrefixTypes DEF TypeOK, CallsTypeOK, Calls
<1>2. CASE NamespacesSoFar(t) = ns
  BY <1>1, <1>2 DEF FirstSpaces
<1>3. CASE \E n : NamespacesSoFar(t) = Append(ns, n)
  <2>1. PICK n : NamespacesSoFar(t) = Append(ns, n)
    BY <1>3
  <2>2. Len(d.namespaces) = Len(ns) + 1 /\ \A j \in 1..Len(ns) : d.namespaces[j] = ns[j]
    BY <1>1, <2>1
  <2>3. \A m \in 0..Len(ns) : FirstSpaces(d, m) = FirstSpaces(task[t], m)
    BY <1>1, <2>2 DEF FirstSpaces
  <2>. QED
    BY <1>1, <2>2, <2>3
<1>. QED
  BY <1>2, <1>3, SpacesSoFar

\* A fragment passed is reported under the policy of its prefix (gateway.py
\* handle, FragmentStatus).
LEMMA ReportFollows ==
    ASSUME TypeOK, NEW t \in Threads, KeepsEnforceable(t), NEW status, SaysPolicy(t, status)
    PROVE  /\ FollowsPolicy(status, ConstraintsSoFar(t))
           /\ status.namespaces # <<>> => status.namespaces = NamespacesSoFar(t)
           /\ ConstraintsSoFar(t) # {} => status.namespaces = NamespacesSoFar(t)
<1>1. CASE ConstraintsSoFar(t) = {}
  BY <1>1 DEF SaysPolicy, Ungoverned, FollowsPolicy
<1>2. CASE ConstraintsSoFar(t) # {}
  <2>1. PICK outcome, retention, exact : /\ status = Governed(t, outcome, retention, exact)
                                         /\ BypassesUnenforceable(t, outcome)
    BY <1>2 DEF SaysPolicy
  <2>2. pc[t] # "walk" => Enforceable(Effective(t), Backend)
    BY DEF KeepsEnforceable, SaysPolicy, AtFragment
  <2>3. ~Enforceable(Effective(t), Backend) => outcome = "bypass" /\ OnUnenforceable = "bypass"
    BY <2>1, <2>2 DEF BypassesUnenforceable
  <2>. QED
    BY <1>2, <2>1, <2>3 DEF Governed, FollowsPolicy, Effective
<1>. QED
  BY <1>1, <1>2

\* What a report leaves of a call (gateway.py handle).
LEMMA ReportLeaves ==
    ASSUME TypeOK, NEW t \in Threads, NEW status, Report(t, status)
    PROVE  /\ task'[t].order = task[t].order
           /\ task'[t].pos = task[t].pos + 1
           /\ task'[t].constraints = ConstraintsSoFar(t)
           /\ task'[t].contents = ContentsSoFar(t)
           /\ task'[t].namespaces = NamespacesSoFar(t)
           /\ task'[t].statuses = Append(task[t].statuses, status)
           /\ task'[t].request = task[t].request
           /\ task'[t].id = task[t].id
           /\ task'[t].now = task[t].now
           /\ task'[t].error = task[t].error
           /\ task'[t].tainted = task[t].tainted
           /\ pc'[t] = "walk"
BY DEF TypeOK, CallsTypeOK, Calls, Report

\* A call that has passed one fragment more has walked that far.
LEMMA ReportWalks ==
    ASSUME TypeOK, NEW t \in Threads, Walked(task[t]), KeepsEnforceable(t),
           NEW status, Report(t, status), SaysPolicy(t, status)
    PROVE  Walked(task'[t])
<1>. DEFINE c == task[t]
            d == task'[t]
<1>0. AtFragment(t)
  BY DEF SaysPolicy
<1>1. /\ c.pos \in Nat \ {0} /\ c.contents \in Seq(STRING) /\ c.statuses \in Seq(Statuses)
      /\ c.order \in Seq(Fragments) /\ Len(c.order) \in Nat
      /\ Fragment(t).content \in STRING /\ Fragment(t) = c.order[c.pos]
      /\ Fragment(t).intent # Malformed
  <2>1. c \in Calls
    BY <1>0, CallTypes DEF AtFragment
  <2>2. Fragment(t) \in Fragments /\ Fragment(t).intent # Malformed
    BY <1>0, PrefixTypes DEF AtFragment
  <2>3. Fragment(t).content \in STRING
    BY <2>2 DEF Fragments
  <2>4. /\ c.pos \in Nat \ {0} /\ c.contents \in Seq(STRING) /\ c.statuses \in Seq(Statuses)
        /\ c.order \in Seq(Fragments)
    BY <2>1 DEF Calls
  <2>. QED
    BY <2>2, <2>3, <2>4 DEF Fragment
<1>2. /\ d.order = c.order /\ d.pos = c.pos + 1 /\ d.constraints = ConstraintsSoFar(t)
      /\ d.contents = ContentsSoFar(t) /\ d.namespaces = NamespacesSoFar(t)
      /\ d.statuses = Append(c.statuses, status)
  BY ReportLeaves
<1>3. \A i : Prefix(d, i) = Prefix(c, i)
  BY <1>2, SamePrefix
<1>4. ConstraintsSoFar(t) = Prefix(c, c.pos) /\ c.pos <= Len(c.order)
  BY <1>0, ReachedPrefix
<1>5. /\ Len(c.contents) = c.pos - 1 /\ Len(c.statuses) = c.pos - 1
      /\ \A i \in Passed(c) : c.contents[i] = c.order[i].content /\ c.order[i].intent # Malformed
                              /\ FollowsPolicy(c.statuses[i], Prefix(c, i))
      /\ FollowsSpaces(c) /\ ReportsSpaces(c)
  BY DEF Walked
<1>6. /\ Len(d.contents) = c.pos /\ d.contents[c.pos] = Fragment(t).content
      /\ \A i \in Passed(c) : d.contents[i] = c.contents[i]
  BY <1>1, <1>2, <1>5 DEF ContentsSoFar, Passed
<1>7. status \in Statuses
  <2>1. CASE ConstraintsSoFar(t) = {}
    <3>1. << >> \in Seq(STRING)
      OBVIOUS
    <3>2. Ungoverned \in Statuses
      BY <3>1 DEF Ungoverned, Statuses, Outcomes, Scopes, Retentions
    <3>. QED
      BY <2>1, <3>2 DEF SaysPolicy
  <2>2. CASE ConstraintsSoFar(t) # {}
    BY <1>0, <2>2, StatusTypes DEF SaysPolicy
  <2>. QED
    BY <2>1, <2>2
<1>8. /\ Len(d.statuses) = c.pos /\ d.statuses[c.pos] = status
      /\ \A i \in Passed(c) : d.statuses[i] = c.statuses[i]
  BY <1>1, <1>2, <1>5, <1>7 DEF Passed
<1>9. Passed(d) = Passed(c) \cup {c.pos} /\ c.pos \notin Passed(c) /\ d.pos - 1 = c.pos
  BY <1>1, <1>2 DEF Passed
<1>10. /\ FollowsPolicy(status, Prefix(c, c.pos))
       /\ status.namespaces # <<>> => status.namespaces = d.namespaces
       /\ Prefix(c, c.pos) # {} => status.namespaces = d.namespaces
  BY <1>2, <1>4, ReportFollows
<1>11. \A i \in Passed(d) : d.contents[i] = d.order[i].content /\ d.order[i].intent # Malformed
                            /\ FollowsPolicy(d.statuses[i], Prefix(d, i))
  BY <1>1, <1>2, <1>3, <1>5, <1>6, <1>8, <1>9, <1>10
<1>12. /\ Len(c.namespaces) \in Nat /\ Len(d.namespaces) \in Nat
       /\ Len(c.namespaces) <= Len(d.namespaces) /\ Len(d.namespaces) <= Len(c.namespaces) + 1
       /\ \A m \in 0..Len(c.namespaces) : FirstSpaces(d, m) = FirstSpaces(c, m)
  BY <1>0, <1>2, SpacesExtend
<1>13. SuppliedNamespaces(Prefix(d, c.pos)) = FirstSpaces(d, Len(d.namespaces))
  BY <1>0, <1>2, <1>3, <1>4, SpacesSoFar DEF FirstSpaces
<1>14. FollowsSpaces(d)
  <2>1. ASSUME NEW i \in Passed(d)
        PROVE  \E m \in 0..Len(d.namespaces) : SuppliedNamespaces(Prefix(d, i)) = FirstSpaces(d, m)
    <3>1. CASE i = c.pos
      BY <1>12, <1>13, <3>1
    <3>2. CASE i \in Passed(c)
      <4>1. PICK m \in 0..Len(c.namespaces) : SuppliedNamespaces(Prefix(c, i)) = FirstSpaces(c, m)
        BY <1>5, <3>2 DEF FollowsSpaces
      <4>. QED
        BY <1>3, <1>12, <4>1
    <3>. QED
      BY <1>9, <2>1, <3>1, <3>2
  <2>2. ASSUME NEW m \in 1..Len(d.namespaces)
        PROVE  \E i \in Passed(d) : SuppliedNamespaces(Prefix(d, i)) = FirstSpaces(d, m)
    <3>1. CASE m \in 1..Len(c.namespaces)
      <4>1. PICK i \in Passed(c) : SuppliedNamespaces(Prefix(c, i)) = FirstSpaces(c, m)
        BY <1>5, <3>1 DEF FollowsSpaces
      <4>. QED
        BY <1>3, <1>9, <1>12, <3>1, <4>1
    <3>2. CASE m \notin 1..Len(c.namespaces)
      <4>1. m = Len(d.namespaces)
        BY <1>12, <3>2
      <4>. QED
        BY <1>9, <1>13, <4>1
    <3>. QED
      BY <3>1, <3>2
  <2>. QED
    BY <1>2, <1>3, <1>4, <1>13, <2>1, <2>2 DEF FollowsSpaces
<1>15. ReportsSpaces(d)
  <2>1. c.namespaces # <<>> => d.namespaces # <<>>
    <3>1. c.namespaces \in Seq(STRING)
      BY DEF TypeOK, CallsTypeOK, Calls
    <3>. QED
      BY <1>12, <3>1
  <2>2. ASSUME NEW i \in Passed(c)
        PROVE  d.statuses[i].namespaces # <<>> => d.namespaces # <<>>
    BY <1>5, <1>8, <2>1 DEF ReportsSpaces
  <2>. QED
    BY <1>3, <1>8, <1>9, <1>10, <2>2 DEF ReportsSpaces
<1>16. d.pos <= Len(d.order) + 1 /\ d.constraints = Prefix(d, d.pos - 1)
  BY <1>1, <1>2, <1>3, <1>4, <1>9
<1>17. Len(d.contents) = d.pos - 1 /\ Len(d.statuses) = d.pos - 1
  BY <1>6, <1>8, <1>9
<1>. QED
  BY <1>11, <1>14, <1>15, <1>16, <1>17, Zenon DEF Walked

-----------------------------------------------------------------------------
\* The walk of every call

\* Going on with the same fragment keeps its policy (gateway.py handle).
LEMMA GoingOnStays ==
    ASSUME TypeOK, NEW t \in Threads, AtFragment(t), GoesOn(t)
    PROVE  /\ pc'[t] \notin {"idle", "walk"}
           /\ ConstraintsSoFar(t)' = ConstraintsSoFar(t)
           /\ Effective(t)' = Effective(t)
           /\ Walked(task[t]) => Walked(task'[t])
<1>1. task \in [Threads -> Calls] /\ pc \in [Threads -> Places]
  BY DEF TypeOK, CallsTypeOK
<1>2. PICK place \in Places \ {"idle", "walk"} : \E outcome, tainted : Continue(t, place, outcome, tainted)
  BY DEF GoesOn
<1>3. /\ task'[t].order = task[t].order /\ task'[t].pos = task[t].pos
      /\ task'[t].constraints = task[t].constraints /\ task'[t].contents = task[t].contents
      /\ task'[t].namespaces = task[t].namespaces /\ task'[t].statuses = task[t].statuses
      /\ pc'[t] = place
  BY <1>1, <1>2 DEF Continue, Calls
<1>4. ConstraintsSoFar(t)' = ConstraintsSoFar(t)
  BY <1>3 DEF ConstraintsSoFar, Fragment
<1>5. Walked(task[t]) => Walked(task'[t])
  BY <1>3, StillWalked
<1>. QED
  BY <1>3, <1>4, <1>5 DEF Effective

\* A call that begins has passed no fragment (gateway.py handle).
LEMMA ArriveWalks ==
    ASSUME WalkInv, NEW t \in Threads, Arrive(t)
    PROVE  Walked(task'[t]) /\ KeepsEnforceable(t)'
<1>1. /\ pc \in [Threads -> Places] /\ task \in [Threads -> Calls]
  BY DEF WalkInv, TypeOK, CallsTypeOK
<1>2. PICK r \in Requests : Begin(t, r) \/ RefuseUnsortable(t, r) \/ RefuseRepeatedId(t, r)
  BY DEF Arrive
<1>3. PICK order \in Seq(Fragments) : \E error : task'[t] = Call(r, order, error)
  <2>1. CASE Begin(t, r)
    BY <1>1, <2>1, PlansTyped DEF Begin
  <2>2. CASE RefuseUnsortable(t, r) \/ RefuseRepeatedId(t, r)
    <3>1. << >> \in Seq(Fragments)
      OBVIOUS
    <3>. QED
      BY <1>1, <2>2, <3>1 DEF RefuseUnsortable, RefuseRepeatedId
  <2>. QED
    BY <1>2, <2>1, <2>2
<1>4. Walked(task'[t])
  BY <1>3, FreshlyWalked DEF Call
<1>5. pc'[t] \in {"idle", "walk"}
  BY <1>1, <1>2 DEF Begin, RefuseUnsortable, RefuseRepeatedId, Accept
<1>. QED
  BY <1>4, <1>5 DEF KeepsEnforceable

\* Every step of a call keeps what its walk has accumulated true to the request
\* (gateway.py handle).
LEMMA ProceedWalks ==
    ASSUME WalkInv, NEW t \in Threads, Proceed(t)
    PROVE  Walked(task'[t]) /\ KeepsEnforceable(t)'
<1>1. /\ TypeOK /\ Walked(task[t]) /\ KeepsEnforceable(t)
      /\ pc \in [Threads -> Places] /\ task \in [Threads -> Calls]
  BY DEF WalkInv, TypeOK, CallsTypeOK
<1>2. ASSUME NEW status, Report(t, status), SaysPolicy(t, status)
      PROVE  Walked(task'[t]) /\ KeepsEnforceable(t)'
  <2>1. pc'[t] = "walk"
    BY <1>1, <1>2, ReportLeaves
  <2>. QED
    BY <1>1, <1>2, <2>1, ReportWalks DEF KeepsEnforceable
<1>3. ASSUME NEW error, Raise(t, error) PROVE Walked(task'[t]) /\ KeepsEnforceable(t)'
  <2>1. /\ task'[t].order = task[t].order /\ task'[t].pos = task[t].pos
        /\ task'[t].constraints = task[t].constraints /\ task'[t].contents = task[t].contents
        /\ task'[t].namespaces = task[t].namespaces /\ task'[t].statuses = task[t].statuses
        /\ pc'[t] = "idle"
    BY <1>1, <1>3 DEF Raise, Calls
  <2>. QED
    BY <1>1, <2>1, StillWalked DEF KeepsEnforceable
<1>4. ASSUME GoesOn(t), AtFragment(t), pc[t] = "walk" => Enforceable(Effective(t), Backend)
      PROVE  Walked(task'[t]) /\ KeepsEnforceable(t)'
  <2>1. Enforceable(Effective(t), Backend)
    BY <1>1, <1>4 DEF KeepsEnforceable, AtFragment
  <2>. QED
    BY <1>1, <1>4, <2>1, GoingOnStays DEF KeepsEnforceable
<1>5. ASSUME Return(t) PROVE Walked(task'[t]) /\ KeepsEnforceable(t)'
  BY <1>1, <1>5 DEF Return, KeepsEnforceable
<1>. QED
  BY <1>1, <1>2, <1>3, <1>4, <1>5, StepShapes

\* No call has begun.
LEMMA InitWalks == Init => WalkInv
<1>. SUFFICES ASSUME Init PROVE WalkInv
  OBVIOUS
<1>1. \A t \in Threads : task[t] = NoCall /\ pc[t] = "idle"
  BY DEF Init
<1>2. Walked(NoCall)
  <2>1. << >> \in Seq(Fragments)
    OBVIOUS
  <2>. QED
    BY <2>1, FreshlyWalked DEF NoCall
<1>. QED
  BY <1>1, <1>2, InitTyped DEF WalkInv, KeepsEnforceable

\* And every step keeps each call's walk so (gateway.py handle).
LEMMA NextWalks == WalkInv /\ [Next]_vars => WalkInv'
<1>. SUFFICES ASSUME WalkInv, [Next]_vars PROVE WalkInv'
  OBVIOUS
<1>1. TypeOK'
  BY NextTyped DEF WalkInv
<1>2. ASSUME NEW u \in Threads, task'[u] = task[u], pc'[u] = pc[u]
      PROVE  Walked(task'[u]) /\ KeepsEnforceable(u)'
  BY <1>2 DEF WalkInv, KeepsEnforceable, Effective, ConstraintsSoFar, Fragment
<1>3. ASSUME NEW t \in Threads, Arrive(t) \/ Proceed(t), NEW u \in Threads
      PROVE  Walked(task'[u]) /\ KeepsEnforceable(u)'
  <2>1. CASE u = t
    BY <1>3, <2>1, ArriveWalks, ProceedWalks
  <2>2. CASE u # t
    BY <1>2, <1>3, <2>2, StepsAreLocal DEF OnlyMoves, WalkInv
  <2>. QED
    BY <2>1, <2>2
<1>4. ASSUME UNCHANGED <<pc, task>>, NEW u \in Threads
      PROVE  Walked(task'[u]) /\ KeepsEnforceable(u)'
  BY <1>2, <1>4
<1>5. \A u \in Threads : Walked(task'[u]) /\ KeepsEnforceable(u)'
  BY <1>3, <1>4 DEF Next, Tick, Terminating, vars
<1>. QED
  BY <1>1, <1>5 DEF WalkInv

\* Every call's walk stays true to its request.
LEMMA AlwaysWalked == Spec => []WalkInv
BY InitWalks, NextWalks, PTL DEF Spec

-----------------------------------------------------------------------------
\* The policy of a prefix

\* No contributor is weakened by composition (compose.py compose).
LEMMA ComposeWeakensNone ==
    ASSUME NEW C, C \subseteq Constraints
    PROVE  WeakensNone(Compose(C), C)
<1>. SUFFICES ASSUME NEW c \in C PROVE AtLeastAsStrict(Compose(C), c)
  BY DEF WeakensNone
<1>. DEFINE ages == {d.max_age : d \in C}
            levels == {d.reuse : d \in C}
<1>1. c.mode = "forbid" => Compose(C).mode = "forbid"
  BY DEF Compose, Forbids
<1>2. ShareRank(Compose(C).share_max) <= ShareRank(c.share_max)
  BY ComposeNarrows
<1>3. ReuseRank(Compose(C).reuse) <= ReuseRank(c.reuse)
  <2>1. levels \subseteq ReuseLevels /\ levels # {} /\ c.reuse \in levels
    BY DEF Constraints
  <2>2. ReuseRank(ComposeReuse(levels)) <= ReuseRank(c.reuse)
    BY <2>1, ReuseIsStrictest
  <2>. QED
    BY <2>2 DEF Compose
<1>4. ASSUME Compose(C).mode = "allow", c.max_age # None
      PROVE  Compose(C).max_age # None /\ Compose(C).max_age <= c.max_age
  <2>1. ages \subseteq Nat \cup {None} /\ c.max_age \in ages
    BY DEF Constraints
  <2>2. ComposeMaxAge(ages) # None /\ ComposeMaxAge(ages) <= c.max_age
    BY <1>4, <2>1, MaxAgeIsSmallest
  <2>3. Compose(C).max_age = ComposeMaxAge(ages)
    BY <1>4 DEF Compose
  <2>. QED
    BY <2>2, <2>3
<1>. QED
  BY <1>1, <1>2, <1>3, <1>4 DEF AtLeastAsStrict

\* And whatever else weakens none is at least as strict: composition gives away
\* nothing that the contributors allow (compose.py compose).
LEMMA ComposeIsGreatest ==
    ASSUME NEW C, C \subseteq Constraints, C # {}, NEW p, WeakensNone(p, C)
    PROVE  AtLeastAsStrict(p, Compose(C))
<1>. DEFINE ages == {d.max_age : d \in C}
            levels == {d.reuse : d \in C}
            shares == {d.share_max : d \in C}
<1>1. \A c \in C : AtLeastAsStrict(p, c)
  BY DEF WeakensNone
<1>2. Compose(C).mode = "forbid" => p.mode = "forbid"
  BY <1>1 DEF Compose, Forbids, AtLeastAsStrict
<1>3. ShareRank(p.share_max) <= ShareRank(Compose(C).share_max)
  <2>1. shares \subseteq Scopes /\ shares # {}
    BY DEF Constraints
  <2>2. IntersectShareMax(shares) \in shares
    BY <2>1, ShareMaxIsNarrowest
  <2>3. PICK c \in C : c.share_max = IntersectShareMax(shares)
    BY <2>2
  <2>4. ShareRank(p.share_max) <= ShareRank(c.share_max)
    BY <1>1 DEF AtLeastAsStrict
  <2>. QED
    BY <2>3, <2>4 DEF Compose
<1>4. ReuseRank(p.reuse) <= ReuseRank(Compose(C).reuse)
  <2>1. levels \subseteq ReuseLevels /\ levels # {}
    BY DEF Constraints
  <2>2. ComposeReuse(levels) \in levels
    BY <2>1, ReuseIsStrictest
  <2>3. PICK c \in C : c.reuse = ComposeReuse(levels)
    BY <2>2
  <2>4. ReuseRank(p.reuse) <= ReuseRank(c.reuse)
    BY <1>1 DEF AtLeastAsStrict
  <2>. QED
    BY <2>3, <2>4 DEF Compose
<1>5. ASSUME p.mode = "allow", Compose(C).max_age # None
      PROVE  p.max_age # None /\ p.max_age <= Compose(C).max_age
  <2>1. Compose(C).max_age = ComposeMaxAge(ages)
    BY <1>5 DEF Compose
  <2>2. ages \subseteq Nat \cup {None}
    BY DEF Constraints
  <2>3. ComposeMaxAge(ages) \in ages
    BY <1>5, <2>1, <2>2, MaxAgeIsSmallest
  <2>4. PICK c \in C : c.max_age = ComposeMaxAge(ages)
    BY <2>3
  <2>5. p.max_age # None /\ p.max_age <= c.max_age
    BY <1>1, <1>5, <2>1, <2>4 DEF AtLeastAsStrict
  <2>. QED
    BY <2>1, <2>4, <2>5
<1>. QED
  BY <1>2, <1>3, <1>4, <1>5 DEF AtLeastAsStrict

\* More contributors make the policy stricter in every member (compose.py compose).
LEMMA ComposeTightens ==
    ASSUME NEW C, C # {}, NEW D, D \subseteq Constraints, C \subseteq D
    PROVE  AtLeastAsStrict(Compose(D), Compose(C))
<1>1. WeakensNone(Compose(D), C)
  BY ComposeWeakensNone DEF WeakensNone
<1>. QED
  BY <1>1, ComposeIsGreatest

\* The effective policy of a fragment is the greatest lower bound of what its
\* prefix supplies, whichever requests are sent (gateway.py handle, compose.py
\* compose).
THEOREM EffectiveIsGreatest == Spec => []GreatestLowerBound
<1>1. WalkInv => GreatestLowerBound
  <2>. SUFFICES ASSUME WalkInv, NEW t \in Threads, ReachedPolicy(t)
                PROVE  LET C == ContributorsUpTo(t, task[t].pos)
                       IN  /\ WeakensNone(Effective(t), C)
                           /\ \A p \in PoliciesWithAgesOf(C) :
                                 WeakensNone(p, C) => AtLeastAsStrict(p, Effective(t))
    BY DEF GreatestLowerBound
  <2>. DEFINE C == ContributorsUpTo(t, task[t].pos)
  <2>1. TypeOK /\ Walked(task[t]) /\ AtFragment(t) /\ ConstraintsSoFar(t) # {}
    BY Located DEF WalkInv
  <2>2. C = ConstraintsSoFar(t)
    BY <2>1, ReachedPrefix DEF ContributorsUpTo, Prefix
  <2>3. C \subseteq Constraints /\ C # {} /\ Effective(t) = Compose(C)
    BY <2>1, <2>2, PrefixTypes DEF Effective
  <2>. QED
    BY <2>3, ComposeWeakensNone, ComposeIsGreatest
<1>. QED
  BY <1>1, AlwaysWalked, PTL

\* What a status reports is never relaxed at a later fragment (gateway.py handle,
\* FragmentStatus).
THEOREM PolicyNeverRelaxes == Spec => []NeverRelaxed
<1>1. WalkInv => NeverRelaxed
  <2>. SUFFICES ASSUME WalkInv, NEW t \in Threads,
                       NEW i \in DOMAIN task[t].statuses, NEW j \in DOMAIN task[t].statuses,
                       i < j, task[t].statuses[i].effective_reuse # None
                PROVE  Tighter(task[t].statuses[j], task[t].statuses[i])
    BY DEF NeverRelaxed
  <2>. DEFINE c == task[t]
              C == Prefix(c, i)
              D == Prefix(c, j)
  <2>1. Walked(c) /\ c \in Calls
    BY DEF WalkInv, TypeOK, CallsTypeOK
  <2>2. c.statuses \in Seq(Statuses) /\ c.pos \in Nat \ {0} /\ Len(c.order) \in Nat
    BY <2>1 DEF Calls
  <2>3. i \in Passed(c) /\ j \in Passed(c) /\ i \in Nat /\ j \in Nat /\ j <= Len(c.order)
    BY <2>1, <2>2 DEF Walked, Passed
  <2>4. /\ FollowsPolicy(c.statuses[i], C) /\ FollowsPolicy(c.statuses[j], D)
        /\ \A k \in 1..j : c.order[k].intent # Malformed
    BY <2>1, <2>2, <2>3 DEF Walked, Passed
  <2>5. C # {} /\ C \subseteq D
    BY <2>3, <2>4, PrefixesNest DEF FollowsPolicy
  <2>6. D \subseteq Constraints
    BY <2>1, <2>3, <2>4, PrefixTyped
  <2>7. AtLeastAsStrict(Compose(D), Compose(C)) /\ Compose(D) \in Policies
    BY <2>5, <2>6, ComposeTightens, ComposeIsPolicy
  <2>8. Compose(D).reuse # None
    BY <2>7, NoneIsOther DEF Policies
  <2>. QED
    BY <2>4, <2>5, <2>7, <2>8 DEF FollowsPolicy, Tighter, AtLeastAsStrict
<1>. QED
  BY <1>1, AlwaysWalked, PTL

-----------------------------------------------------------------------------
\* The order of a call, and how it ends

\* The call goes over the order planned for its request; one that was refused
\* goes over nothing.
Planned(c) ==
    LET r == c.request
    IN  r # None =>
          \/ ~SortRaises(r) /\ ~RepeatsId(r) /\ c.order \in PlannedOrders(r)
          \/ c.order = <<>> /\ c.error # None /\ (SortRaises(r) \/ RepeatsId(r))

\* It runs until it raises or has passed the last fragment.
RunsToEnd(t) ==
    IF pc[t] = "idle" THEN Ended(t) /\ task[t].error = None => task[t].pos = Len(task[t].order) + 1
    ELSE task[t].error = None

PlanInv == WalkInv /\ \A t \in Threads : Planned(task[t]) /\ RunsToEnd(t)

\* Requests come in planned or are refused (gateway.py handle, plan_order).
LEMMA ArrivePlans ==
    ASSUME TypeOK, NEW t \in Threads, Arrive(t)
    PROVE  Planned(task'[t]) /\ RunsToEnd(t)'
<1>1. /\ pc \in [Threads -> Places] /\ task \in [Threads -> Calls]
  BY DEF TypeOK, CallsTypeOK
<1>2. PICK r \in Requests : Begin(t, r) \/ RefuseUnsortable(t, r) \/ RefuseRepeatedId(t, r)
  BY DEF Arrive
<1>3. CASE Begin(t, r)
  <2>1. PICK order \in PlannedOrders(r) : task'[t] = Call(r, order, None)
    BY <1>1, <1>3 DEF Begin
  <2>2. ~SortRaises(r) /\ ~RepeatsId(r) /\ pc'[t] = "walk"
    BY <1>1, <1>3 DEF Begin
  <2>. QED
    BY <2>1, <2>2 DEF Planned, RunsToEnd, Call
<1>4. CASE RefuseUnsortable(t, r) \/ RefuseRepeatedId(t, r)
  <2>1. PICK error \in Errors : task'[t] = Call(r, << >>, error)
    BY <1>1, <1>4 DEF RefuseUnsortable, RefuseRepeatedId, Errors
  <2>2. pc'[t] = "idle" /\ (SortRaises(r) \/ RepeatsId(r))
    BY <1>4 DEF RefuseUnsortable, RefuseRepeatedId, Accept
  <2>3. error # None
    BY NoneIsOther
  <2>. QED
    BY <2>1, <2>2, <2>3 DEF Planned, RunsToEnd, Call
<1>. QED
  BY <1>2, <1>3, <1>4

\* A call keeps to its plan until it ends (gateway.py handle).
LEMMA ProceedPlans ==
    ASSUME PlanInv, NEW t \in Threads, Proceed(t)
    PROVE  Planned(task'[t]) /\ RunsToEnd(t)'
<1>1. /\ TypeOK /\ Walked(task[t]) /\ Planned(task[t]) /\ RunsToEnd(t)
      /\ pc \in [Threads -> Places] /\ task \in [Threads -> Calls]
  BY DEF PlanInv, WalkInv, TypeOK, CallsTypeOK
<1>2. task'[t].request = task[t].request /\ task'[t].order = task[t].order
  BY <1>1, RequestStays DEF KeepsRequest
<1>3. ASSUME task'[t].error = task[t].error \/ task'[t].error # None PROVE Planned(task'[t])
  BY <1>1, <1>2, <1>3 DEF Planned
<1>4. ASSUME NEW status, Report(t, status), SaysPolicy(t, status)
      PROVE  Planned(task'[t]) /\ RunsToEnd(t)'
  <2>1. pc'[t] = "walk" /\ task'[t].error = task[t].error
    BY <1>1, <1>4, ReportLeaves
  <2>. QED
    BY <1>1, <1>3, <1>4, <2>1 DEF RunsToEnd, SaysPolicy, AtFragment
<1>5. ASSUME NEW error \in Errors, Raise(t, error) PROVE Planned(task'[t]) /\ RunsToEnd(t)'
  <2>1. task'[t].error # None /\ pc'[t] = "idle"
    BY <1>1, <1>5, NoneIsOther DEF Raise, Calls
  <2>. QED
    BY <1>3, <2>1 DEF RunsToEnd
<1>6. ASSUME GoesOn(t), AtFragment(t) PROVE Planned(task'[t]) /\ RunsToEnd(t)'
  <2>1. task'[t].error = task[t].error /\ pc'[t] # "idle"
    BY <1>1, <1>6 DEF GoesOn, Continue, Calls
  <2>. QED
    BY <1>1, <1>3, <1>6, <2>1 DEF RunsToEnd, AtFragment
<1>7. ASSUME Return(t) PROVE Planned(task'[t]) /\ RunsToEnd(t)'
  <2>1. task'[t] = task[t] /\ pc'[t] = "idle" /\ task[t].pos > Len(task[t].order)
    BY <1>1, <1>7 DEF Return
  <2>2. task[t].pos = Len(task[t].order) + 1
    BY <1>1, <2>1 DEF Walked, Calls
  <2>. QED
    BY <1>1, <2>1, <2>2 DEF RunsToEnd
<1>. QED
  BY <1>1, <1>4, <1>5, <1>6, <1>7, StepShapes

\* No call has begun.
LEMMA InitPlans == Init => PlanInv
<1>. SUFFICES ASSUME Init PROVE PlanInv
  OBVIOUS
<1>1. \A t \in Threads : task[t] = NoCall /\ pc[t] = "idle"
  BY DEF Init
<1>2. \A t \in Threads : task[t].request = None
  BY <1>1 DEF NoCall
<1>. QED
  BY <1>1, <1>2, InitWalks DEF PlanInv, Planned, RunsToEnd, Ended

\* And a call keeps to its plan whatever the others do (gateway.py handle).
LEMMA NextPlans == PlanInv /\ [Next]_vars => PlanInv'
<1>. SUFFICES ASSUME PlanInv, [Next]_vars PROVE PlanInv'
  OBVIOUS
<1>1. WalkInv' /\ TypeOK
  BY NextWalks DEF PlanInv, WalkInv
<1>2. ASSUME NEW u \in Threads, task'[u] = task[u], pc'[u] = pc[u]
      PROVE  Planned(task'[u]) /\ RunsToEnd(u)'
  BY <1>2 DEF PlanInv, RunsToEnd, Ended
<1>3. ASSUME NEW t \in Threads, Arrive(t) \/ Proceed(t), NEW u \in Threads
      PROVE  Planned(task'[u]) /\ RunsToEnd(u)'
  <2>1. CASE u = t
    BY <1>1, <1>3, <2>1, ArrivePlans, ProceedPlans
  <2>2. CASE u # t
    BY <1>1, <1>2, <1>3, <2>2, StepsAreLocal DEF OnlyMoves
  <2>. QED
    BY <2>1, <2>2
<1>4. ASSUME UNCHANGED <<pc, task>>, NEW u \in Threads
      PROVE  Planned(task'[u]) /\ RunsToEnd(u)'
  BY <1>2, <1>4
<1>5. \A u \in Threads : Planned(task'[u]) /\ RunsToEnd(u)'
  BY <1>3, <1>4 DEF Next, Tick, Terminating, vars
<1>. QED
  BY <1>1, <1>5 DEF PlanInv

\* A call ends where it has passed all of its fragments or raised (gateway.py
\* handle).
LEMMA AlwaysPlanned == Spec => []PlanInv
BY InitPlans, NextPlans, PTL DEF Spec

\* A fragment that parses has a rank (gateway.py plan_order).
LEMMA HoistRanks ==
    ASSUME NEW f \in Fragments, f.intent # Malformed
    PROVE  HoistRank(f) \in 0..5
<1>1. CASE f.intent = None
  BY <1>1 DEF HoistRank
<1>2. CASE f.intent # None
  <2>1. f.intent.share_max \in Scopes
    BY <1>2 DEF Fragments, Constraints
  <2>2. ShareRank(f.intent.share_max) \in 0..4
    BY <2>1 DEF ShareRank, Scopes
  <2>. QED
    BY <1>2, <2>2 DEF HoistRank
<1>. QED
  BY <1>1, <1>2

\* Planning takes the request's own fragments and brings them into the order of
\* their ranks (gateway.py plan_order).
LEMMA PlansSorted ==
    ASSUME NEW r \in Requests, ~SortRaises(r), NEW order \in PlannedOrders(r)
    PROVE  /\ DOMAIN order = DOMAIN r.fragments
           /\ \A i \in DOMAIN order : \E k \in DOMAIN r.fragments : order[i] = r.fragments[k]
           /\ ~r.equivalence_declared => order = r.fragments
           /\ r.equivalence_declared =>
                 \A i, j \in DOMAIN order : i < j => HoistRank(order[i]) <= HoistRank(order[j])
<1>. DEFINE fs == r.fragments
<1>1. CASE ~r.equivalence_declared
  BY <1>1 DEF PlannedOrders
<1>2. CASE r.equivalence_declared
  <2>1. PICK p \in [DOMAIN fs -> DOMAIN fs] :
               StablySorts(p, fs) /\ order = [k \in DOMAIN fs |-> fs[p[k]]]
    BY <1>2 DEF PlannedOrders
  <2>2. fs \in Seq(Fragments)
    BY RequestsAssumption
  <2>3. ASSUME NEW k \in DOMAIN fs
        PROVE  HoistRank(fs[p[k]]) = HoistRank(order[k]) /\ HoistRank(order[k]) \in 0..5
    <3>1. p[k] \in DOMAIN fs /\ order[k] = fs[p[k]]
      BY <2>1
    <3>2. fs[p[k]] \in Fragments /\ fs[p[k]].intent # Malformed
      BY <1>2, <2>2, <3>1 DEF SortRaises
    <3>. QED
      BY <3>1, <3>2, HoistRanks
  <2>4. ASSUME NEW i \in DOMAIN fs, NEW j \in DOMAIN fs, i < j
        PROVE  HoistRank(order[i]) <= HoistRank(order[j])
    <3>1. HoistRank(fs[p[i]]) < HoistRank(fs[p[j]]) \/ HoistRank(fs[p[i]]) = HoistRank(fs[p[j]])
      BY <2>1, <2>4 DEF StablySorts
    <3>. QED
      BY <2>3, <3>1
  <2>. QED
    BY <1>2, <2>1, <2>4
<1>. QED
  BY <1>1, <1>2

\* In an order sorted so, the narrowest boundary of a prefix is that of its last
\* fragment (gateway.py plan_order, compose.py intersect_share_max).
LEMMA LastIsNarrowest ==
    ASSUME NEW c \in Calls, NEW i \in 1..Len(c.order),
           \A j \in 1..i : c.order[j].intent # Malformed,
           \A j \in 1..i : HoistRank(c.order[j]) <= HoistRank(c.order[i]),
           c.order[i].intent # None
    PROVE  /\ Prefix(c, i) # {}
           /\ Compose(Prefix(c, i)).share_max = c.order[i].intent.share_max
<1>. DEFINE C == Prefix(c, i)
            S == {d.share_max : d \in C}
            own == c.order[i].intent
<1>1. c.order \in Seq(Fragments) /\ Len(c.order) \in Nat
  BY DEF Calls
<1>2. C \subseteq Constraints
  BY <1>1, PrefixTyped
<1>3. own \in C
  BY DEF Prefix
<1>4. ASSUME NEW d \in C PROVE ShareRank(own.share_max) <= ShareRank(d.share_max)
  <2>1. PICK j \in 1..i : d = c.order[j].intent /\ d # None
    BY DEF Prefix
  <2>2. HoistRank(c.order[j]) = 4 - ShareRank(d.share_max)
        /\ HoistRank(c.order[i]) = 4 - ShareRank(own.share_max)
    BY <2>1 DEF HoistRank
  <2>3. d.share_max \in Scopes /\ own.share_max \in Scopes
    BY <1>2, <1>3 DEF Constraints
  <2>4. ShareRank(d.share_max) \in 0..4 /\ ShareRank(own.share_max) \in 0..4
    BY <2>3 DEF ShareRank, Scopes
  <2>. QED
    BY <2>2, <2>4
<1>5. S \subseteq Scopes /\ S # {} /\ own.share_max \in S
  BY <1>2, <1>3 DEF Constraints
<1>6. /\ IntersectShareMax(S) \in S
      /\ ShareRank(IntersectShareMax(S)) <= ShareRank(own.share_max)
  BY <1>5, ShareMaxIsNarrowest
<1>7. ShareRank(own.share_max) <= ShareRank(IntersectShareMax(S))
  BY <1>4, <1>6
<1>8. IntersectShareMax(S) = own.share_max
  BY <1>5, <1>6, <1>7, RanksDiffer
<1>. QED
  BY <1>3, <1>8 DEF Compose

\* Hoisting costs no fragment its own sharing boundary, whatever is hoisted
\* (gateway.py plan_order).
THEOREM HoistingCostsNothing == Spec => []HoistingKeepsOwnShare
<1>1. PlanInv => HoistingKeepsOwnShare
  <2>. SUFFICES ASSUME PlanInv, NEW t \in Threads, Ended(t), task[t].error = None,
                       task[t].request.equivalence_declared,
                       NEW i \in DOMAIN task[t].order, task[t].order[i].intent # None
                PROVE  task[t].statuses[i].effective_share = task[t].order[i].intent.share_max
    BY DEF HoistingKeepsOwnShare
  <2>. DEFINE c == task[t]
              r == task[t].request
  <2>1. /\ Walked(c) /\ c \in Calls /\ Planned(c) /\ r \in Requests
        /\ c.pos = Len(c.order) + 1
    BY DEF PlanInv, WalkInv, TypeOK, CallsTypeOK, RunsToEnd, Ended, Calls
  <2>2. c.order \in Seq(Fragments) /\ Len(c.order) \in Nat /\ DOMAIN c.order = 1..Len(c.order)
    BY <2>1 DEF Calls
  <2>3. i \in Passed(c) /\ \A j \in 1..i : j \in Passed(c)
    BY <2>1, <2>2 DEF Passed
  <2>4. FollowsPolicy(c.statuses[i], Prefix(c, i)) /\ \A j \in 1..i : c.order[j].intent # Malformed
    BY <2>1, <2>3 DEF Walked
  <2>5. c.order \in PlannedOrders(r) /\ ~SortRaises(r)
    BY <2>1 DEF Planned, Ended
  <2>6. \A j \in 1..i : HoistRank(c.order[j]) <= HoistRank(c.order[i])
    <3>1. \A j \in 1..i : j < i \/ j = i
      BY <2>2
    <3>2. HoistRank(c.order[i]) \in 0..5
      <4>1. c.order[i] \in Fragments /\ i \in 1..i
        BY <2>2
      <4>. QED
        BY <2>4, <4>1, HoistRanks
    <3>. QED
      BY <2>1, <2>2, <2>5, <3>1, <3>2, PlansSorted
  <2>7. /\ Prefix(c, i) # {}
        /\ Compose(Prefix(c, i)).share_max = c.order[i].intent.share_max
    BY <2>1, <2>2, <2>4, <2>6, LastIsNarrowest
  <2>. QED
    BY <2>4, <2>7 DEF FollowsPolicy
<1>. QED
  BY <1>1, AlwaysPlanned, PTL
-----------------------------------------------------------------------------
\* The sort by which fragments are hoisted has one result

\* The order a stable sort by R brings 1..n into, and the place it gives to k.
Comes(R, j, k) == R[j] < R[k] \/ (R[j] = R[k] /\ j < k)
Before(R, n, k) == {j \in 1..n : Comes(R, j, k)}
PlaceOf(R, n, k) == Cardinality(Before(R, n, k)) + 1

\* p takes 1..n in that order.
Takes(p, R, n) == /\ p \in [1..n -> 1..n]
                  /\ \A i, j \in 1..n : i < j => Comes(R, p[i], p[j])

Ranks(n) == [1..n -> 0..5]

\* It is a strict order, and a total one (gateway.py plan_order, sorted).
LEMMA ComesInOrder ==
    ASSUME NEW n \in Nat, NEW R \in Ranks(n)
    PROVE  /\ \A k \in 1..n : ~Comes(R, k, k)
           /\ \A j, k \in 1..n : j # k => Comes(R, j, k) \/ Comes(R, k, j)
           /\ \A i, j, k \in 1..n : Comes(R, i, j) /\ Comes(R, j, k) => Comes(R, i, k)
<1>1. \A k \in 1..n : R[k] \in 0..5
  BY DEF Ranks
<1>. QED
  BY <1>1 DEF Comes

\* Each place is between the first and the last, and what comes earlier has an
\* earlier one (gateway.py plan_order, sorted).
LEMMA PlacesInOrder ==
    ASSUME NEW n \in Nat, NEW R \in Ranks(n)
    PROVE  /\ \A k \in 1..n : PlaceOf(R, n, k) \in 1..n
           /\ \A j, k \in 1..n : Comes(R, j, k) => PlaceOf(R, n, j) < PlaceOf(R, n, k)
<1>1. IsFiniteSet(1..n) /\ Cardinality(1..n) = n
  BY FS_Interval
<1>2. ASSUME NEW k \in 1..n
      PROVE  IsFiniteSet(Before(R, n, k)) /\ Cardinality(Before(R, n, k)) \in Nat
  <2>1. Before(R, n, k) \in SUBSET (1..n)
    BY DEF Before
  <2>. QED
    BY <1>1, <2>1, FS_Subset, FS_CardinalityType
<1>3. ASSUME NEW k \in 1..n PROVE PlaceOf(R, n, k) \in 1..n
  <2>1. Before(R, n, k) \in SUBSET ((1..n) \ {k})
    BY ComesInOrder DEF Before
  <2>2. IsFiniteSet((1..n) \ {k}) /\ Cardinality((1..n) \ {k}) = n - 1
    BY <1>1, FS_RemoveElement
  <2>3. Cardinality(Before(R, n, k)) <= n - 1
    BY <2>1, <2>2, FS_Subset
  <2>. QED
    BY <1>2, <2>3 DEF PlaceOf
<1>4. ASSUME NEW j \in 1..n, NEW k \in 1..n, Comes(R, j, k)
      PROVE  PlaceOf(R, n, j) < PlaceOf(R, n, k)
  <2>1. Before(R, n, j) \in SUBSET Before(R, n, k)
    BY <1>4, ComesInOrder DEF Before
  <2>2. j \in Before(R, n, k) /\ j \notin Before(R, n, j)
    BY <1>4, ComesInOrder DEF Before
  <2>3. /\ Cardinality(Before(R, n, j)) <= Cardinality(Before(R, n, k))
        /\ Cardinality(Before(R, n, k)) # Cardinality(Before(R, n, j))
    BY <1>2, <2>1, <2>2, FS_Subset
  <2>4. Cardinality(Before(R, n, j)) \in Nat /\ Cardinality(Before(R, n, k)) \in Nat
    BY <1>2
  <2>. QED
    BY <2>3, <2>4 DEF PlaceOf
<1>. QED
  BY <1>3, <1>4

\* No two share a place, so each place is somebody's (gateway.py plan_order, sorted).
LEMMA PlacesAreTaken ==
    ASSUME NEW n \in Nat, NEW R \in Ranks(n)
    PROVE  /\ [k \in 1..n |-> PlaceOf(R, n, k)] \in Bijection(1..n, 1..n)
           /\ \A j, k \in 1..n : PlaceOf(R, n, j) = PlaceOf(R, n, k) => j = k
           /\ \A i \in 1..n : \E k \in 1..n : PlaceOf(R, n, k) = i
<1>. DEFINE place == [k \in 1..n |-> PlaceOf(R, n, k)]
<1>1. place \in [1..n -> 1..n]
  BY PlacesInOrder
<1>2. ASSUME NEW j \in 1..n, NEW k \in 1..n, PlaceOf(R, n, j) = PlaceOf(R, n, k)
      PROVE  j = k
  <2>1. PlaceOf(R, n, j) \in 1..n /\ PlaceOf(R, n, k) \in 1..n
    BY PlacesInOrder
  <2>2. ~Comes(R, j, k) /\ ~Comes(R, k, j)
    BY <1>2, <2>1, PlacesInOrder
  <2>. QED
    BY <2>2, ComesInOrder
<1>3. place \in Injection(1..n, 1..n)
  BY <1>1, <1>2, Fun_IsInj
<1>4. IsFiniteSet(1..n)
  BY FS_Interval
<1>5. place \in Surjection(1..n, 1..n)
  BY <1>3, <1>4, FS_Injection
<1>6. \A i \in 1..n : \E k \in 1..n : place[k] = i
  BY <1>5 DEF Surjection
<1>7. place \in Bijection(1..n, 1..n)
  BY <1>3, <1>5, Fun_IsBij
<1>. QED
  BY <1>2, <1>6, <1>7

\* A bijection takes each value once.
LEMMA EachOnce ==
    ASSUME NEW S, NEW T, NEW f \in Bijection(S, T)
    PROVE  /\ f \in [S -> T]
           /\ \A a, b \in S : f[a] = f[b] => a = b
           /\ \A t \in T : \E s \in S : f[s] = t
<1>1. f \in Injection(S, T) /\ f \in Surjection(S, T)
  BY DEF Bijection
<1>2. f \in [S -> T] /\ \A a, b \in S : f[a] = f[b] => a = b
  BY <1>1 DEF Injection, IsInjective
<1>3. \A t \in T : \E s \in S : f[s] = t
  BY <1>1 DEF Surjection
<1>. QED
  BY <1>2, <1>3

\* What is taken in that order is taken at its place (gateway.py plan_order, sorted).
LEMMA TakenAtItsPlace ==
    ASSUME NEW n \in Nat, NEW R \in Ranks(n), NEW p, Takes(p, R, n), NEW i \in 1..n
    PROVE  PlaceOf(R, n, p[i]) = i
<1>1. p \in [1..n -> 1..n] /\ \A l, m \in 1..n : l < m => Comes(R, p[l], p[m])
  BY DEF Takes
<1>2. \A l, m \in 1..n : p[l] = p[m] => l = m
  <2>. SUFFICES ASSUME NEW l \in 1..n, NEW m \in 1..n, p[l] = p[m], l # m PROVE FALSE
    OBVIOUS
  <2>1. l < m \/ m < l
    OBVIOUS
  <2>. QED
    BY <1>1, <2>1, ComesInOrder
<1>3. p \in Injection(1..n, 1..n)
  BY <1>1, <1>2, Fun_IsInj
<1>4. \A k \in 1..n : \E m \in 1..n : p[m] = k
  <2>1. IsFiniteSet(1..n)
    BY FS_Interval
  <2>2. p \in Surjection(1..n, 1..n)
    BY <1>3, <2>1, FS_Injection
  <2>. QED
    BY <2>2 DEF Surjection
<1>5. ASSUME NEW m \in 1..n PROVE p[m] \in Before(R, n, p[i]) <=> m < i
  <2>1. CASE m < i
    BY <1>1, <2>1 DEF Before
  <2>2. CASE m = i
    BY <1>1, <2>2, ComesInOrder DEF Before
  <2>3. CASE i < m
    <3>1. Comes(R, p[i], p[m]) /\ p[i] \in 1..n /\ p[m] \in 1..n
      BY <1>1, <2>3
    <3>2. ~Comes(R, p[m], p[i])
      BY <3>1, ComesInOrder
    <3>. QED
      BY <2>3, <3>2 DEF Before
  <2>. QED
    BY <2>1, <2>2, <2>3
<1>. DEFINE first == 1..(i - 1)
            g == [m \in first |-> p[m]]
<1>6. first \subseteq 1..n /\ \A m \in 1..n : m < i <=> m \in first
  OBVIOUS
<1>7. g \in [first -> Before(R, n, p[i])]
  BY <1>5, <1>6
<1>8. \A l, m \in first : g[l] = g[m] => l = m
  BY <1>2, <1>6
<1>9. \A k \in Before(R, n, p[i]) : \E m \in first : g[m] = k
  <2>. SUFFICES ASSUME NEW k \in Before(R, n, p[i]) PROVE \E m \in first : g[m] = k
    OBVIOUS
  <2>1. PICK m \in 1..n : p[m] = k
    BY <1>4 DEF Before
  <2>2. m \in first
    BY <1>5, <1>6, <2>1
  <2>. QED
    BY <2>1, <2>2
<1>10. g \in Bijection(first, Before(R, n, p[i]))
  BY <1>7, <1>8, <1>9, Fun_IsBij
<1>11. IsFiniteSet(first) /\ Cardinality(first) = i - 1
  BY FS_Interval
<1>12. Cardinality(Before(R, n, p[i])) = i - 1
  BY <1>10, <1>11, FS_Bijection DEF ExistsBijection
<1>. QED
  BY <1>12 DEF PlaceOf

\* A request whose intents parse is planned in one way only, which gives each of its
\* fragments a place of its own (gateway.py plan_order).
LEMMA PlanPlaces ==
    ASSUME NEW r \in Requests, ~SortRaises(r), r.equivalence_declared
    PROVE  \E place \in Bijection(DOMAIN r.fragments, DOMAIN r.fragments) :
              /\ PlannedOrders(r) # {}
              /\ \A order \in PlannedOrders(r) :
                    /\ DOMAIN order = DOMAIN r.fragments
                    /\ \A k \in DOMAIN r.fragments : order[place[k]] = r.fragments[k]
<1>. DEFINE fs == r.fragments
            n == Len(fs)
            R == [k \in 1..n |-> HoistRank(fs[k])]
            place == [k \in 1..n |-> PlaceOf(R, n, k)]
<1>1. fs \in Seq(Fragments) /\ n \in Nat /\ DOMAIN fs = 1..n
  BY RequestsAssumption
<1>2. R \in Ranks(n)
  <2>1. ASSUME NEW k \in 1..n PROVE HoistRank(fs[k]) \in 0..5
    <3>1. fs[k] \in Fragments /\ fs[k].intent # Malformed
      BY <1>1 DEF SortRaises
    <3>. QED
      BY <3>1, HoistRanks
  <2>. QED
    BY <2>1 DEF Ranks
<1>3. place \in Bijection(1..n, 1..n)
  BY <1>1, <1>2, PlacesAreTaken
<1>4. ASSUME NEW p \in [1..n -> 1..n] PROVE StablySorts(p, fs) <=> Takes(p, R, n)
  <2>1. \A i \in 1..n : p[i] \in 1..n /\ R[p[i]] = HoistRank(fs[p[i]])
    BY <1>4
  <2>. QED
    BY <1>1, <2>1 DEF StablySorts, Takes, Comes
<1>5. ASSUME NEW order \in PlannedOrders(r)
      PROVE  DOMAIN order = 1..n /\ \A k \in 1..n : order[place[k]] = fs[k]
  <2>1. PICK p \in [1..n -> 1..n] : StablySorts(p, fs) /\ order = [k \in 1..n |-> fs[p[k]]]
    BY <1>1 DEF PlannedOrders
  <2>2. \A i \in 1..n : PlaceOf(R, n, p[i]) = i
    BY <1>1, <1>2, <1>4, <2>1, TakenAtItsPlace
  <2>3. ASSUME NEW k \in 1..n PROVE PlaceOf(R, n, k) \in 1..n /\ p[PlaceOf(R, n, k)] = k
    <3>1. PlaceOf(R, n, k) \in 1..n
      BY <1>1, <1>2, PlacesInOrder
    <3>2. p[PlaceOf(R, n, k)] \in 1..n
      BY <2>1, <3>1
    <3>3. PlaceOf(R, n, p[PlaceOf(R, n, k)]) = PlaceOf(R, n, k)
      BY <2>2, <3>1
    <3>4. p[PlaceOf(R, n, k)] = k
      BY <1>1, <1>2, <3>2, <3>3, PlacesAreTaken
    <3>. QED
      BY <3>1, <3>4
  <2>4. ASSUME NEW k \in 1..n PROVE order[place[k]] = fs[k]
    BY <2>1, <2>3
  <2>. QED
    BY <2>1, <2>4
<1>6. PlannedOrders(r) # {}
  <2>1. PICK p \in [1..n -> 1..n] : \A i \in 1..n : PlaceOf(R, n, p[i]) = i
    <3>. DEFINE q == [i \in 1..n |-> CHOOSE k \in 1..n : PlaceOf(R, n, k) = i]
    <3>1. ASSUME NEW i \in 1..n PROVE q[i] \in 1..n /\ PlaceOf(R, n, q[i]) = i
      <4>1. \E k \in 1..n : PlaceOf(R, n, k) = i
        BY <1>1, <1>2, PlacesAreTaken
      <4>. QED
        BY <4>1
    <3>2. q \in [1..n -> 1..n]
      BY <3>1
    <3>. QED
      BY <3>1, <3>2
  <2>2. ASSUME NEW i \in 1..n, NEW j \in 1..n, i < j PROVE Comes(R, p[i], p[j])
    <3>1. p[i] \in 1..n /\ p[j] \in 1..n
      BY <2>1
    <3>2. PlaceOf(R, n, p[i]) = i /\ PlaceOf(R, n, p[j]) = j
      BY <2>1
    <3>3. ~(PlaceOf(R, n, p[j]) < PlaceOf(R, n, p[i])) /\ p[i] # p[j]
      BY <1>1, <2>2, <3>2
    <3>4. ~Comes(R, p[j], p[i])
      BY <1>1, <1>2, <3>1, <3>3, PlacesInOrder
    <3>. QED
      BY <1>1, <1>2, <3>1, <3>3, <3>4, ComesInOrder
  <2>3. StablySorts(p, fs)
    BY <1>4, <2>1, <2>2 DEF Takes
  <2>4. [i \in 1..n |-> fs[p[i]]] \in PlannedOrders(r)
    BY <1>1, <2>1, <2>3 DEF PlannedOrders
  <2>. QED
    BY <2>4
<1>7. \A order \in PlannedOrders(r) :
         DOMAIN order = 1..n /\ \A k \in 1..n : order[place[k]] = fs[k]
  BY <1>5
<1>. HIDE DEF place
<1>. QED
  BY <1>1, <1>3, <1>6, <1>7

\* Planning neither loses nor repeats a fragment, hoisting or not, and has exactly one
\* result, whatever fragments tie (gateway.py plan_order).
THEOREM PlanIsOnePermutation ==
    ASSUME NEW r \in Requests, ~SortRaises(r)
    PROVE  \E order \in PlannedOrders(r) :
              /\ PlannedOrders(r) = {order}
              /\ \E place \in Bijection(DOMAIN r.fragments, DOMAIN r.fragments) :
                    \A k \in DOMAIN r.fragments : order[place[k]] = r.fragments[k]
<1>. DEFINE fs == r.fragments
<1>0. fs \in Seq(Fragments)
  BY RequestsAssumption
<1>1. CASE ~r.equivalence_declared
  <2>. DEFINE same == [k \in DOMAIN fs |-> k]
  <2>1. same \in [DOMAIN fs -> DOMAIN fs]
    OBVIOUS
  <2>2. /\ \A a, b \in DOMAIN fs : same[a] = same[b] => a = b
        /\ \A b \in DOMAIN fs : \E a \in DOMAIN fs : same[a] = b
    OBVIOUS
  <2>3. same \in Bijection(DOMAIN fs, DOMAIN fs)
    BY <2>1, <2>2, Fun_IsBij
  <2>4. PlannedOrders(r) = {fs} /\ \A k \in DOMAIN fs : fs[same[k]] = fs[k]
    BY <1>1 DEF PlannedOrders
  <2>. QED
    BY <2>3, <2>4
<1>2. CASE r.equivalence_declared
  <2>1. PICK place \in Bijection(DOMAIN fs, DOMAIN fs) :
           /\ PlannedOrders(r) # {}
           /\ \A order \in PlannedOrders(r) :
                 /\ DOMAIN order = DOMAIN fs
                 /\ \A k \in DOMAIN fs : order[place[k]] = fs[k]
    BY <1>2, PlanPlaces
  <2>2. \A m \in DOMAIN fs : \E k \in DOMAIN fs : place[k] = m
    BY EachOnce
  <2>3. \A order \in PlannedOrders(r) : order = [m \in DOMAIN fs |-> order[m]]
    BY <1>2 DEF PlannedOrders
  <2>4. ASSUME NEW a \in PlannedOrders(r), NEW b \in PlannedOrders(r) PROVE a = b
    <3>1. ASSUME NEW m \in DOMAIN fs PROVE a[m] = b[m]
      BY <2>1, <2>2
    <3>2. a = [m \in DOMAIN fs |-> a[m]] /\ b = [m \in DOMAIN fs |-> b[m]]
      BY <2>3
    <3>. QED
      BY <3>1, <3>2
  <2>5. PICK order \in PlannedOrders(r) : TRUE
    BY <2>1
  <2>6. PlannedOrders(r) = {order}
    BY <2>4, <2>5
  <2>. QED
    BY <2>1, <2>6
<1>. QED
  BY <1>1, <1>2

\* A call that returned has handled each fragment of its request exactly once, and
\* reports on it (gateway.py plan_order and handle).
THEOREM FragmentsHandledOnce == Spec => []EachFragmentOnce
<1>1. PlanInv => EachFragmentOnce
  <2>. SUFFICES ASSUME PlanInv, NEW t \in Threads, Ended(t), task[t].error = None
                PROVE  \E place \in Bijection(DOMAIN task[t].request.fragments,
                                              DOMAIN task[t].statuses) :
                          \A i \in DOMAIN task[t].request.fragments :
                             task[t].order[place[i]] = task[t].request.fragments[i]
    BY DEF EachFragmentOnce
  <2>. DEFINE c == task[t]
              r == task[t].request
  <2>1. /\ Walked(c) /\ c \in Calls /\ Planned(c) /\ r \in Requests
        /\ c.pos = Len(c.order) + 1
    BY DEF PlanInv, WalkInv, TypeOK, CallsTypeOK, RunsToEnd, Ended, Calls
  <2>2. c.order \in PlannedOrders(r) /\ ~SortRaises(r)
    BY <2>1 DEF Planned, Ended
  <2>3. DOMAIN c.order = DOMAIN r.fragments
    BY <2>1, <2>2, PlansSorted
  <2>4. DOMAIN c.statuses = DOMAIN c.order
    <3>1. c.order \in Seq(Fragments) /\ c.statuses \in Seq(Statuses) /\ Len(c.order) \in Nat
      BY <2>1 DEF Calls
    <3>2. Len(c.statuses) = Len(c.order)
      BY <2>1, <3>1 DEF Walked
    <3>. QED
      BY <3>1, <3>2
  <2>5. \E place \in Bijection(DOMAIN r.fragments, DOMAIN r.fragments) :
           \A k \in DOMAIN r.fragments : c.order[place[k]] = r.fragments[k]
    BY <2>1, <2>2, PlanIsOnePermutation
  <2>. QED
    BY <2>3, <2>4, <2>5
<1>. QED
  BY <1>1, AlwaysPlanned, PTL

-----------------------------------------------------------------------------
\* How a call comes to its end

\* The rank of each place a call in progress stands at.
LEMMA PlacesRanked ==
    /\ PlacesLeft["walk"] = 6 /\ PlacesLeft["evict"] = 5 /\ PlacesLeft["donor"] = 4
    /\ PlacesLeft["evict_donor"] = 3 /\ PlacesLeft["store"] = 2 /\ PlacesLeft["donate"] = 1
BY DEF PlacesLeft

\* The arithmetic of counting down: the last return is left; a fragment more costs what
\* any place at it does; and so does a place further on.
LEMMA Counts ==
    ASSUME NEW n \in Nat, NEW i \in Nat, NEW rank \in 1..6
    PROVE  /\ i <= n \/ (i = n + 1 /\ rank = 6) => 6 * (n - i) + rank + 1 \in Nat \ {0}
           /\ 6 * (n - (i + 1)) + 6 + 1 < 6 * (n - i) + rank + 1
           /\ \A less \in 1..6 : less < rank => 6 * (n - i) + less + 1 < 6 * (n - i) + rank + 1
<1>1. CASE i <= n \/ (i = n + 1 /\ rank = 6)
  BY <1>1
<1>2. 6 * (n - (i + 1)) + 6 + 1 < 6 * (n - i) + rank + 1
  OBVIOUS
<1>3. ASSUME NEW less \in 1..6, less < rank
      PROVE  6 * (n - i) + less + 1 < 6 * (n - i) + rank + 1
  BY <1>3
<1>. QED
  BY <1>1, <1>2, <1>3

\* At one fragment, a call never comes back to where it was (gateway.py _resolve and
\* _materialize).
LEMMA GoesDown ==
    ASSUME TypeOK, NEW t \in Threads, Proceed(t), pc'[t] \notin {"idle", "walk"}
    PROVE  /\ pc'[t] \in Places /\ PlacesLeft[pc'[t]] < PlacesLeft[pc[t]]
           /\ task'[t].pos = task[t].pos
<1>1. /\ pc \in [Threads -> Places] /\ task \in [Threads -> Calls]
  BY DEF TypeOK, CallsTypeOK
<1>2. ASSUME NEW place \in {"evict", "donor", "evict_donor", "store", "donate"},
             NEW outcome, NEW tainted, Continue(t, place, outcome, tainted)
      PROVE  pc'[t] = place /\ pc'[t] \in Places /\ task'[t].pos = task[t].pos
  BY <1>1, <1>2 DEF Continue, Calls, Places
<1>3. /\ ~\E status : Report(t, status)
      /\ ~\E error : Raise(t, error)
      /\ ~Return(t)
  BY <1>1 DEF Report, Raise, Return
<1>4. CASE SkipLookup(t) \/ ExactMiss(t) \/ ExactStale(t)
  <2>1. pc[t] = "walk"
    BY <1>4 DEF SkipLookup, ExactMiss, ExactStale, LooksUp, Admitted, ReachedPolicy, Reached
  <2>2. \E place \in {"evict", "donor", "store"} : \E outcome, tainted :
           Continue(t, place, outcome, tainted)
    BY <1>4 DEF SkipLookup, ExactMiss, ExactStale, AfterExactMiss
  <2>. QED
    BY <1>2, <2>1, <2>2, PlacesRanked
<1>5. CASE EvictExact(t)
  <2>1. pc[t] = "evict" /\ \E place \in {"donor", "store"} : \E outcome, tainted :
           Continue(t, place, outcome, tainted)
    BY <1>5 DEF EvictExact, AfterExactMiss
  <2>. QED
    BY <1>2, <2>1, PlacesRanked
<1>6. CASE DonorHit(t) \/ DonorMiss(t) \/ DonorStale(t)
  <2>1. pc[t] = "donor" /\ \E place \in {"evict_donor", "store"} : \E outcome, tainted :
           Continue(t, place, outcome, tainted)
    BY <1>6 DEF DonorHit, DonorMiss, DonorStale
  <2>. QED
    BY <1>2, <2>1, PlacesRanked
<1>7. CASE EvictDonor(t)
  <2>1. pc[t] = "evict_donor" /\ \E outcome, tainted : Continue(t, "store", outcome, tainted)
    BY <1>7 DEF EvictDonor
  <2>. QED
    BY <1>2, <2>1, PlacesRanked
<1>8. CASE Store(t)
  <2>1. pc[t] = "store" /\ \E outcome, tainted : Continue(t, "donate", outcome, tainted)
    BY <1>3, <1>8 DEF Store, ReportComputed
  <2>. QED
    BY <1>2, <2>1, PlacesRanked
<1>9. /\ ~PassUngoverned(t) /\ ~RejectMalformed(t) /\ ~RejectUnenforceable(t)
      /\ ~BypassUnenforceable(t) /\ ~LeaveUnobserved(t) /\ ~ExactHit(t) /\ ~EvictMissing(t)
      /\ ~WithholdForbidden(t) /\ ~Decline(t) /\ ~Donate(t)
  BY <1>3 DEF PassUngoverned, RejectMalformed, RejectUnenforceable, BypassUnenforceable,
              LeaveUnobserved, ExactHit, EvictMissing, WithholdForbidden, Decline, Donate,
              ReportComputed
<1>. QED
  BY <1>3, <1>4, <1>5, <1>6, <1>7, <1>8, <1>9 DEF Proceed

\* A call in progress has a step left, its return at least (gateway.py handle).
LEMMA SomeStepLeft ==
    ASSUME TypeOK, NEW t \in Threads, Walked(task[t]), pc[t] # "idle"
    PROVE  /\ StepsLeft(t) \in Nat \ {0}
           /\ StepsLeft(t) = 6 * (Len(task[t].order) - task[t].pos) + PlacesLeft[pc[t]] + 1
           /\ PlacesLeft[pc[t]] \in 1..6
           /\ Len(task[t].order) \in Nat /\ task[t].pos \in Nat
<1>1. pc[t] \in Places /\ task[t] \in Calls /\ InCall(t)
  BY DEF TypeOK, CallsTypeOK
<1>2. Len(task[t].order) \in Nat /\ task[t].pos \in Nat
  BY <1>1 DEF Calls
<1>3. PlacesLeft[pc[t]] \in 1..6 /\ (pc[t] = "walk" => PlacesLeft[pc[t]] = 6)
  BY <1>1, PlacesRanked DEF Places
<1>4. task[t].pos <= Len(task[t].order) + 1 /\ (pc[t] # "walk" => task[t].pos <= Len(task[t].order))
  BY <1>1 DEF Walked, InCall
<1>5. StepsLeft(t) = 6 * (Len(task[t].order) - task[t].pos) + PlacesLeft[pc[t]] + 1
  BY DEF StepsLeft
<1>6. 6 * (Len(task[t].order) - task[t].pos) + PlacesLeft[pc[t]] + 1 \in Nat \ {0}
  <2>1. \/ task[t].pos <= Len(task[t].order)
        \/ task[t].pos = Len(task[t].order) + 1 /\ PlacesLeft[pc[t]] = 6
    BY <1>2, <1>3, <1>4
  <2>. QED
    BY <1>2, <1>3, <2>1, Counts
<1>. QED
  BY <1>2, <1>3, <1>5, <1>6

\* A step of a call brings it closer to its end (gateway.py handle).
LEMMA ProceedCountsDown ==
    ASSUME WalkInv, NEW t \in Threads, Proceed(t)
    PROVE  pc[t] # "idle" /\ StepsLeft(t)' \in 0..(StepsLeft(t) - 1)
<1>1. /\ TypeOK /\ Walked(task[t])
      /\ pc \in [Threads -> Places] /\ task \in [Threads -> Calls]
  BY DEF WalkInv, TypeOK, CallsTypeOK
<1>2. pc[t] # "idle"
  <2>1. CASE Return(t) \/ \E status : SaysPolicy(t, status)
    BY <2>1 DEF Return, SaysPolicy, AtFragment
  <2>2. CASE AtFragment(t)
    BY <2>2 DEF AtFragment
  <2>3. CASE RejectMalformed(t) \/ RejectUnenforceable(t) \/ EvictMissing(t)
    BY <2>3 DEF RejectMalformed, RejectUnenforceable, EvictMissing, ReachedPolicy, Reached
  <2>. QED
    BY <1>1, <2>1, <2>2, <2>3, Located DEF Proceed, PassUngoverned, BypassUnenforceable,
       LeaveUnobserved, SkipLookup, LooksUp, Admitted, ExactHit, ExactMiss, ExactStale, EvictExact,
       DonorHit, DonorMiss, DonorStale, EvictDonor, WithholdForbidden, Decline, Store, Donate
<1>3. StepsLeft(t) \in Nat \ {0}
  BY <1>1, <1>2, SomeStepLeft
<1>4. TypeOK' /\ Walked(task'[t])
  BY <1>1, ProceedTyped, ProceedWalks
<1>5. task'[t].order = task[t].order
  BY <1>1, RequestStays DEF KeepsRequest
<1>6. CASE pc'[t] = "idle"
  <2>1. StepsLeft(t)' = 0
    BY <1>6 DEF StepsLeft
  <2>. QED
    BY <1>2, <1>3, <2>1
<1>7. ASSUME pc'[t] # "idle"
      PROVE  /\ StepsLeft(t)' \in Nat
             /\ StepsLeft(t)' = 6 * (Len(task[t].order) - task'[t].pos) + PlacesLeft[pc'[t]] + 1
             /\ PlacesLeft[pc'[t]] \in 1..6
  <2>1. pc'[t] \in Places /\ task'[t] \in Calls /\ InCall(t)'
    BY <1>4, <1>7 DEF TypeOK, CallsTypeOK
  <2>2. Len(task'[t].order) \in Nat /\ task'[t].pos \in Nat
    BY <2>1 DEF Calls
  <2>3. PlacesLeft[pc'[t]] \in 1..6 /\ (pc'[t] = "walk" => PlacesLeft[pc'[t]] = 6)
    BY <1>7, <2>1, PlacesRanked DEF Places
  <2>4. /\ task'[t].pos <= Len(task'[t].order) + 1
        /\ pc'[t] # "walk" => task'[t].pos <= Len(task'[t].order)
    BY <1>4, <2>1 DEF Walked, InCall
  <2>5. StepsLeft(t)' = 6 * (Len(task'[t].order) - task'[t].pos) + PlacesLeft[pc'[t]] + 1
    BY <1>7 DEF StepsLeft
  <2>6. 6 * (Len(task'[t].order) - task'[t].pos) + PlacesLeft[pc'[t]] + 1 \in Nat \ {0}
    <3>1. \/ task'[t].pos <= Len(task'[t].order)
          \/ task'[t].pos = Len(task'[t].order) + 1 /\ PlacesLeft[pc'[t]] = 6
      BY <2>2, <2>3, <2>4
    <3>. QED
      BY <2>2, <2>3, <3>1, Counts
  <2>. QED
    BY <1>5, <2>3, <2>5, <2>6
<1>8. CASE pc'[t] = "walk"
  <2>1. PICK status : Report(t, status) /\ SaysPolicy(t, status)
    <3>1. ~\E error \in Errors : Raise(t, error)
      BY <1>1, <1>8 DEF Raise
    <3>2. ~GoesOn(t)
      BY <1>1, <1>8 DEF GoesOn, Continue
    <3>3. ~Return(t)
      BY <1>1, <1>8 DEF Return
    <3>. QED
      BY <1>1, <3>1, <3>2, <3>3, StepShapes
  <2>2. task'[t].pos = task[t].pos + 1
    BY <1>1, <2>1, ReportLeaves
  <2>3. PlacesLeft[pc'[t]] = 6
    BY <1>8, PlacesRanked
  <2>4. /\ StepsLeft(t) = 6 * (Len(task[t].order) - task[t].pos) + PlacesLeft[pc[t]] + 1
        /\ PlacesLeft[pc[t]] \in 1..6 /\ Len(task[t].order) \in Nat /\ task[t].pos \in Nat
    BY <1>1, <1>2, SomeStepLeft
  <2>5. StepsLeft(t)' \in Nat /\ StepsLeft(t)' = 6 * (Len(task[t].order) - (task[t].pos + 1)) + 6 + 1
    BY <1>7, <1>8, <2>2, <2>3
  <2>6. StepsLeft(t)' < StepsLeft(t)
    BY <2>4, <2>5, Counts
  <2>. QED
    BY <1>2, <1>3, <2>5, <2>6
<1>9. CASE pc'[t] \notin {"idle", "walk"}
  <2>1. PlacesLeft[pc'[t]] < PlacesLeft[pc[t]] /\ task'[t].pos = task[t].pos
    BY <1>1, <1>9, GoesDown
  <2>2. /\ StepsLeft(t) = 6 * (Len(task[t].order) - task[t].pos) + PlacesLeft[pc[t]] + 1
        /\ PlacesLeft[pc[t]] \in 1..6 /\ Len(task[t].order) \in Nat /\ task[t].pos \in Nat
    BY <1>1, <1>2, SomeStepLeft
  <2>3. /\ StepsLeft(t)' \in Nat /\ PlacesLeft[pc'[t]] \in 1..6
        /\ StepsLeft(t)' = 6 * (Len(task[t].order) - task[t].pos) + PlacesLeft[pc'[t]] + 1
    BY <1>7, <1>9, <2>1
  <2>4. StepsLeft(t)' < StepsLeft(t)
    BY <2>1, <2>2, <2>3, Counts
  <2>. QED
    BY <1>2, <1>3, <2>3, <2>4
<1>. QED
  BY <1>6, <1>8, <1>9

\* No request reaches a thread in the middle of a call (gateway.py handle).
LEMMA ArrivesWhereIdle ==
    ASSUME NEW t \in Threads, Arrive(t)
    PROVE  pc[t] = "idle"
BY DEF Arrive, Begin, RefuseUnsortable, RefuseRepeatedId, Accept

\* A call is wait-free: each of its steps brings it closer to its end, and no step of
\* another thread takes it back, for every number of threads (gateway.py handle and
\* _resolve, cache.py get).
THEOREM HandleIsWaitFree == Spec => WaitFree
<1>1. ASSUME WalkInv, [Next]_vars
      PROVE  \A t \in Threads : pc[t] # "idle" =>
                \/ pc'[t] = pc[t] /\ task'[t] = task[t]
                \/ StepsLeft(t)' \in 0..(StepsLeft(t) - 1)
  <2>. SUFFICES ASSUME NEW t \in Threads, pc[t] # "idle"
                PROVE  \/ pc'[t] = pc[t] /\ task'[t] = task[t]
                       \/ StepsLeft(t)' \in 0..(StepsLeft(t) - 1)
    OBVIOUS
  <2>1. TypeOK
    BY <1>1 DEF WalkInv
  <2>2. ASSUME NEW u \in Threads, Arrive(u) \/ Proceed(u), u # t
        PROVE  pc'[t] = pc[t] /\ task'[t] = task[t]
    BY <2>1, <2>2, StepsAreLocal DEF OnlyMoves
  <2>3. CASE Proceed(t)
    BY <1>1, <2>3, ProceedCountsDown
  <2>4. ~Arrive(t)
    BY ArrivesWhereIdle
  <2>5. CASE Tick \/ Terminating \/ UNCHANGED vars
    BY <2>5 DEF Tick, Terminating, vars
  <2>. QED
    BY <1>1, <2>2, <2>3, <2>4, <2>5 DEF Next
<1>. QED
  BY <1>1, AlwaysWalked, PTL DEF Spec, WaitFree
=============================================================================
