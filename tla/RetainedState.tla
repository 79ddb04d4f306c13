--------------------------- MODULE RetainedState ---------------------------
(***************************************************************************)
(* What a gateway promises about retained state, without keys, partitions  *)
(* or expiry: state answers to the contributors it was computed from, and  *)
(* to everything the state reused in computing it answered to; it is       *)
(* reused only by requests every one of them admits.  The draft asks this  *)
(* under "Retained State Carries Its Own Policy"; Gateway implements it by *)
(* partitioning its cache.                                                 *)
(***************************************************************************)
EXTENDS CachePolicy

CONSTANTS Callers,  \* those that compute on behalf of requests, one at a time
          Readers   \* the requests: [auth, request, now]

VARIABLES retained, \* identity of state -> the contributors it answers to
          reader,   \* the request each caller computes for
          drawn     \* the contributors each caller's computation answers to

vars == <<retained, reader, drawn>>

Admits(source, r) == source.constraints.mode = "allow" /\ InBoundary(source, r)

Init == /\ retained = [k \in {} |-> None]
        /\ reader = [c \in Callers |-> None]
        /\ drawn = [c \in Callers |-> {}]

Start(c) == /\ \E r \in Readers : reader' = [reader EXCEPT ![c] = r]
            /\ drawn' = [drawn EXCEPT ![c] = {}]
            /\ UNCHANGED retained

\* own holds the contributors of the state that max_age binds from the
\* reading of the clock it was computed at.
Reuse(c, k) == /\ reader[c] # None
               /\ \A s \in retained[k].own \cup retained[k].inherited : Admits(s, reader[c])
               /\ \A s \in retained[k].own : WithinMaxAge(s, reader[c].now)
               /\ drawn' = [drawn EXCEPT ![c] = @ \cup retained[k].own \cup retained[k].inherited]
               /\ UNCHANGED <<retained, reader>>

\* State is kept for the contributors of the caller's request and for those
\* whose state went into it.
Retain(c, k, own) ==
    /\ reader[c] # None
    /\ \A s \in own : s.auth = reader[c].auth /\ s.request = reader[c].request
                      /\ s.at = reader[c].now
    /\ retained' = [j \in DOMAIN retained \cup {k} |->
                      IF j = k THEN [own |-> own, inherited |-> drawn[c]] ELSE retained[j]]
    /\ UNCHANGED <<reader, drawn>>

Drop(k) == /\ retained' = [j \in DOMAIN retained \ {k} |-> retained[j]]
           /\ UNCHANGED <<reader, drawn>>

\* State appears in retained one identity at a time, so the new one, or the
\* one that changed, is in DOMAIN retained'.
Next == \/ \E c \in Callers : Start(c)
        \/ \E c \in Callers, k \in DOMAIN retained : Reuse(c, k)
        \/ \E c \in Callers, k \in DOMAIN retained' : Retain(c, k, retained'[k].own)
        \/ \E k \in DOMAIN retained : Drop(k)

Spec == Init /\ [][Next]_vars

\* What it comes to: through however many computations state has passed, whoever draws
\* on it is admitted by every contributor it goes back to.
DrawsOnAdmitting ==
    \A c \in Callers : \A s \in drawn[c] : reader[c] # None /\ Admits(s, reader[c])
=============================================================================
