----------------------------- MODULE Minimality -----------------------------
(***************************************************************************)
(* conformance/minimality.py: whether every constraint of version 1        *)
(* changes what a caller can detect, and is no relabeling of another.      *)
(* The program observes the gateway under one constraint at a time and     *)
(* compares the observations.                                              *)
(***************************************************************************)
EXTENDS Suite, SequencesExt

AUTH == [tenant |-> "acme", principal |-> "alice", session |-> "s1"]

\* The constraints under test, each with the values tried.
Members == {"mode", "max_age", "reuse", "share_max", "namespace"}
VALUES == [mode      |-> <<"allow", "forbid">>,
           max_age   |-> <<None, 60>>,
           reuse     |-> <<"none", "exact", "approximate">>,
           share_max |-> <<"request", "session", "principal", "tenant", "public">>,
           namespace |-> <<None, "a:v1", "a:v2">>]
MemberOrder == <<"mode", "max_age", "reuse", "share_max", "namespace">>

WithValue(member, i) == [Base EXCEPT ![member] = VALUES[member][i]]

\* A call of a trial; whatever it shows is an observation.
Ask(trial, new, content, intent, approx_class, now) ==
    [trial |-> trial, new |-> new, now |-> now, outcomes |-> <<Outcomes>>, exact |-> BOOLEAN,
     order |-> <<"f">>,
     request |-> [auth |-> AUTH, equivalence_declared |-> FALSE,
                  fragments |-> <<[id |-> "f", content |-> content, intent |-> intent,
                                   approx_class |-> approx_class]>>]]

-----------------------------------------------------------------------------
\* The trials.  Each has a gateway of its own.

\* The same request three times: at once, within a finite max_age and after it.
observe(member, i) ==
    LET Again(new, now) ==
            Ask(<<"observe", member, i>>, new, "CONTENT", WithValue(member, i), None, now)
    IN  <<Again(TRUE, 0), Again(FALSE, 30), Again(FALSE, 1000)>>

\* Warm under the first value, read under the i-th.
cross_value_effect(member, i) ==
    LET Once(j, new, now) ==
            Ask(<<"cross", member, i>>, new, "CONTENT", WithValue(member, j), None, now)
    IN  <<Once(1, TRUE, 0), Once(i, FALSE, 1)>>

\* Seed one document, ask for another one of the same similarity class.
donor_trial(second_reuse, approx_class) ==
    LET name == <<"donor", second_reuse, approx_class>>
    IN  <<Ask(name, TRUE, "DOC-A", Base, approx_class, 0),
          Ask(name, FALSE, "DOC-B", [Base EXCEPT !.reuse = second_reuse], approx_class, 1)>>

\* The trials of one member, then of the next.
MemberTrials(member) ==
    FlattenSeq([i \in DOMAIN VALUES[member] |->
                  observe(member, i) \o cross_value_effect(member, i)])

MinimalityScript ==
    FlattenSeq([m \in DOMAIN MemberOrder |-> MemberTrials(MemberOrder[m])])
    \o donor_trial("exact", "docs") \o donor_trial("approximate", "docs")
    \o donor_trial("approximate", None)

-----------------------------------------------------------------------------
\* What the program compares

Of(trial) == {i \in DOMAIN log : Script[i].trial = trial}

\* The first call's status, the outcomes of the others, and how much is kept.
Observation(member, i) ==
    LET calls == Of(<<"observe", member, i>>)
        first == log[Min(calls)].statuses[1]
    IN  [status   |-> <<first.outcome, first.effective_share, first.retention>>,
         outcomes |-> [n \in 1..2 |-> Outcome(Min(calls) + n, 1)],
         kept     |-> log[Max(calls)].kept]

CrossEffect(member, i) == Outcome(Max(Of(<<"cross", member, i>>)), 1)
DonorEffect(second_reuse, approx_class) ==
    Outcome(Max(Of(<<"donor", second_reuse, approx_class>>)), 1)

\* A change of the member's value shows in a request by itself, or between the
\* request that stores and the one that reads.
Discriminates(member) ==
    \E i \in DOMAIN VALUES[member] \ {1} :
        \/ Observation(member, i) # Observation(member, 1)
        \/ CrossEffect(member, i) # CrossEffect(member, 1)

\* No constraint of version 1 can be left out: a caller notices each of them, no
\* reuse is not no retention, nor is a finite max_age, and approximate reuse
\* serves exactly what exact reuse cannot and a donor can
\* (conformance/minimality.py; gateway.py handle).
EveryMemberEarnsItsPlace ==
    Finished =>
        /\ \A member \in Members : Discriminates(member)
        /\ Observation("reuse", 1) # Observation("mode", 2)
        /\ Observation("max_age", 2) # Observation("mode", 2)
        /\ DonorEffect("exact", "docs") # DonorEffect("approximate", "docs")
        /\ DonorEffect("approximate", None) = DonorEffect("exact", "docs")
=============================================================================
