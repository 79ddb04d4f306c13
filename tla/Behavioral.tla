----------------------------- MODULE Behavioral -----------------------------
(***************************************************************************)
(* conformance/behavioral.py over a gateway with an in-memory backend:     *)
(* what each test sends, and what it records as passed.  Running it on the *)
(* model compares the model of the gateway with the program's own tests.   *)
(***************************************************************************)
EXTENDS Suite

Acme      == [tenant |-> "acme", principal |-> "alice", session |-> "s1"]
OtherCorp == [tenant |-> "other-corp", principal |-> "mallory", session |-> "s2"]

Piece(id, content, intent) ==
    [id |-> id, content |-> content, intent |-> intent, approx_class |-> None]
Donating(f) == [f EXCEPT !.approx_class = "docs"]

\* A call whose i-th status must show an outcome in outcomes[i].
Sent(new, fragments, auth, now, outcomes) ==
    [trial |-> None, new |-> new, now |-> now, outcomes |-> outcomes, exact |-> BOOLEAN,
     order |-> [i \in DOMAIN fragments |-> fragments[i].id],
     request |-> [auth |-> auth, fragments |-> fragments, equivalence_declared |-> FALSE]]

First(f, outcomes) == Sent(TRUE, <<f>>, Acme, 0, <<outcomes>>)
Then(f, now, outcomes) == Sent(FALSE, <<f>>, Acme, now, <<outcomes>>)

-----------------------------------------------------------------------------
test_5 ==
    LET Versioned(id, content, reuse) ==
            Piece(id, content, [Base EXCEPT !.reuse = reuse, !.namespace = "doc:v1"])
        seed     == Donating(Versioned("a", "DOC-A", "exact"))
        borrower == Donating(Versioned("b", "DOC-B", "approximate"))
    IN  <<First(seed, {"miss"}),
          [Then(borrower, 1, {"approximate_hit"}) EXCEPT !.exact = {FALSE}],
          Then(Versioned("b", "DOC-B", "exact"), 2, {"miss"}),
          Then(seed, 3, {"exact_hit"})>>

\* The scope coordinates the second caller claims in its body are not part of
\* what handle reads.
test_8 ==
    LET frag == Piece("sys", "SYSTEM", [Base EXCEPT !.namespace = "agent:v1"])
    IN  <<First(frag, Outcomes),
          Sent(FALSE, <<frag>>, OtherCorp, 1, <<{"miss"}>>),
          Then(frag, 2, {"exact_hit"})>>

test_10 ==
    LET frags == <<Piece("sys", "SYSTEM", Base),
                   Piece("tools", "TOOLS", [Base EXCEPT !.share_max = "public"])>>
    IN  <<Sent(TRUE, frags, Acme, 0, <<Outcomes, Outcomes>>),
          [Sent(FALSE, frags, Acme, 1, <<Outcomes, Outcomes>>)
              EXCEPT !.request.equivalence_declared = TRUE, !.order = <<"tools", "sys">>]>>

\* The NFC and the NFD spelling of one word are two strings.
test_exact_namespaces ==
    LET Under(n) == Piece("f", "X", [Base EXCEPT !.namespace = n])
    IN  <<First(Under("nfc:v1"), Outcomes), Then(Under("nfd:v1"), 1, {"miss"})>>

test_max_age_is_not_extended ==
    LET frag == Piece("f", "X", [Base EXCEPT !.max_age = 100])
    IN  <<First(frag, Outcomes), Then(frag, 50, {"exact_hit"}), Then(frag, 101, {"miss"})>>

test_retained_state_keeps_its_boundary ==
    LET writer  == Piece("w", "SHARED-PREFIX", Base)
        widener == Piece("x", "SHARED-PREFIX", [Base EXCEPT !.share_max = "public"])
    IN  <<First(writer, Outcomes), Then(widener, 1, Outcomes \ {"exact_hit"}),
          Then(writer, 2, {"exact_hit"})>>

test_one_entry_per_fragment ==
    <<Sent(TRUE, <<Piece("first", "A", Base), Piece(None, "B", Base), Piece("third", "C", Base)>>,
           Acme, 0, <<Outcomes, Outcomes, Outcomes>>)>>

\* The part of lowering_matrix that runs over the capable backend.
lowering_matrix ==
    <<First(Piece("f", "X", [Base EXCEPT !.max_age = 600]), Outcomes \ {"bypass"}),
      First(Piece("f", "X", [Base EXCEPT !.reuse = "approximate"]), Outcomes \ {"bypass"})>>

BehavioralScript ==
    test_5 \o test_8 \o test_10 \o test_exact_namespaces \o test_max_age_is_not_extended
    \o test_retained_state_keeps_its_boundary \o test_one_entry_per_fragment \o lowering_matrix

-----------------------------------------------------------------------------
\* The gateway as modelled passes the conformance suite: each call reports one
\* status per fragment, in the order and with the outcomes the tests record as
\* passed (conformance/behavioral.py; gateway.py handle).
SuitePasses ==
    \A i \in DOMAIN log :
        /\ log[i].error = None
        /\ log[i].order = Script[i].order
        /\ Len(log[i].statuses) = Len(Script[i].outcomes)
        /\ \A j \in DOMAIN log[i].statuses :
              /\ Outcome(i, j) \in Script[i].outcomes[j]
              /\ log[i].statuses[j].exact \in Script[i].exact
=============================================================================
