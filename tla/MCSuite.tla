------------------------------ MODULE MCSuite ------------------------------
(* Both conformance programs, one after the other; each test of the one and *)
(* each trial of the other begins with a gateway of its own.               *)
EXTENDS Behavioral, Minimality

MCScript == BehavioralScript \o MinimalityScript
MCRequests == {MCScript[i].request : i \in DOMAIN MCScript}
=============================================================================
