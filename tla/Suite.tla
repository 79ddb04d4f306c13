------------------------------- MODULE Suite -------------------------------
(***************************************************************************)
(* The conformance programs drive a gateway through handle, one call after *)
(* the other, and look at what each call reports.  A program is the        *)
(* sequence of its calls; this module runs it on the gateway's own         *)
(* actions and keeps what the program gets to see.                         *)
(***************************************************************************)
EXTENDS Gateway

CONSTANT Script   \* the calls a conformance program makes, in order

ASSUME ScriptAssumption ==
    \A i \in DOMAIN Script : /\ Script[i].new \in BOOLEAN   \* on a gateway of its own
                             /\ Script[i].now \in Nat
                             /\ Script[i].request \in Requests

VARIABLES step,      \* the call of Script that is next, or under way
          calling,   \* whether it is under way
          log        \* what the calls so far reported

suiteVars == <<vars, step, calling, log>>

Finished == step > Len(Script)

\* The next call is made at the reading of the clock it brings, and on an empty
\* cache if it is the first of a new gateway.
SetUp == /\ ~Finished /\ ~calling
         /\ \/ clock # Script[step].now
            \/ Script[step].new /\ DOMAIN entries # {}
         /\ clock' = Script[step].now
         /\ IF Script[step].new THEN /\ entries' = [k \in {} |-> None]
                                     /\ lineage' = [k \in {} |-> None]
                                ELSE UNCHANGED <<entries, lineage>>
         /\ UNCHANGED <<served, pc, task, influence, step, calling, log>>

Handle(t) == /\ ~Finished /\ ~calling
             /\ clock = Script[step].now
             /\ Script[step].new => DOMAIN entries = {}
             /\ Begin(t, Script[step].request)
             /\ calling' = TRUE
             /\ UNCHANGED <<step, log>>

Work(t) == calling /\ Proceed(t) /\ UNCHANGED <<step, calling, log>>

\* The program sees the result, or the exception, and how much is cached.
Look(t) == /\ calling
           /\ pc[t] = "idle"
           /\ log' = Append(log, [statuses |-> task[t].statuses, error |-> task[t].error,
                                  order |-> [i \in DOMAIN task[t].order |-> task[t].order[i].id],
                                  kept |-> Cardinality(DOMAIN entries)])
           /\ step' = step + 1
           /\ calling' = FALSE
           /\ UNCHANGED vars

SuiteInit == Init /\ step = 1 /\ calling = FALSE /\ log = <<>>

SuiteNext == \/ SetUp
             \/ \E t \in Threads : Handle(t) \/ Work(t) \/ Look(t)
             \/ Finished /\ UNCHANGED suiteVars

SuiteSpec == SuiteInit /\ [][SuiteNext]_suiteVars

Outcome(i, place) == log[i].statuses[place].outcome

\* json.dumps of an intent with these constraints.
Intent(mode, max_age, reuse, share_max, namespace) ==
    [mode |-> mode, max_age |-> max_age, reuse |-> reuse, share_max |-> share_max,
     namespace |-> namespace]

\* The constraints both programs start from.
Base == Intent("allow", None, "exact", "tenant", None)
=============================================================================
