---------------------------- MODULE Measurements ----------------------------
(***************************************************************************)
(* The two programs that measure a live engine, demo_vllm_isolation.py and *)
(* experiment_policy_comparison.py.  Each makes trials: one request warms  *)
(* the cache, another probes it, and the growth of the engine's hit        *)
(* counter in between is taken for what the probe reused.                  *)
(*                                                                         *)
(* The engine is external, and what it does with salts is what the         *)
(* programs are to find out.  It does not know that a client has given up: *)
(* it may serve the request of a run that died while a later run measures. *)
(* One message stands for its tokens.                                      *)
(***************************************************************************)
EXTENDS CachePolicy

CONSTANTS Settings,   \* which program runs, how often at most, and whether it has
                      \* the engine to itself and nothing is evicted
          MaxHits     \* bound: hits up to which others use the engine

ASSUME SettingsAssumption ==
    Settings \subseteq [program : {"demo", "experiment"}, runs : Nat, quiet : BOOLEAN]
ASSUME MaxHitsAssumption == MaxHits \in Nat

VARIABLES setting,    \* the member of Settings this behaviour is in
          engine,     \* whether it caches, which salts it heeds, whether it tells its hits
          cached,     \* keys of its blocks
          hits,       \* its counter, vllm:prefix_cache_hits_total
          late,       \* requests nobody waits for that it may still serve
          run,        \* the run of the program
          stage,      \* where in a trial it is
          before,     \* the counter as read before the probe
          found,      \* history: what the last probe reused
          disturbed,  \* history: in this run, late requests hit between two readings
          measured,   \* the trials of this run: what was reported and what was so
          verdicts    \* what the finished runs printed

measureVars == <<setting, engine, cached, hits, late, run, stage, before, found, disturbed,
                 measured, verdicts>>

-----------------------------------------------------------------------------
\* Requests (VLLMBackend.chat, prompt, messages)

Message(text, of, nonce, salt) == [content |-> <<text, of, nonce>>, salt |-> salt]
Chat(salt, messages) == [salt |-> salt, messages |-> messages]

prompt(nonce) == <<Message("run", "-", nonce, None), Message("user", "-", 0, None)>>

\* Mutant: the salt of the public part is not set.
messagesUnsalted(tenant, nonce, public_salt) ==
    <<Message("catalogue", "-", nonce, None), Message("policy", tenant, 0, None),
      Message("user", "-", 0, None)>>

messages(tenant, nonce, public_salt) ==
    <<Message("catalogue", "-", nonce, public_salt), Message("policy", tenant, 0, None),
      Message("user", "-", 0, None)>>

\* The salt that a block is found under.
SaltSeen(request, i) ==
    CASE engine.salts = "ignored" -> None
      [] engine.salts = "request" -> request.salt
      [] engine.salts = "message" -> IF request.messages[i].salt # None THEN request.messages[i].salt
                                     ELSE request.salt

KeyAt(request, i) == [contents |-> [j \in 1..i |-> request.messages[j].content],
                      salts    |-> [j \in 1..i |-> SaltSeen(request, j)]]

Reused(request) ==
    Cardinality({i \in DOMAIN request.messages : \A j \in 1..i : KeyAt(request, j) \in cached})

\* chat returns once the engine has done its work.
Serve(request) ==
    /\ hits' = hits + Reused(request)
    /\ cached' = IF engine.caches
                 THEN cached \cup {KeyAt(request, i) : i \in DOMAIN request.messages}
                 ELSE cached

-----------------------------------------------------------------------------
\* The trials of one run of a program

Trial(warm, probe) == [warm |-> warm, probe |-> probe]

\* Mutant: every run sends the same prompts.
SameNonce(i) == i

\* uuid4: never the same twice.
Nonce(i) == 10 * run + i

SaltOf(tenant) ==
    [partition |-> PartitionFor("tenant", [tenant |-> tenant, principal |-> "alice", session |-> "s1"], 1),
     namespaces |-> <<"agent:v1">>]

measure(i, salt_a, salt_b) == Trial(Chat(salt_a, prompt(Nonce(i))), Chat(salt_b, prompt(Nonce(i))))

DemoTrials == <<measure(1, None, None),
                measure(2, SaltOf("acme"), SaltOf("other-corp")),
                measure(3, SaltOf("acme"), SaltOf("acme"))>>

trial(i, salt_a, salt_b, public_salt) ==
    Trial(Chat(salt_a, messages("A", Nonce(i), public_salt)),
          Chat(salt_b, messages("B", Nonce(i), public_salt)))

\* Salts are drawn like nonces; the first trial is the repeat that gives the
\* ceiling (prefix_size).
ExperimentTrials ==
    <<Trial(Chat(Nonce(1), messages("A", Nonce(1), None)), Chat(Nonce(1), messages("A", Nonce(1), None))),
      trial(2, None, None, None),
      trial(3, Nonce(2), Nonce(3), None),
      trial(4, Nonce(4), Nonce(5), Nonce(6))>>

Trials == IF setting.program = "demo" THEN DemoTrials ELSE ExperimentTrials

\* Mutant: the trials that show the engine caches at all are left out.
VerdictUncontrolled == IF setting.program = "demo"
                       THEN measured[2].tokens = 0
                       ELSE measured[4].tokens - measured[3].tokens > 0

\* "isolation holds", or "recovers" tokens a blanket policy cannot.
Verdict == IF setting.program = "demo"
           THEN measured[1].tokens > 0 /\ measured[2].tokens = 0 /\ measured[3].tokens > 0
           ELSE measured[4].tokens - measured[3].tokens > 0

-----------------------------------------------------------------------------
\* One trial: warm, read the counter, probe, read the counter

Measuring == run <= setting.runs /\ Len(measured) < Len(Trials)
ThisTrial == Trials[Len(measured) + 1]

\* The sum over the lines of the metric: 0 if there is none.
prefix_cache_stats == IF engine.counts THEN hits ELSE 0

Warm == /\ Measuring /\ stage = "warm"
        /\ Serve(ThisTrial.warm)
        /\ stage' = "read"
        /\ UNCHANGED <<setting, engine, late, run, before, found, disturbed, measured, verdicts>>

ReadBefore == /\ Measuring /\ stage = "read"
              /\ before' = prefix_cache_stats
              /\ stage' = "probe"
              /\ UNCHANGED <<setting, engine, cached, hits, late, run, found, disturbed, measured,
                             verdicts>>

\* Mutant: the counter is read for the first time after the probe.
ProbeThenRead == /\ Measuring /\ stage = "probe"
                 /\ Serve(ThisTrial.probe)
                 /\ found' = Reused(ThisTrial.probe)
                 /\ before' = IF engine.counts THEN hits' ELSE 0
                 /\ stage' = "report"
                 /\ UNCHANGED <<setting, engine, late, run, disturbed, measured, verdicts>>

Probe == /\ Measuring /\ stage = "probe"
         /\ Serve(ThisTrial.probe)
         /\ found' = Reused(ThisTrial.probe)
         /\ stage' = "report"
         /\ UNCHANGED <<setting, engine, late, run, before, disturbed, measured, verdicts>>

ReadAfter ==
    /\ Measuring /\ stage = "report"
    /\ measured' = Append(measured, [tokens |-> prefix_cache_stats - before, own |-> found])
    /\ stage' = "warm"
    /\ UNCHANGED <<setting, engine, cached, hits, late, run, before, found, disturbed, verdicts>>

\* The program may be run again.
NextRun == /\ run' = run + 1
           /\ measured' = <<>>
           /\ disturbed' = FALSE

\* The run prints its verdict.
Conclude == /\ run <= setting.runs
            /\ Len(measured) = Len(Trials)
            /\ verdicts' = Append(verdicts, [holds |-> Verdict, disturbed |-> disturbed])
            /\ NextRun
            /\ UNCHANGED <<setting, engine, cached, hits, late, stage, before, found>>

Asked == CASE stage = "warm"  -> {ThisTrial.warm}
           [] stage = "probe" -> {ThisTrial.probe}
           [] OTHER           -> {}

\* chat or the reading of the counter times out or fails, and the program dies
\* without a verdict.  The engine has not yet served what it was asked; it will,
\* at any time, or never.
Die == /\ Measuring
       /\ \E abandoned \in SUBSET Asked : late' = late \cup abandoned
       /\ stage' = "warm"
       /\ NextRun
       /\ UNCHANGED <<setting, engine, cached, hits, before, found, verdicts>>

-----------------------------------------------------------------------------
\* What else happens at the engine

\* It serves a request whose client has died.
ServeLate ==
    /\ \E request \in late :
          /\ Serve(request)
          /\ late' = late \ {request}
          /\ disturbed' = (disturbed \/ (stage \in {"probe", "report"} /\ Reused(request) > 0))
    /\ UNCHANGED <<setting, engine, run, stage, before, found, measured, verdicts>>

OtherClient ==
    /\ ~setting.quiet /\ hits < MaxHits
    /\ Serve(Chat(None, <<Message("chat", "-", 0, None)>>))
    /\ UNCHANGED <<setting, engine, late, run, stage, before, found, disturbed, measured, verdicts>>

EvictOne ==
    /\ ~setting.quiet
    /\ \E k \in cached : cached' = cached \ {k}
    /\ UNCHANGED <<setting, engine, hits, late, run, stage, before, found, disturbed, measured,
                   verdicts>>

MeasureInit ==
    /\ setting \in Settings
    /\ engine \in [caches : BOOLEAN, salts : {"ignored", "request", "message"}, counts : BOOLEAN]
    /\ cached = {}
    /\ hits = 0
    /\ late = {}
    /\ run = 1
    /\ stage = "warm"
    /\ before = 0
    /\ found = 0
    /\ disturbed = FALSE
    /\ measured = <<>>
    /\ verdicts = <<>>

MeasureNext == \/ Warm \/ ReadBefore \/ Probe \/ ReadAfter \/ Conclude \/ Die
               \/ ServeLate \/ OtherClient \/ EvictOne
               \/ run > setting.runs /\ UNCHANGED measureVars

MeasureSpec == MeasureInit /\ [][MeasureNext]_measureVars

-----------------------------------------------------------------------------
\* The engine shares within a salt of the kind that the program is about.
HeedsSalts == engine.salts \in IF setting.program = "demo" THEN {"request", "message"} ELSE {"message"}

\* A run during whose measurements no late request hit prints the right verdict, be it
\* the first one or one after runs that died and whose requests the engine served
\* before, in between or not at all: isolation holds exactly on an engine that caches
\* and heeds the salt of a request, and intent recovers tokens exactly on one that heeds
\* a salt per message, if the engine tells its hits and nobody else uses it
\* (demo_vllm_isolation.py main, experiment_policy_comparison.py main).
VerdictsAreRight ==
    setting.quiet /\ engine.counts =>
        \A i \in DOMAIN verdicts :
            ~verdicts[i].disturbed => (verdicts[i].holds <=> engine.caches /\ HeedsSalts)

\* Whatever late requests hit and whether or not the engine tells its hits, "isolation
\* holds" is printed only of an engine that caches and heeds the salt of a request: a
\* disturbed run can only fail to find the isolation there is (demo_vllm_isolation.py
\* main).
HoldsIsProof ==
    setting.quiet /\ setting.program = "demo" =>
        \A i \in DOMAIN verdicts : verdicts[i].holds => engine.caches /\ HeedsSalts

\* Also on an engine that others use and that evicts, a measured zero is proof that
\* the probe reused nothing, if the engine tells its hits (demo_vllm_isolation.py
\* measure).
ZeroIsProof ==
    engine.counts => \A i \in DOMAIN measured : measured[i].tokens = 0 => measured[i].own = 0
=============================================================================
