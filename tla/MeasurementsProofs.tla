------------------------- MODULE MeasurementsProofs -------------------------
(***************************************************************************)
(* What the demo and the experiment conclude about a live engine, for any  *)
(* number of runs and of deaths, whenever the engine serves what the dead  *)
(* have left; and a measured zero also on an engine that others use.       *)
(*                                                                         *)
(* The counter only grows, and by no less than the probe reused.  With the *)
(* engine to itself and no late request in between it grows by just that;  *)
(* and since no nonce comes twice, what the probe can find is what its own *)
(* trial has warmed.                                                       *)
(***************************************************************************)
EXTENDS Measurements, FiniteSetTheorems, TLAPS

-----------------------------------------------------------------------------
\* Requests and trials

\* The first message of a request tells the trial it is of.
IsOf(request, nonce) ==
    /\ \E n \in {2, 3} : DOMAIN request.messages = 1..n
    /\ request.messages[1].content[3] = nonce

\* Both programs make three or four trials, each with a nonce of its own
\* (demo_vllm_isolation.py measure, experiment_policy_comparison.py trial).
LEMMA TrialsHaveNonces ==
    /\ Len(Trials) \in 3..4
    /\ \A i \in 1..Len(Trials) : IsOf(Trials[i].warm, Nonce(i)) /\ IsOf(Trials[i].probe, Nonce(i))
<1>1. \A i, salt : IsOf(Chat(salt, prompt(Nonce(i))), Nonce(i))
  BY DEF IsOf, Chat, prompt, Message
<1>2. \A i, salt, public_salt, tenant :
          IsOf(Chat(salt, messages(tenant, Nonce(i), public_salt)), Nonce(i))
  BY DEF IsOf, Chat, messages, Message
<1>3. CASE setting.program = "demo"
  <2>1. Trials = DemoTrials
    BY <1>3 DEF Trials
  <2>2. \A i, a, b : IsOf(measure(i, a, b).warm, Nonce(i)) /\ IsOf(measure(i, a, b).probe, Nonce(i))
    BY <1>1 DEF measure, Trial
  <2>. QED
    BY <2>1, <2>2 DEF DemoTrials
<1>4. CASE setting.program # "demo"
  <2>1. Trials = ExperimentTrials
    BY <1>4 DEF Trials
  <2>2. \A i, a, b, p : IsOf(trial(i, a, b, p).warm, Nonce(i)) /\ IsOf(trial(i, a, b, p).probe, Nonce(i))
    BY <1>2 DEF trial, Trial
  <2>3. \A i : LET r == Chat(Nonce(i), messages("A", Nonce(i), None))
                 IN  IsOf(Trial(r, r).warm, Nonce(i)) /\ IsOf(Trial(r, r).probe, Nonce(i))
    BY <1>2 DEF Trial
  <2>. QED
    BY <2>1, <2>2, <2>3 DEF ExperimentTrials
<1>. QED
  BY <1>3, <1>4

\* The engine counts what it reuses (vllm:prefix_cache_hits_total).
LEMMA ReusedIsNat ==
    ASSUME NEW request, NEW n \in Nat, DOMAIN request.messages = 1..n
    PROVE  Reused(request) \in Nat
<1>. DEFINE R == {i \in DOMAIN request.messages : \A j \in 1..i : KeyAt(request, j) \in cached}
<1>1. IsFiniteSet(1..n)
  BY FS_Interval
<1>2. IsFiniteSet(R)
  BY <1>1, FS_Subset
<1>. QED
  BY <1>2, FS_CardinalityType DEF Reused

-----------------------------------------------------------------------------
\* Types

NonceOfRequest(request) == request.messages[1].content[3]

MeasureTypeOK ==
    /\ setting \in Settings
    /\ engine \in [caches : BOOLEAN, salts : {"ignored", "request", "message"}, counts : BOOLEAN]
    /\ hits \in Nat /\ before \in Nat /\ found \in Nat
    /\ \A request \in late : /\ IsOf(request, NonceOfRequest(request))
                             /\ NonceOfRequest(request) \in Nat
    /\ disturbed \in BOOLEAN
    /\ run \in Nat
    /\ stage \in {"warm", "read", "probe", "report"}
    /\ measured \in Seq([tokens : Int, own : Nat])
    /\ Len(measured) <= Len(Trials)
    /\ stage # "warm" => Measuring
    /\ verdicts \in Seq([holds : BOOLEAN, disturbed : BOOLEAN])

\* The counter never shrinks, and grows by no less than the probe reused.
CounterInv == /\ engine.counts => /\ stage = "probe" => before <= hits
                                  /\ stage = "report" => before + found <= hits
              /\ ZeroIsProof

ZeroInv == MeasureTypeOK /\ CounterInv

\* The request of the present trial is one of its nonce.
LEMMA ThisTrialIsOf ==
    ASSUME MeasureTypeOK, Measuring
    PROVE  /\ IsOf(ThisTrial.warm, Nonce(Len(measured) + 1))
           /\ IsOf(ThisTrial.probe, Nonce(Len(measured) + 1))
           /\ Reused(ThisTrial.warm) \in Nat /\ Reused(ThisTrial.probe) \in Nat
           /\ Nonce(Len(measured) + 1) \in Nat
<1>1. Len(measured) + 1 \in 1..Len(Trials)
  BY TrialsHaveNonces DEF MeasureTypeOK, Measuring
<1>2. /\ IsOf(ThisTrial.warm, Nonce(Len(measured) + 1))
      /\ IsOf(ThisTrial.probe, Nonce(Len(measured) + 1))
  BY <1>1, TrialsHaveNonces DEF ThisTrial
<1>3. \A request, nonce : IsOf(request, nonce) => Reused(request) \in Nat
  BY ReusedIsNat DEF IsOf
<1>4. Nonce(Len(measured) + 1) \in Nat
  BY DEF MeasureTypeOK, Nonce
<1>. QED
  BY <1>2, <1>3, <1>4

\* A program that dies leaves at most the request it waits for, which is of the present
\* trial (vllm_backend.py _post).
LEMMA AbandonedIsOf ==
    ASSUME MeasureTypeOK, Measuring, NEW request \in Asked
    PROVE  /\ IsOf(request, Nonce(Len(measured) + 1))
           /\ NonceOfRequest(request) = Nonce(Len(measured) + 1)
<1>1. request \in {ThisTrial.warm, ThisTrial.probe}
  BY DEF Asked
<1>. QED
  BY <1>1, ThisTrialIsOf DEF IsOf, NonceOfRequest

\* How many trials there are depends on the program only.
LEMMA SameNumber == setting' = setting => Len(Trials)' = Len(Trials)
BY DEF Trials, DemoTrials, ExperimentTrials

\* A run that has measured nothing has measured no zero.
LEMMA NothingMeasured == measured = <<>> => ZeroIsProof
BY DEF ZeroIsProof

\* Between two runs, and before the first, nothing is measured
\* (demo_vllm_isolation.py main).
LEMMA NothingRead ==
    measured = <<>> => /\ measured \in Seq([tokens : Int, own : Nat])
                       /\ Len(measured) = 0
                       /\ Len(measured) <= Len(Trials)
<1>1. Len(Trials) \in 3..4
  BY TrialsHaveNonces
<1>. QED
  BY <1>1

\* No program has read anything yet.
LEMMA ZeroInvInit == MeasureInit => ZeroInv
<1>. SUFFICES ASSUME MeasureInit PROVE ZeroInv
  OBVIOUS
<1>1. measured = <<>> /\ verdicts = <<>> /\ late = {} /\ stage = "warm"
  BY DEF MeasureInit
<1>2. MeasureTypeOK
  <2>1. verdicts \in Seq([holds : BOOLEAN, disturbed : BOOLEAN])
    BY <1>1
  <2>2. disturbed \in BOOLEAN
    BY DEF MeasureInit
  <2>. QED
    BY <1>1, <2>1, <2>2, NothingRead DEF MeasureInit, MeasureTypeOK
<1>3. CounterInv
  BY <1>1, NothingMeasured DEF CounterInv
<1>. QED
  BY <1>2, <1>3 DEF ZeroInv

\* The counter is read before the probe and after it (demo_vllm_isolation.py measure);
\* neither other clients nor evictions lower it in between.
LEMMA ZeroInvStep == ZeroInv /\ [MeasureNext]_measureVars => ZeroInv'
<1>. SUFFICES ASSUME ZeroInv, [MeasureNext]_measureVars PROVE ZeroInv'
  OBVIOUS
<1>. USE DEF ZeroInv
<1>a. Len(Trials) \in 3..4 /\ (setting' = setting => Len(Trials)' = Len(Trials))
  BY TrialsHaveNonces, SameNumber
<1>1. CASE Warm
  <2>1. hits' \in Nat
    BY <1>1, ThisTrialIsOf DEF Warm, Serve, MeasureTypeOK
  <2>. QED
    BY <1>1, <1>a, <2>1 DEF Warm, Measuring, MeasureTypeOK, CounterInv, ZeroIsProof
<1>2. CASE ReadBefore
  <2>1. before' \in Nat /\ (engine.counts => before' = hits)
    BY <1>2 DEF ReadBefore, prefix_cache_stats, MeasureTypeOK
  <2>. QED
    BY <1>2, <1>a, <2>1 DEF ReadBefore, Measuring, MeasureTypeOK, CounterInv, ZeroIsProof
<1>3. CASE Probe
  <2>1. hits' = hits + found' /\ found' \in Nat
    BY <1>3, ThisTrialIsOf DEF Probe, Serve
  <2>. QED
    BY <1>3, <1>a, <2>1 DEF Probe, Measuring, MeasureTypeOK, CounterInv, ZeroIsProof
<1>4. CASE ReadAfter
  <2>. DEFINE m == [tokens |-> prefix_cache_stats - before, own |-> found]
  <2>1. m \in [tokens : Int, own : Nat] /\ (engine.counts /\ m.tokens = 0 => m.own = 0)
    BY <1>4 DEF ReadAfter, prefix_cache_stats, MeasureTypeOK, CounterInv
  <2>2. measured' = Append(measured, m)
    BY <1>4 DEF ReadAfter
  <2>3. /\ measured' \in Seq([tokens : Int, own : Nat])
        /\ Len(measured') = Len(measured) + 1
        /\ \A i \in DOMAIN measured' : measured'[i] = IF i <= Len(measured) THEN measured[i] ELSE m
    BY <2>1, <2>2 DEF MeasureTypeOK
  <2>4. ASSUME engine.counts, NEW i \in DOMAIN measured', measured'[i].tokens = 0
        PROVE  measured'[i].own = 0
    <3>1. DOMAIN measured = 1..Len(measured) /\ DOMAIN measured' = 1..(Len(measured) + 1)
      BY <2>3 DEF MeasureTypeOK
    <3>2. CASE i <= Len(measured)
      <4>1. i \in DOMAIN measured /\ measured'[i] = measured[i]
        BY <2>3, <2>4, <3>1, <3>2 DEF MeasureTypeOK
      <4>. QED
        BY <2>4, <4>1 DEF CounterInv, ZeroIsProof
    <3>3. CASE ~(i <= Len(measured))
      BY <2>1, <2>3, <2>4, <3>3
    <3>. QED
      BY <3>2, <3>3
  <2>. QED
    BY <1>4, <1>a, <2>3, <2>4 DEF ReadAfter, Measuring, MeasureTypeOK, CounterInv, ZeroIsProof
<1>5. CASE Conclude
  <2>1. stage = "warm"
    BY <1>5 DEF Conclude, MeasureTypeOK, Measuring
  <2>2. Verdict \in BOOLEAN
    <3>1. CASE setting.program = "demo"
      BY <3>1 DEF Verdict
    <3>2. CASE setting.program # "demo"
      BY <3>2 DEF Verdict
    <3>. QED
      BY <3>1, <3>2
  <2>3. /\ UNCHANGED <<setting, engine, cached, hits, late, stage, before, found>>
        /\ run' = run + 1 /\ measured' = <<>> /\ disturbed' = FALSE
        /\ verdicts' = Append(verdicts, [holds |-> Verdict, disturbed |-> disturbed])
    BY <1>5 DEF Conclude, NextRun
  <2>4. ZeroIsProof'
    BY <2>3 DEF ZeroIsProof
  <2>5. verdicts' \in Seq([holds : BOOLEAN, disturbed : BOOLEAN])
    BY <2>2, <2>3 DEF MeasureTypeOK
  <2>6. MeasureTypeOK'
    <3>1. /\ (measured \in Seq([tokens : Int, own : Nat]))'
          /\ (Len(measured) <= Len(Trials))'
      BY <1>a, <2>3
    <3>2. disturbed' \in BOOLEAN
      BY <2>3
    <3>. QED
      BY <2>1, <2>3, <2>5, <3>1, <3>2 DEF MeasureTypeOK
  <2>. QED
    BY <2>1, <2>3, <2>4, <2>6 DEF CounterInv
<1>6. CASE Die
  <2>1. Measuring /\ \E abandoned \in SUBSET Asked : late' = late \cup abandoned
    BY <1>6 DEF Die
  <2>2. \A request \in late' : /\ IsOf(request, NonceOfRequest(request))
                               /\ NonceOfRequest(request) \in Nat
    BY <2>1, AbandonedIsOf, ThisTrialIsOf DEF MeasureTypeOK
  <2>3. /\ UNCHANGED <<setting, engine, cached, hits, before, found, verdicts>>
        /\ run' = run + 1 /\ measured' = <<>> /\ disturbed' = FALSE /\ stage' = "warm"
    BY <1>6 DEF Die, NextRun
  <2>4. ZeroIsProof'
    BY <2>3 DEF ZeroIsProof
  <2>5. MeasureTypeOK'
    <3>1. /\ (measured \in Seq([tokens : Int, own : Nat]))'
          /\ (Len(measured) <= Len(Trials))'
      BY <1>a, <2>3
    <3>2. disturbed' \in BOOLEAN
      BY <2>3
    <3>. QED
      BY <2>2, <2>3, <3>1, <3>2 DEF MeasureTypeOK
  <2>. QED
    BY <2>3, <2>4, <2>5 DEF CounterInv
<1>7. CASE ServeLate
  <2>1. PICK request \in late : /\ Serve(request)
                                /\ late' = late \ {request}
                                /\ disturbed' \in BOOLEAN
    BY <1>7 DEF ServeLate
  <2>2. Reused(request) \in Nat
    BY <2>1, ReusedIsNat DEF MeasureTypeOK, IsOf
  <2>3. hits' \in Nat /\ hits' >= hits
    BY <2>1, <2>2 DEF Serve, MeasureTypeOK
  <2>. QED
    BY <1>7, <1>a, <2>1, <2>3 DEF ServeLate, Measuring, MeasureTypeOK, CounterInv, ZeroIsProof
<1>8. CASE OtherClient
  <2>. DEFINE r == Chat(None, <<Message("chat", "-", 0, None)>>)
  <2>1. DOMAIN r.messages = 1..1
    BY DEF Chat
  <2>2. Reused(r) \in Nat
    BY <2>1, ReusedIsNat
  <2>3. hits' \in Nat /\ hits' >= hits
    BY <1>8, <2>2 DEF OtherClient, Serve, MeasureTypeOK
  <2>. QED
    BY <1>8, <1>a, <2>3 DEF OtherClient, Measuring, MeasureTypeOK, CounterInv, ZeroIsProof
<1>9. CASE EvictOne
  BY <1>9, <1>a DEF EvictOne, Measuring, MeasureTypeOK, CounterInv, ZeroIsProof
<1>10. CASE UNCHANGED measureVars
  BY <1>10, <1>a DEF measureVars, Measuring, MeasureTypeOK, CounterInv, ZeroIsProof
<1>. QED
  BY <1>1, <1>2, <1>3, <1>4, <1>5, <1>6, <1>7, <1>8, <1>9, <1>10 DEF MeasureNext

\* A measured zero is proof that the probe reused nothing, whatever other clients
\* do and the engine evicts in between (demo_vllm_isolation.py measure).
THEOREM ZeroIsAlwaysProof == MeasureSpec => []ZeroIsProof
<1>1. MeasureSpec => []ZeroInv
  BY ZeroInvInit, ZeroInvStep, PTL DEF MeasureSpec
<1>2. ZeroInv => ZeroIsProof
  BY DEF ZeroInv, CounterInv
<1>. QED
  BY <1>1, <1>2, PTL

-----------------------------------------------------------------------------
\* What a trial measures when nobody else uses the engine

Keys(request) == {KeyAt(request, i) : i \in DOMAIN request.messages}
NonceOf(k) == k.contents[1][3]
ThisNonce == Nonce(Len(measured) + 1)

\* What the probe of a trial has in common with its own warming request: exactly
\* this is reused, on an engine that caches.
Common(tr) == {i \in DOMAIN tr.probe.messages : \A j \in 1..i : KeyAt(tr.probe, j) \in Keys(tr.warm)}
Expected(tr) == IF engine.caches THEN Cardinality(Common(tr)) ELSE 0

\* The cache holds nothing of trials to come, and of the present one what it warmed;
\* what may still be served late is of trials gone by.
CacheInv ==
    /\ ~engine.caches => cached = {}
    /\ \A k \in cached : NonceOf(k) \in Nat /\ NonceOf(k) <= ThisNonce
    /\ stage = "warm" => \A k \in cached : NonceOf(k) # ThisNonce
    /\ stage \in {"read", "probe"} =>
           /\ \A k \in cached : NonceOf(k) = ThisNonce => k \in Keys(ThisTrial.warm)
           /\ engine.caches => Keys(ThisTrial.warm) \subseteq cached
    /\ \A request \in late : NonceOfRequest(request) < ThisNonce

\* The counter grows by no less than is expected, and by no more in a run that no late
\* request has disturbed.
ReadingInv ==
    engine.counts =>
        /\ stage = "probe" => before <= hits /\ (~disturbed => before = hits)
        /\ stage = "report" =>
               /\ before + Expected(ThisTrial) <= hits
               /\ ~disturbed => before + Expected(ThisTrial) = hits
        /\ \A i \in DOMAIN measured :
               /\ measured[i].tokens >= Expected(Trials[i])
               /\ ~disturbed => measured[i].tokens = Expected(Trials[i])

\* Where nothing is cached or nothing is told, every reading is zero.
Blind == ~engine.caches \/ ~engine.counts
BlindInv == Blind => /\ prefix_cache_stats = 0
                     /\ before = 0
                     /\ \A i \in DOMAIN measured : measured[i].tokens = 0

VerdictsInv == VerdictsAreRight /\ HoldsIsProof
QuietInv == setting.quiet => CacheInv /\ ReadingInv /\ BlindInv /\ VerdictsInv
VerdictInv == ZeroInv /\ QuietInv

\* The keys of a request bear its nonce, and as many contents as messages are read.
LEMMA KeysBearNonce ==
    ASSUME NEW request, NEW nonce, IsOf(request, nonce), NEW i \in DOMAIN request.messages
    PROVE  /\ i \in 1..3
           /\ DOMAIN KeyAt(request, i).contents = 1..i
           /\ NonceOf(KeyAt(request, i)) = nonce
           /\ KeyAt(request, i).salts[1] = SaltSeen(request, 1)
BY DEF IsOf, KeyAt, NonceOf

\* So what is expected is a number.
LEMMA CommonIsFinite ==
    ASSUME NEW tr, NEW nonce, IsOf(tr.probe, nonce)
    PROVE  IsFiniteSet(Common(tr)) /\ Cardinality(Common(tr)) \in Nat
<1>1. PICK n \in {2, 3} : DOMAIN tr.probe.messages = 1..n
  BY DEF IsOf
<1>2. IsFiniteSet(1..n)
  BY FS_Interval
<1>3. Common(tr) \subseteq 1..n
  BY <1>1 DEF Common
<1>4. IsFiniteSet(Common(tr))
  BY <1>2, <1>3, FS_Subset
<1>. QED
  BY <1>4, FS_CardinalityType

\* Where the salts seen at the first message differ, nothing is reused.
LEMMA OtherSalt ==
    ASSUME NEW tr, NEW nonce, IsOf(tr.warm, nonce), IsOf(tr.probe, nonce),
           SaltSeen(tr.warm, 1) # SaltSeen(tr.probe, 1)
    PROVE  Expected(tr) = 0
<1>1. ASSUME NEW i \in Common(tr) PROVE FALSE
  <2>1. 1 \in DOMAIN tr.probe.messages /\ 1 \in 1..i
    BY <1>1, KeysBearNonce DEF Common, IsOf
  <2>2. PICK j \in DOMAIN tr.warm.messages : KeyAt(tr.probe, 1) = KeyAt(tr.warm, j)
    BY <1>1, <2>1 DEF Common, Keys
  <2>. QED
    BY <2>1, <2>2, KeysBearNonce
<1>2. Common(tr) = {}
  BY <1>1
<1>. QED
  BY <1>2, FS_EmptySet DEF Expected

\* Where they agree, on the same first message, something is.
LEMMA SameSaltSeen ==
    ASSUME NEW tr, NEW nonce, IsOf(tr.warm, nonce), IsOf(tr.probe, nonce), engine.caches,
           tr.warm.messages[1].content = tr.probe.messages[1].content,
           SaltSeen(tr.warm, 1) = SaltSeen(tr.probe, 1)
    PROVE  1 \in Common(tr) /\ Expected(tr) > 0
<1>1. 1 \in DOMAIN tr.probe.messages /\ 1 \in DOMAIN tr.warm.messages
  BY DEF IsOf
<1>2. KeyAt(tr.probe, 1) = KeyAt(tr.warm, 1)
  BY DEF KeyAt
<1>3. 1 \in Common(tr)
  BY <1>1, <1>2 DEF Common, Keys
<1>4. Cardinality(Common(tr)) # 0
  BY <1>3, CommonIsFinite, FS_EmptySet
<1>. QED
  BY <1>3, <1>4, CommonIsFinite DEF Expected

\* Where the second messages differ, no more than the first.
LEMMA OtherSecond ==
    ASSUME NEW tr, NEW nonce, IsOf(tr.warm, nonce), IsOf(tr.probe, nonce),
           tr.warm.messages[2].content # tr.probe.messages[2].content
    PROVE  Common(tr) \subseteq {1}
<1>1. ASSUME NEW i \in Common(tr), i # 1 PROVE FALSE
  <2>1. 2 \in 1..i /\ 2 \in DOMAIN tr.probe.messages
    BY <1>1, KeysBearNonce DEF Common, IsOf
  <2>2. PICK j \in DOMAIN tr.warm.messages : KeyAt(tr.probe, 2) = KeyAt(tr.warm, j)
    BY <1>1, <2>1 DEF Common, Keys
  <2>3. j \in 1..3 /\ DOMAIN KeyAt(tr.warm, j).contents = 1..j
        /\ DOMAIN KeyAt(tr.probe, 2).contents = 1..2
    BY <2>1, KeysBearNonce
  <2>4. 2 \in 1..j
    <3>1. 2 \in DOMAIN KeyAt(tr.probe, 2).contents
      BY <2>3
    <3>2. 2 \in DOMAIN KeyAt(tr.warm, j).contents
      BY <2>2, <3>1
    <3>. QED
      BY <2>3, <3>2
  <2>5. /\ KeyAt(tr.probe, 2).contents[2] = tr.probe.messages[2].content
        /\ KeyAt(tr.warm, j).contents[2] = tr.warm.messages[2].content
    BY <2>4 DEF KeyAt
  <2>. QED
    BY <2>2, <2>5
<1>. QED
  BY <1>1

-----------------------------------------------------------------------------
\* What the trials say of the engine

\* Which salts the trials of the demo send (demo_vllm_isolation.py main).
LEMMA DemoSays ==
    ASSUME MeasureTypeOK, setting.program = "demo"
    PROVE  /\ (/\ Expected(Trials[1]) > 0 /\ Expected(Trials[2]) = 0 /\ Expected(Trials[3]) > 0)
              <=> engine.caches /\ engine.salts \in {"request", "message"}
           /\ engine.caches => Expected(Trials[1]) > 0 /\ Expected(Trials[3]) > 0
           /\ \A i \in 1..3 : Expected(Trials[i]) \in Nat
<1>1. Trials = DemoTrials
  BY DEF Trials
<1>2. \A i \in 1..3 : IsOf(Trials[i].warm, Nonce(i)) /\ IsOf(Trials[i].probe, Nonce(i))
  BY TrialsHaveNonces, <1>1 DEF DemoTrials
<1>3. SaltOf("acme") # SaltOf("other-corp")
  BY DEF SaltOf, PartitionFor
<1>4. \A i, a, b : LET tr == measure(i, a, b)
                   IN  /\ tr.warm.messages[1].content = tr.probe.messages[1].content
                       /\ engine.salts = "ignored" =>
                              SaltSeen(tr.warm, 1) = None /\ SaltSeen(tr.probe, 1) = None
                       /\ engine.salts \in {"request", "message"} =>
                              SaltSeen(tr.warm, 1) = a /\ SaltSeen(tr.probe, 1) = b
  BY DEF measure, Trial, Chat, prompt, Message, SaltSeen
<1>5. /\ Trials[1] = measure(1, None, None)
      /\ Trials[2] = measure(2, SaltOf("acme"), SaltOf("other-corp"))
      /\ Trials[3] = measure(3, SaltOf("acme"), SaltOf("acme"))
  BY <1>1 DEF DemoTrials
<1>e. \A i \in 1..3 : Expected(Trials[i]) \in Nat
  BY <1>2, CommonIsFinite DEF Expected
<1>6. CASE ~engine.caches
  BY <1>6, <1>e DEF Expected
<1>7. CASE engine.caches
  <2>1. Expected(Trials[1]) > 0 /\ Expected(Trials[3]) > 0
    <3>1. /\ SaltSeen(Trials[1].warm, 1) = SaltSeen(Trials[1].probe, 1)
          /\ SaltSeen(Trials[3].warm, 1) = SaltSeen(Trials[3].probe, 1)
      BY <1>4, <1>5 DEF MeasureTypeOK
    <3>2. /\ Trials[1].warm.messages[1].content = Trials[1].probe.messages[1].content
          /\ Trials[3].warm.messages[1].content = Trials[3].probe.messages[1].content
      BY <1>4, <1>5
    <3>. QED
      BY <1>2, <1>7, <3>1, <3>2, SameSaltSeen
  <2>2. CASE engine.salts = "ignored"
    <3>1. /\ SaltSeen(Trials[2].warm, 1) = SaltSeen(Trials[2].probe, 1)
          /\ Trials[2].warm.messages[1].content = Trials[2].probe.messages[1].content
      BY <1>4, <1>5, <2>2
    <3>2. Expected(Trials[2]) > 0
      BY <1>2, <1>7, <3>1, SameSaltSeen
    <3>. QED
      BY <1>7, <1>e, <2>1, <2>2, <3>2
  <2>3. CASE engine.salts # "ignored"
    <3>1. SaltSeen(Trials[2].warm, 1) # SaltSeen(Trials[2].probe, 1)
      BY <1>3, <1>4, <1>5, <2>3 DEF MeasureTypeOK
    <3>2. Expected(Trials[2]) = 0
      BY <1>2, <3>1, OtherSalt
    <3>. QED
      BY <1>7, <1>e, <2>1, <2>3, <3>2 DEF MeasureTypeOK
  <2>. QED
    BY <1>e, <2>1, <2>2, <2>3
<1>. QED
  BY <1>6, <1>7

\* Which salts those of the experiment send (experiment_policy_comparison.py main).
LEMMA ExperimentSays ==
    ASSUME MeasureTypeOK, setting.program # "demo"
    PROVE  Expected(Trials[4]) - Expected(Trials[3]) > 0
           <=> engine.caches /\ engine.salts = "message"
<1>1. Trials = ExperimentTrials
  BY DEF Trials
<1>2. \A i \in 1..4 : IsOf(Trials[i].warm, Nonce(i)) /\ IsOf(Trials[i].probe, Nonce(i))
  BY TrialsHaveNonces, <1>1 DEF ExperimentTrials
<1>3. /\ Nonce(2) \in Int /\ Nonce(3) \in Int /\ Nonce(2) # Nonce(3)
      /\ Nonce(4) \in Int /\ Nonce(5) \in Int /\ Nonce(4) # Nonce(5)
      /\ Nonce(6) \in Nat /\ Nonce(6) # None
  BY NoneAssumption DEF Nonce, MeasureTypeOK
<1>4. \A i, a, b, p : LET tr == trial(i, a, b, p)
                      IN  /\ tr.warm.messages[1].content = tr.probe.messages[1].content
                          /\ tr.warm.messages[2].content # tr.probe.messages[2].content
  BY DEF trial, Trial, Chat, messages, Message
<1>5. \A i, a, b, p : LET tr == trial(i, a, b, p)
                      IN  /\ engine.salts = "ignored" =>
                                 SaltSeen(tr.warm, 1) = None /\ SaltSeen(tr.probe, 1) = None
                          /\ engine.salts = "request" =>
                                 SaltSeen(tr.warm, 1) = a /\ SaltSeen(tr.probe, 1) = b
                          /\ engine.salts = "message" =>
                                 /\ SaltSeen(tr.warm, 1) = IF p # None THEN p ELSE a
                                 /\ SaltSeen(tr.probe, 1) = IF p # None THEN p ELSE b
  BY DEF trial, Trial, Chat, messages, Message, SaltSeen
<1>6. Trials[3] = trial(3, Nonce(2), Nonce(3), None) /\ Trials[4] = trial(4, Nonce(4), Nonce(5), Nonce(6))
  BY <1>1 DEF ExperimentTrials
<1>7. CASE ~engine.caches
  BY <1>7 DEF Expected
<1>8. CASE engine.caches /\ engine.salts = "ignored"
  <2>1. /\ 1 \in Common(Trials[3]) /\ Common(Trials[3]) \subseteq {1}
        /\ 1 \in Common(Trials[4]) /\ Common(Trials[4]) \subseteq {1}
    <3>1. ASSUME NEW i \in {3, 4}
          PROVE  /\ SaltSeen(Trials[i].warm, 1) = SaltSeen(Trials[i].probe, 1)
                 /\ Trials[i].warm.messages[1].content = Trials[i].probe.messages[1].content
                 /\ Trials[i].warm.messages[2].content # Trials[i].probe.messages[2].content
      BY <1>4, <1>5, <1>6, <1>8
    <3>2. ASSUME NEW i \in {3, 4} PROVE 1 \in Common(Trials[i]) /\ Common(Trials[i]) \subseteq {1}
      <4>1. IsOf(Trials[i].warm, Nonce(i)) /\ IsOf(Trials[i].probe, Nonce(i))
        BY <1>2
      <4>2. 1 \in Common(Trials[i])
        BY <1>8, <3>1, <4>1, SameSaltSeen
      <4>3. Common(Trials[i]) \subseteq {1}
        BY <3>1, <4>1, OtherSecond
      <4>. QED
        BY <4>2, <4>3
    <3>. QED
      BY <3>2
  <2>2. Common(Trials[3]) = Common(Trials[4])
    BY <2>1
  <2>3. Cardinality(Common(Trials[3])) \in Nat
    BY <1>2, CommonIsFinite
  <2>. QED
    BY <1>8, <2>2, <2>3 DEF Expected
<1>9. CASE engine.caches /\ engine.salts = "request"
  <2>1. Expected(Trials[3]) = 0 /\ Expected(Trials[4]) = 0
    <3>1. ASSUME NEW i \in {3, 4} PROVE SaltSeen(Trials[i].warm, 1) # SaltSeen(Trials[i].probe, 1)
      BY <1>3, <1>5, <1>6, <1>9
    <3>. QED
      BY <1>2, <3>1, OtherSalt
  <2>. QED
    BY <1>9, <2>1
<1>10. CASE engine.caches /\ engine.salts = "message"
  <2>1. Expected(Trials[3]) = 0
    <3>1. SaltSeen(Trials[3].warm, 1) # SaltSeen(Trials[3].probe, 1)
      BY <1>3, <1>5, <1>6, <1>10
    <3>. QED
      BY <1>2, <3>1, OtherSalt
  <2>2. Expected(Trials[4]) > 0 /\ Expected(Trials[4]) \in Nat
    <3>1. SaltSeen(Trials[4].warm, 1) = SaltSeen(Trials[4].probe, 1)
      BY <1>3, <1>5, <1>6, <1>10
    <3>2. Trials[4].warm.messages[1].content = Trials[4].probe.messages[1].content
      BY <1>4, <1>6
    <3>. QED
      BY <1>2, <1>10, <3>1, <3>2, SameSaltSeen, CommonIsFinite DEF Expected
  <2>. QED
    BY <1>10, <2>1, <2>2
<1>. QED
  BY <1>7, <1>8, <1>9, <1>10 DEF MeasureTypeOK

\* As measured, with nobody else at the engine: the verdict of an undisturbed run is
\* right, and no run finds an isolation that is not there.
LEMMA VerdictIsRight ==
    ASSUME VerdictInv, setting.quiet, Len(measured) = Len(Trials)
    PROVE  /\ engine.counts /\ ~disturbed => (Verdict <=> engine.caches /\ HeedsSalts)
           /\ setting.program = "demo" /\ Verdict => engine.caches /\ HeedsSalts
<1>1. MeasureTypeOK /\ ReadingInv /\ BlindInv
  BY DEF VerdictInv, QuietInv, ZeroInv
<1>2. /\ Len(Trials) \in 3..4 /\ DOMAIN measured = 1..Len(Trials)
      /\ \A i \in 1..Len(Trials) : measured[i].tokens \in Int
  <2>1. Len(Trials) \in 3..4
    BY TrialsHaveNonces
  <2>2. measured \in Seq([tokens : Int, own : Nat])
    BY <1>1 DEF MeasureTypeOK
  <2>3. DOMAIN measured = 1..Len(Trials)
    BY <2>2
  <2>4. \A i \in DOMAIN measured : measured[i] \in [tokens : Int, own : Nat]
    <3>1. \A S : \A q \in Seq(S) : \A i \in DOMAIN q : q[i] \in S
      OBVIOUS
    <3>. QED
      BY <2>2, <3>1
  <2>. QED
    BY <2>1, <2>3, <2>4
<1>3. engine.counts /\ ~disturbed => \A i \in 1..Len(Trials) : measured[i].tokens = Expected(Trials[i])
  BY <1>1, <1>2 DEF ReadingInv
<1>4. CASE setting.program = "demo"
  <2>1. Len(Trials) = 3
    BY <1>4 DEF Trials, DemoTrials
  <2>2. Verdict <=> measured[1].tokens > 0 /\ measured[2].tokens = 0 /\ measured[3].tokens > 0
    BY <1>4 DEF Verdict
  <2>3. HeedsSalts <=> engine.salts \in {"request", "message"}
    BY <1>4 DEF HeedsSalts
  <2>4. engine.counts /\ ~disturbed => (Verdict <=> engine.caches /\ HeedsSalts)
    BY <1>1, <1>3, <1>4, <2>1, <2>2, <2>3, DemoSays
  <2>5. ASSUME Verdict PROVE engine.caches /\ HeedsSalts
    <3>1. measured[1].tokens # 0 /\ measured[2].tokens = 0
      BY <1>2, <2>1, <2>2, <2>5
    <3>2. ~Blind
      BY <1>1, <1>2, <2>1, <3>1 DEF BlindInv
    <3>3. engine.caches /\ engine.counts
      BY <3>2 DEF Blind
    <3>4. measured[2].tokens >= Expected(Trials[2])
      BY <1>1, <1>2, <2>1, <3>3 DEF ReadingInv
    <3>5. Expected(Trials[2]) = 0
      BY <1>1, <1>4, <3>1, <3>4, DemoSays
    <3>. QED
      BY <1>1, <1>4, <2>3, <3>3, <3>5, DemoSays
  <2>. QED
    BY <2>4, <2>5
<1>5. CASE setting.program # "demo"
  <2>1. Len(Trials) = 4
    BY <1>5 DEF Trials, ExperimentTrials
  <2>2. Verdict <=> measured[4].tokens - measured[3].tokens > 0
    BY <1>5 DEF Verdict
  <2>3. HeedsSalts <=> engine.salts = "message"
    BY <1>5 DEF HeedsSalts
  <2>. QED
    BY <1>1, <1>3, <1>5, <2>1, <2>2, <2>3, ExperimentSays
<1>. QED
  BY <1>4, <1>5

-----------------------------------------------------------------------------
\* Nonces are never used twice

\* Within a run the trials stay, and what the engine makes of them.
LEMMA SameTrials ==
    ASSUME setting' = setting, run' = run, engine' = engine
    PROVE  /\ Trials' = Trials
           /\ \A request : Keys(request)' = Keys(request)
           /\ \A tr : Expected(tr)' = Expected(tr)
<1>1. Trials' = Trials
  BY DEF Trials, DemoTrials, ExperimentTrials, measure, trial, messages, prompt, Chat, Message,
         Trial, Nonce, SaltOf
<1>2. \A request, i : KeyAt(request, i)' = KeyAt(request, i)
  BY DEF KeyAt, SaltSeen
<1>3. \A request : Keys(request)' = Keys(request)
  BY <1>2 DEF Keys
<1>4. \A tr : Common(tr)' = Common(tr)
  BY <1>2, <1>3 DEF Common
<1>. QED
  BY <1>1, <1>3, <1>4 DEF Expected

\* Within a trial, so does what the trial is.
LEMMA SameTrial ==
    ASSUME setting' = setting, run' = run, engine' = engine, measured' = measured
    PROVE  /\ ThisNonce' = ThisNonce
           /\ Keys(ThisTrial.warm)' = Keys(ThisTrial.warm)
           /\ Expected(ThisTrial)' = Expected(ThisTrial)
<1>1. ThisTrial' = ThisTrial
  BY SameTrials DEF ThisTrial
<1>. QED
  BY <1>1, SameTrials DEF ThisNonce, Nonce

\* Nonces are numbered, so that one can be later than another.
LEMMA ThisNonceIsNat == MeasureTypeOK => ThisNonce \in Nat
BY DEF MeasureTypeOK, ThisNonce, Nonce

\* The nonces of one run stay below those of the next.
LEMMA RunsApart ==
    ASSUME MeasureTypeOK, run' = run + 1, measured' = <<>>
    PROVE  ThisNonce' \in Nat /\ ThisNonce < ThisNonce'
<1>1. Len(measured) \in Nat /\ Len(measured) <= 4 /\ run \in Nat
  <2>1. Len(measured) \in Nat /\ Len(measured) <= Len(Trials) /\ run \in Nat
    BY DEF MeasureTypeOK
  <2>. QED
    BY <2>1, TrialsHaveNonces
<1>2. ThisNonce' = 10 * (run + 1) + 1
  BY <1>1 DEF ThisNonce, Nonce
<1>3. ThisNonce = 10 * run + (Len(measured) + 1)
  BY DEF ThisNonce, Nonce
<1>. QED
  BY <1>1, <1>2, <1>3

\* What a request of this trial leaves bears the nonce of the trial.
LEMMA ServedBearsNonce ==
    ASSUME NEW request, IsOf(request, ThisNonce), Serve(request)
    PROVE  /\ cached' = IF engine.caches THEN cached \cup Keys(request) ELSE cached
           /\ \A k \in Keys(request) : NonceOf(k) = ThisNonce
BY KeysBearNonce DEF Serve, Keys

\* The probe reuses what it has in common with the request that warmed the cache.
LEMMA ReusedIsExpected ==
    ASSUME MeasureTypeOK, Measuring, CacheInv, stage = "probe"
    PROVE  Reused(ThisTrial.probe) = Expected(ThisTrial)
<1>. DEFINE probe == ThisTrial.probe
<1>1. IsOf(probe, ThisNonce)
  BY ThisTrialIsOf DEF ThisNonce
<1>2. CASE engine.caches
  <2>1. \A i \in DOMAIN probe.messages : KeyAt(probe, i) \in cached <=> KeyAt(probe, i) \in Keys(ThisTrial.warm)
    BY <1>1, <1>2, KeysBearNonce DEF CacheInv
  <2>2. \A i \in DOMAIN probe.messages : 1..i \subseteq DOMAIN probe.messages
    BY <1>1 DEF IsOf
  <2>3. {i \in DOMAIN probe.messages : \A j \in 1..i : KeyAt(probe, j) \in cached} = Common(ThisTrial)
    BY <2>1, <2>2 DEF Common
  <2>. QED
    BY <1>2, <2>3 DEF Reused, Expected
<1>3. CASE ~engine.caches
  <2>1. \A i \in DOMAIN probe.messages : 1 \in 1..i
    BY <1>1 DEF IsOf
  <2>2. {i \in DOMAIN probe.messages : \A j \in 1..i : KeyAt(probe, j) \in cached} = {}
    BY <1>3, <2>1 DEF CacheInv
  <2>. QED
    BY <1>3, <2>2, FS_EmptySet DEF Reused, Expected
<1>. QED
  BY <1>2, <1>3

\* An engine that does not cache reuses nothing, and one that does not tell shows none.
LEMMA BlindServe ==
    ASSUME MeasureTypeOK, CacheInv, BlindInv, NEW request, NEW nonce, IsOf(request, nonce),
           Serve(request), engine' = engine
    PROVE  Blind => prefix_cache_stats' = 0
<1>1. CASE ~engine.counts
  BY <1>1 DEF prefix_cache_stats
<1>2. CASE engine.counts /\ ~engine.caches
  <2>1. \A i \in DOMAIN request.messages : 1 \in 1..i
    BY DEF IsOf
  <2>2. {i \in DOMAIN request.messages : \A j \in 1..i : KeyAt(request, j) \in cached} = {}
    BY <1>2, <2>1 DEF CacheInv
  <2>3. Reused(request) = 0
    BY <2>2, FS_EmptySet DEF Reused
  <2>4. hits = 0
    BY <1>2 DEF BlindInv, Blind, prefix_cache_stats
  <2>. QED
    BY <2>3, <2>4 DEF Serve, prefix_cache_stats
<1>. QED
  BY <1>1, <1>2 DEF Blind

\* An engine that just started has cached nothing.
LEMMA VerdictInvInit == MeasureInit => VerdictInv
<1>. SUFFICES ASSUME MeasureInit PROVE VerdictInv
  OBVIOUS
<1>1. /\ cached = {} /\ late = {} /\ hits = 0 /\ before = 0 /\ stage = "warm"
      /\ measured = <<>> /\ verdicts = <<>>
  BY DEF MeasureInit
<1>2. CacheInv
  BY <1>1 DEF CacheInv
<1>3. ReadingInv
  BY <1>1 DEF ReadingInv
<1>4. BlindInv
  BY <1>1 DEF BlindInv, prefix_cache_stats
<1>5. VerdictsInv
  BY <1>1 DEF VerdictsInv, VerdictsAreRight, HoldsIsProof
<1>. QED
  BY <1>2, <1>3, <1>4, <1>5, ZeroInvInit DEF VerdictInv, QuietInv

\* Verdicts once printed stay right.
LEMMA VerdictsStay ==
    ASSUME VerdictsInv, setting' = setting, engine' = engine, verdicts' = verdicts
    PROVE  VerdictsInv'
BY DEF VerdictsInv, VerdictsAreRight, HoldsIsProof, HeedsSalts

\* A trial warms under a nonce that nothing in the cache bears; a run that dies leaves
\* blocks of nonces that never come back, and requests that can leave no others.
LEMMA VerdictInvStep == VerdictInv /\ [MeasureNext]_measureVars => VerdictInv'
<1>. SUFFICES ASSUME VerdictInv, [MeasureNext]_measureVars PROVE VerdictInv'
  OBVIOUS
<1>0. setting' = setting
  <2>1. MeasureNext => setting' = setting
    BY Zenon DEF MeasureNext, measureVars, Warm, ReadBefore, Probe, ReadAfter, Conclude, Die,
                 ServeLate, OtherClient, EvictOne
  <2>. QED
    BY <2>1 DEF measureVars
<1>. SUFFICES ASSUME setting.quiet PROVE (CacheInv /\ ReadingInv /\ BlindInv /\ VerdictsInv)'
  BY <1>0, ZeroInvStep DEF VerdictInv, QuietInv
<1>a. MeasureTypeOK /\ CacheInv /\ ReadingInv /\ BlindInv /\ VerdictsInv
  BY DEF VerdictInv, ZeroInv, QuietInv
<1>b. ThisNonce \in Nat
  BY <1>a, ThisNonceIsNat
<1>1. CASE Warm
  <2>1. Measuring /\ Serve(ThisTrial.warm) /\ IsOf(ThisTrial.warm, ThisNonce) /\ stage' = "read"
    BY <1>1, <1>a, ThisTrialIsOf DEF Warm, ThisNonce
  <2>2. /\ UNCHANGED <<setting, engine, late, run, before, found, disturbed, measured, verdicts>>
        /\ stage = "warm"
    BY <1>1 DEF Warm
  <2>3. CacheInv'
    BY <1>a, <1>b, <2>1, <2>2, SameTrial, ServedBearsNonce DEF CacheInv
  <2>4. ReadingInv'
    BY <1>a, <2>1, <2>2, SameTrials DEF ReadingInv
  <2>5. BlindInv'
    BY <1>a, <2>1, <2>2, BlindServe DEF BlindInv, Blind
  <2>. QED
    BY <1>a, <2>2, <2>3, <2>4, <2>5, VerdictsStay
<1>2. CASE ReadBefore
  <2>1. /\ UNCHANGED <<setting, engine, cached, hits, late, run, found, disturbed, measured, verdicts>>
        /\ stage = "read" /\ stage' = "probe" /\ before' = prefix_cache_stats
    BY <1>2 DEF ReadBefore
  <2>2. CacheInv'
    BY <1>a, <2>1, SameTrial DEF CacheInv
  <2>3. ReadingInv'
    BY <1>a, <2>1, SameTrials DEF ReadingInv, prefix_cache_stats, MeasureTypeOK
  <2>4. BlindInv'
    BY <1>a, <2>1 DEF BlindInv, Blind, prefix_cache_stats
  <2>. QED
    BY <1>a, <2>1, <2>2, <2>3, <2>4, VerdictsStay
<1>3. CASE Probe
  <2>1. /\ Measuring /\ Serve(ThisTrial.probe) /\ IsOf(ThisTrial.probe, ThisNonce)
        /\ stage = "probe" /\ stage' = "report"
    BY <1>3, <1>a, ThisTrialIsOf DEF Probe, ThisNonce
  <2>2. UNCHANGED <<setting, engine, late, run, before, disturbed, measured, verdicts>>
    BY <1>3 DEF Probe
  <2>3. hits' = hits + Expected(ThisTrial) /\ Expected(ThisTrial) \in Nat
    BY <1>a, <2>1, ReusedIsExpected, ThisTrialIsOf DEF Serve
  <2>4. CacheInv'
    BY <1>a, <1>b, <2>1, <2>2, SameTrial, ServedBearsNonce DEF CacheInv
  <2>5. ReadingInv'
    <3>1. /\ Expected(ThisTrial)' = Expected(ThisTrial)
          /\ \A i : Expected(Trials[i])' = Expected(Trials[i])
      BY <2>2, SameTrial, SameTrials
    <3>2. engine.counts => before <= hits /\ (~disturbed => before = hits)
      BY <1>a, <2>1 DEF ReadingInv
    <3>3. engine.counts => /\ before + Expected(ThisTrial) <= hits'
                           /\ ~disturbed => before + Expected(ThisTrial) = hits'
      BY <1>a, <2>3, <3>2 DEF MeasureTypeOK
    <3>. QED
      BY <1>a, <2>1, <2>2, <3>1, <3>3 DEF ReadingInv
  <2>6. BlindInv'
    BY <1>a, <2>1, <2>2, BlindServe DEF BlindInv, Blind
  <2>. QED
    BY <1>a, <2>2, <2>4, <2>5, <2>6, VerdictsStay
<1>4. CASE ReadAfter
  <2>. DEFINE m == [tokens |-> prefix_cache_stats - before, own |-> found]
  <2>1. /\ Measuring /\ stage = "report" /\ stage' = "warm"
        /\ UNCHANGED <<setting, engine, cached, hits, late, run, before, found, disturbed, verdicts>>
        /\ measured' = Append(measured, m)
    BY <1>4 DEF ReadAfter
  <2>2. /\ Len(measured') = Len(measured) + 1
        /\ DOMAIN measured' = 1..(Len(measured) + 1)
        /\ \A i \in 1..Len(measured) : i \in DOMAIN measured /\ measured'[i] = measured[i]
        /\ measured'[Len(measured) + 1] = m
        /\ Len(measured) \in Nat
    BY <1>a, <2>1 DEF MeasureTypeOK
  <2>3. ThisNonce' = ThisNonce + 1
    BY <1>a, <2>1, <2>2 DEF ThisNonce, Nonce, MeasureTypeOK
  <2>4. CacheInv'
    <3>1. \A request \in late : NonceOfRequest(request) < ThisNonce'
      BY <1>a, <1>b, <2>3 DEF CacheInv, MeasureTypeOK
    <3>. QED
      BY <1>a, <1>b, <2>1, <2>3, <3>1 DEF CacheInv
  <2>5. engine.counts => /\ m.tokens >= Expected(ThisTrial)
                         /\ ~disturbed => m.tokens = Expected(ThisTrial)
    <3>1. Expected(ThisTrial) \in Nat
      BY <1>a, <2>1, ThisTrialIsOf, CommonIsFinite DEF Expected
    <3>2. engine.counts => /\ before + Expected(ThisTrial) <= hits
                           /\ ~disturbed => before + Expected(ThisTrial) = hits
      BY <1>a, <2>1 DEF ReadingInv
    <3>3. engine.counts => m.tokens = hits - before
      BY DEF prefix_cache_stats
    <3>4. hits \in Nat /\ before \in Nat
      BY <1>a DEF MeasureTypeOK
    <3>. HIDE DEF m
    <3>. QED
      BY <3>1, <3>2, <3>3, <3>4
  <2>6. \A i \in DOMAIN measured' : i \in 1..Len(measured) \/ i = Len(measured) + 1
    BY <2>2
  <2>7. ReadingInv'
    <3>1. ASSUME engine.counts, NEW i \in DOMAIN measured'
          PROVE  /\ measured'[i].tokens >= Expected(Trials[i])
                 /\ ~disturbed => measured'[i].tokens = Expected(Trials[i])
      <4>1. CASE i \in 1..Len(measured)
        BY <1>a, <2>2, <3>1, <4>1 DEF ReadingInv
      <4>2. CASE i = Len(measured) + 1
        BY <2>2, <2>5, <3>1, <4>2 DEF ThisTrial
      <4>. QED
        BY <2>6, <4>1, <4>2
    <3>. QED
      BY <2>1, <3>1, SameTrials DEF ReadingInv
  <2>8. BlindInv'
    <3>1. Blind => m.tokens = 0
      BY <1>a DEF BlindInv
    <3>. HIDE DEF m
    <3>2. Blind => \A i \in DOMAIN measured' : measured'[i].tokens = 0
      BY <1>a, <2>2, <2>6, <3>1 DEF BlindInv
    <3>. QED
      BY <1>a, <2>1, <3>2 DEF BlindInv, Blind, prefix_cache_stats
  <2>. QED
    BY <1>a, <2>1, <2>4, <2>7, <2>8, VerdictsStay
<1>5. CASE Conclude
  <2>. DEFINE v == [holds |-> Verdict, disturbed |-> disturbed]
  <2>1. /\ Len(measured) = Len(Trials) /\ verdicts' = Append(verdicts, v)
        /\ measured' = <<>> /\ run' = run + 1
        /\ UNCHANGED <<setting, engine, cached, hits, late, stage, before, found>>
    BY <1>5 DEF Conclude, NextRun
  <2>2. stage = "warm"
    BY <1>a, <2>1 DEF MeasureTypeOK, Measuring
  <2>3. ThisNonce' \in Nat /\ ThisNonce < ThisNonce'
    BY <1>a, <2>1, RunsApart
  <2>4. CacheInv'
    <3>1. \A request \in late : NonceOfRequest(request) < ThisNonce'
      BY <1>a, <1>b, <2>3 DEF CacheInv, MeasureTypeOK
    <3>. QED
      BY <1>a, <1>b, <2>1, <2>2, <2>3, <3>1 DEF CacheInv
  <2>5. ReadingInv'
    BY <2>1, <2>2 DEF ReadingInv
  <2>6. BlindInv'
    BY <1>a, <2>1 DEF BlindInv, Blind, prefix_cache_stats
  <2>7. VerdictsInv'
    <3>1. /\ \A i \in DOMAIN verdicts' : i \in 1..Len(verdicts) \/ i = Len(verdicts) + 1
          /\ \A i \in 1..Len(verdicts) : i \in DOMAIN verdicts /\ verdicts'[i] = verdicts[i]
          /\ verdicts'[Len(verdicts) + 1] = v
      BY <1>a, <2>1 DEF MeasureTypeOK
    <3>2. /\ engine.counts /\ ~v.disturbed => (v.holds <=> engine.caches /\ HeedsSalts)
          /\ setting.program = "demo" /\ v.holds => engine.caches /\ HeedsSalts
      BY <2>1, VerdictIsRight
    <3>3. HeedsSalts' = HeedsSalts
      BY <2>1 DEF HeedsSalts
    <3>. HIDE DEF v
    <3>4. VerdictsAreRight'
      BY <1>a, <2>1, <3>1, <3>2, <3>3 DEF VerdictsInv, VerdictsAreRight
    <3>5. HoldsIsProof'
      BY <1>a, <2>1, <3>1, <3>2, <3>3 DEF VerdictsInv, HoldsIsProof
    <3>. QED
      BY <3>4, <3>5 DEF VerdictsInv
  <2>. QED
    BY <2>4, <2>5, <2>6, <2>7
<1>6. CASE Die
  <2>1. /\ Measuring /\ stage' = "warm" /\ measured' = <<>> /\ run' = run + 1
        /\ UNCHANGED <<setting, engine, cached, hits, before, found, verdicts>>
        /\ \E abandoned \in SUBSET Asked : late' = late \cup abandoned
    BY <1>6 DEF Die, NextRun
  <2>2. ThisNonce' \in Nat /\ ThisNonce < ThisNonce'
    BY <1>a, <2>1, RunsApart
  <2>3. \A request \in Asked : NonceOfRequest(request) = ThisNonce
    BY <1>a, <2>1, AbandonedIsOf DEF ThisNonce
  <2>4. \A request \in late' : NonceOfRequest(request) < ThisNonce'
    BY <1>a, <1>b, <2>1, <2>2, <2>3 DEF CacheInv, MeasureTypeOK
  <2>5. CacheInv'
    BY <1>a, <1>b, <2>1, <2>2, <2>4 DEF CacheInv
  <2>6. ReadingInv'
    BY <2>1 DEF ReadingInv
  <2>7. BlindInv'
    BY <1>a, <2>1 DEF BlindInv, Blind, prefix_cache_stats
  <2>. QED
    BY <1>a, <2>1, <2>5, <2>6, <2>7, VerdictsStay
<1>7. CASE ServeLate
  <2>1. PICK request \in late :
            /\ Serve(request)
            /\ late' = late \ {request}
            /\ disturbed' = (disturbed \/ (stage \in {"probe", "report"} /\ Reused(request) > 0))
    BY <1>7 DEF ServeLate
  <2>2. UNCHANGED <<setting, engine, run, stage, before, found, measured, verdicts>>
    BY <1>7 DEF ServeLate
  <2>3. /\ IsOf(request, NonceOfRequest(request))
        /\ NonceOfRequest(request) \in Nat /\ NonceOfRequest(request) < ThisNonce
        /\ Reused(request) \in Nat
    BY <1>a, <2>1, ReusedIsNat DEF MeasureTypeOK, CacheInv, IsOf
  <2>4. CacheInv'
    <3>1. \A k \in Keys(request) : NonceOf(k) \in Nat /\ NonceOf(k) < ThisNonce
      BY <2>3, KeysBearNonce DEF Keys
    <3>2. cached' = IF engine.caches THEN cached \cup Keys(request) ELSE cached
      BY <2>1 DEF Serve, Keys
    <3>3. \A k \in cached' \ cached : NonceOf(k) \in Nat /\ NonceOf(k) < ThisNonce
      BY <3>1, <3>2
    <3>4. cached \subseteq cached' /\ (~engine.caches => cached' = {})
      BY <1>a, <3>2 DEF CacheInv
    <3>5. /\ ThisNonce' = ThisNonce
          /\ Keys(ThisTrial.warm)' = Keys(ThisTrial.warm)
      BY <2>2, SameTrial
    <3>. QED
      BY <1>a, <1>b, <2>1, <2>2, <3>3, <3>4, <3>5 DEF CacheInv
  <2>5. ReadingInv'
    <3>1. /\ Expected(ThisTrial)' = Expected(ThisTrial)
          /\ \A i : Expected(Trials[i])' = Expected(Trials[i])
      BY <2>2, SameTrial, SameTrials
    <3>2. /\ hits \in Nat /\ before \in Nat /\ hits' = hits + Reused(request)
          /\ stage \in {"probe", "report"} /\ ~disturbed' => hits' = hits
          /\ ~disturbed' => ~disturbed
      <4>1. hits \in Nat /\ before \in Nat /\ hits' = hits + Reused(request)
        BY <1>a, <2>1 DEF MeasureTypeOK, Serve
      <4>2. ~disturbed' => ~disturbed
        BY <2>1
      <4>3. stage \in {"probe", "report"} /\ ~disturbed' => ~(Reused(request) > 0)
        BY <2>1
      <4>. QED
        BY <2>3, <4>1, <4>2, <4>3
    <3>3. ASSUME engine.counts, stage = "probe"
          PROVE  before <= hits' /\ (~disturbed' => before = hits')
      BY <1>a, <2>3, <3>2, <3>3 DEF ReadingInv
    <3>4. ASSUME engine.counts, stage = "report"
          PROVE  /\ before + Expected(ThisTrial) <= hits'
                 /\ ~disturbed' => before + Expected(ThisTrial) = hits'
      <4>1. Expected(ThisTrial) \in Nat
        BY <1>a, <3>4, ThisTrialIsOf, CommonIsFinite DEF Expected, MeasureTypeOK
      <4>. QED
        BY <1>a, <2>3, <3>2, <3>4, <4>1 DEF ReadingInv
    <3>. QED
      BY <1>a, <2>2, <3>1, <3>2, <3>3, <3>4 DEF ReadingInv
  <2>6. BlindInv'
    BY <1>a, <2>1, <2>2, <2>3, BlindServe DEF BlindInv, Blind
  <2>. QED
    BY <1>a, <2>2, <2>4, <2>5, <2>6, VerdictsStay
<1>8. CASE OtherClient \/ EvictOne
  BY <1>8 DEF OtherClient, EvictOne
<1>9. CASE UNCHANGED measureVars
  <2>1. UNCHANGED <<setting, engine, cached, hits, late, run, stage, before, disturbed, measured,
                    verdicts>>
    BY <1>9 DEF measureVars
  <2>2. CacheInv'
    BY <1>a, <2>1, SameTrial DEF CacheInv
  <2>3. ReadingInv'
    BY <1>a, <2>1, SameTrial, SameTrials DEF ReadingInv
  <2>4. BlindInv'
    BY <1>a, <2>1 DEF BlindInv, Blind, prefix_cache_stats
  <2>. QED
    BY <1>a, <2>1, <2>2, <2>3, <2>4, VerdictsStay
<1>. QED
  BY <1>1, <1>2, <1>3, <1>4, <1>5, <1>6, <1>7, <1>8, <1>9 DEF MeasureNext

\* However often the programs are run and die, and whenever the engine serves what they
\* have left: on an engine that nobody else uses and that tells its hits, every verdict
\* of a run that no late request disturbed is right (demo_vllm_isolation.py main,
\* experiment_policy_comparison.py main).
THEOREM VerdictsAreAlwaysRight == MeasureSpec => []VerdictsAreRight
<1>1. MeasureSpec => []VerdictInv
  BY VerdictInvInit, VerdictInvStep, PTL DEF MeasureSpec
<1>2. VerdictInv => VerdictsAreRight
  BY DEF VerdictInv, QuietInv, VerdictsInv, VerdictsAreRight
<1>. QED
  BY <1>1, <1>2, PTL

\* In no run, disturbed or not, does the demo find an isolation that is not there
\* (demo_vllm_isolation.py main).
THEOREM HoldsIsAlwaysProof == MeasureSpec => []HoldsIsProof
<1>1. MeasureSpec => []VerdictInv
  BY VerdictInvInit, VerdictInvStep, PTL DEF MeasureSpec
<1>2. VerdictInv => HoldsIsProof
  BY DEF VerdictInv, QuietInv, VerdictsInv, HoldsIsProof
<1>. QED
  BY <1>1, <1>2, PTL
=============================================================================
