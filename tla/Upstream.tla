------------------------------ MODULE Upstream ------------------------------
(***************************************************************************)
(* How long a handler thread waits for the engine.  The timeout of urlopen *)
(* (proxy.py) is that of the socket: it bounds each wait for the next      *)
(* piece of the answer, not the call, so an engine that keeps sending,     *)
(* if only a byte at a time, keeps the thread in read.                     *)
(*                                                                         *)
(* Proxy says what the threads and the engine do to each other; this       *)
(* module adds the pieces, and which steps are sure to come.               *)
(***************************************************************************)
EXTENDS ProxyProperties

VARIABLE arrived   \* something has arrived for the thread since it last read

upstreamVars == <<allVars, arrived>>

-----------------------------------------------------------------------------
\* A piece of an answer is for the call that waits for it; with the connection it goes.
Arrivals == arrived' = [t \in Threads |-> arrived[t] /\ stage'[t] = "waiting"]

Exchange == ProxyNext /\ Arrivals

\* The engine sends a piece of its answer, which need not be the last.
Trickle(t) == /\ stage[t] = "waiting"
              /\ arrived' = [arrived EXCEPT ![t] = TRUE]
              /\ UNCHANGED allVars

\* read takes it and waits for the next one, with the whole timeout before it.
Receive(t) == /\ arrived[t]
              /\ arrived' = [arrived EXCEPT ![t] = FALSE]
              /\ UNCHANGED allVars

\* Nothing arrives for as long as the timeout.
TimeOut(t) == ~arrived[t] /\ Lose(t)

UpstreamInit == ProxyInit /\ arrived = [t \in Threads |-> FALSE]

UpstreamNext == Exchange \/ \E t \in Threads : Trickle(t) \/ Receive(t)

UpstreamSpec == UpstreamInit /\ [][UpstreamNext]_upstreamVars

-----------------------------------------------------------------------------
\* What a thread does without anybody's help: handle takes no lock and waits for
\* nothing, and a read returns with what has arrived or times out.
OwnStep(t) == \/ /\ Walk(t) \/ Fail(t) \/ Forward(t) \/ Unreachable(t) \/ Answer(t) \/ TimeOut(t)
                 /\ Arrivals
              \/ Receive(t)

\* Handler threads are scheduled.  Nothing is assumed of the engine, of other clients
\* and of the clock; of the client itself, that it sent its request and takes what it
\* is answered.
FairUpstreamSpec == UpstreamSpec /\ \A t \in Threads : WF_upstreamVars(OwnStep(t))

\* The only handler thread that never comes back from its connection is one that the
\* engine keeps sending to for ever.  One that the engine leaves alone comes back,
\* although other threads keep replacing and deleting the entries its call of handle
\* reads (proxy.py do_POST, timeout of urlopen; gateway.py handle).
EveryConnectionEnds ==
    \A t \in Threads : <>[](stage[t] # "free") => []<>arrived[t]
=============================================================================
