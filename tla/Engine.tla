------------------------------- MODULE Engine -------------------------------
(***************************************************************************)
(* The inference server behind the gateway, an external program, as far as *)
(* the gateway depends on it: a prefix cache whose blocks are addressed by *)
(* the salt of the request and the input up to the block.  A request is a  *)
(* job that walks its input, reuses blocks while every one so far was      *)
(* found, computes the others and keeps them.  A job goes on whether or    *)
(* not anybody still waits for its answer.                                 *)
(*                                                                         *)
(* The engine knows of no policy.  own, inherited, by, drawn and reused    *)
(* are history: whose constraints a block and a job answer to, and which   *)
(* request's blocks a job has found.                                       *)
(***************************************************************************)
EXTENDS CachePolicy

VARIABLES blocks, \* the prefix cache: block key -> history of the block
          jobs    \* request id -> the engine's work for that request

engineVars == <<blocks, jobs>>

-----------------------------------------------------------------------------
\* What salt_for digests, and what a caller may write in its place.
Salts == [partition : Partitions, namespaces : Seq(STRING)]

\* No salt is not one of the salts.
ASSUME NoSaltAssumption == None \notin Salts

\* No salt selects the default domain, which is a domain like any other.
BlockKeys == [salt : Salts \cup {None}, contents : Seq(STRING)]
Blocks == [own : SUBSET Sources, inherited : SUBSET Sources, by : Nat]

JobKey(j) == [salt |-> jobs[j].salt, contents |-> SubSeq(jobs[j].contents, 1, jobs[j].pos)]
Unfinished(j) == jobs[j].pos <= Len(jobs[j].contents)
Found(j) == jobs[j].hitting /\ JobKey(j) \in DOMAIN blocks

\* The engine accepts the request id; owns[i] is what its input up to the i-th
\* fragment answers to.
Submit(id, salt, contents, owns, reader) ==
    /\ jobs' = [j \in DOMAIN jobs \cup {id} |->
                  IF j = id THEN [salt |-> salt, contents |-> contents, owns |-> owns,
                                  reader |-> reader, pos |-> 1, hitting |-> TRUE,
                                  drawn |-> {}, reused |-> {}]
                  ELSE jobs[j]]
    /\ UNCHANGED blocks

ReuseBlock(j) ==
    /\ Unfinished(j)
    /\ Found(j)
    /\ LET block == blocks[JobKey(j)]
       IN  jobs' = [jobs EXCEPT ![j].pos = @ + 1,
                                ![j].drawn = @ \cup block.own \cup block.inherited,
                                ![j].reused = @ \cup {block.by}]
    /\ UNCHANGED blocks

\* A block that another job has put there meanwhile is replaced or left.
ComputeBlock(j) ==
    /\ Unfinished(j)
    /\ ~Found(j)
    /\ jobs' = [jobs EXCEPT ![j].pos = @ + 1, ![j].hitting = FALSE]
    /\ \/ blocks' = [k \in DOMAIN blocks \cup {JobKey(j)} |->
                       IF k = JobKey(j)
                       THEN [own |-> jobs[j].owns[jobs[j].pos], inherited |-> jobs[j].drawn, by |-> j]
                       ELSE blocks[k]]
       \/ JobKey(j) \in DOMAIN blocks /\ UNCHANGED blocks

\* The engine gives a job up and answers with an error.
Abandon(j) == /\ jobs' = [jobs EXCEPT ![j].pos = Len(jobs[j].contents) + 1]
              /\ UNCHANGED blocks

EvictBlock(k) == /\ blocks' = [b \in DOMAIN blocks \ {k} |-> blocks[b]]
                 /\ UNCHANGED jobs

EngineInit == /\ blocks = [k \in {} |-> None]
              /\ jobs = [j \in {} |-> None]

EngineNext == \/ \E j \in DOMAIN jobs : ReuseBlock(j) \/ ComputeBlock(j)
              \/ \E k \in DOMAIN blocks : EvictBlock(k)

EngineTypeOK ==
    /\ DOMAIN blocks \subseteq BlockKeys
    /\ blocks \in [DOMAIN blocks -> Blocks]
    /\ DOMAIN jobs \subseteq Nat \ {0}
    /\ \A j \in DOMAIN jobs :
          /\ jobs[j].salt \in Salts \cup {None}
          /\ Len(jobs[j].owns) = Len(jobs[j].contents)
          /\ jobs[j].pos \in 1..Len(jobs[j].contents) + 1
          /\ jobs[j].reused \subseteq DOMAIN jobs
=============================================================================
